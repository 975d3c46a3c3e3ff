---------------------------- MODULE MCSharedPtr ----------------------------
(* Instances of SharedPtr for TLC. *)
EXTENDS SharedPtr

CONSTANTS t1, t2, a, b, p, q, r, s, m, k, w

(* One thread: a SharedPtr member in a, a WeakPtr member in b. *)
OneUser == [h \in {p, q, m, k, w} |-> t1]
OneIn == [h \in {p, q, m, k, w} |->
            IF h = m THEN a ELSE IF h = k THEN b ELSE Null]

(* Two threads with two local SharedPtrs each, and a member of a. *)
TwoUsers == [h \in {p, q, r, s, m} |-> IF h \in {r, s} THEN t2 ELSE t1]
TwoIn == [h \in {p, q, r, s, m} |-> IF h = m THEN a ELSE Null]

(* Two threads that share one object, one of them with a WeakPtr. *)
WeakUsers == [h \in {p, r, w} |-> IF h = p THEN t1 ELSE t2]
WeakIn == [h \in {p, r, w} |-> Null]
=============================================================================
