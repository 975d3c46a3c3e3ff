-------------------------------- MODULE List --------------------------------
(***************************************************************************)
(* peff::List (containers/list.h): an intrusive doubly linked list whose   *)
(* nodes clients can make themselves, take out and put back.  One call is  *)
(* one step.  items is no state of the program: it is the sequence the     *)
(* calls made so far ask for, and the invariants compare the links to it.  *)
(*                                                                         *)
(* _prepend and _append leave one link of the node as it is; where that is *)
(* the wrong one, as it is for a new node put inside the list, the call    *)
(* breaks the list.  list_sound is a history variable, TRUE as long as     *)
(* clients avoid such calls, and nothing follows one.                      *)
(*                                                                         *)
(* An allocation that fails returns before anything is changed.            *)
(*                                                                         *)
(* What other containers have too is named after the list here: the proofs *)
(* about hash sets, whose buckets are lists, extend both.                  *)
(***************************************************************************)
EXTENDS ListLinks, SequencesExt

VARIABLES
  head,         \* _first, _last and _length
  list_links,   \* the nodes' prev and next
  list_live,    \* the nodes that are constructed
  items,        \* what the list should hold
  fault,        \* "none", or how the program died
  list_sound

list_vars == <<head, list_links, list_live, items, fault, list_sound>>

chain == [head |-> head, links |-> list_links]
Linked == ToSet(items)
Position(n) == CHOOSE i \in 1 .. Len(items) : items[i] = n

ListInit == /\ head = EmptyHead /\ list_links = NoLinks /\ list_live = {}
        /\ items = <<>> /\ fault = "none" /\ list_sound = TRUE

CanCall == fault = "none" /\ list_sound

(* A step that reads or writes the nodes ns. *)
Touch(ns) == fault' = IF ns \subseteq list_live THEN "none" ELSE "use_after_free"

(* A client constructs a Node of its own. *)
MakeNode(n) ==
  /\ CanCall /\ n \notin list_live
  /\ list_live' = list_live \cup {n} /\ list_links' = Fresh(list_links, n)
  /\ UNCHANGED <<head, items, fault, list_sound>>

(* push_front(T &&) and push_back(T &&): a new node at an end. *)
Push(dir, n) ==
  LET c == [head |-> head, links |-> Fresh(list_links, n)]
      dest == head[EndOf(dir)]
      pushed == Attach(c, dir, dest, n)
  IN /\ CanCall /\ n \notin list_live
     /\ list_live' = list_live \cup {n}
     /\ fault' = IF AttachTouches(c, dir, dest, n) \subseteq list_live'
                 THEN "none" ELSE "use_after_free"
     /\ head' = pushed.head /\ list_links' = pushed.links
     /\ items' = IF dir = "prev" THEN <<n>> \o items ELSE Append(items, n)
     /\ UNCHANGED list_sound

(* A client attaches a node of its own, or one that it has detached.       *)
MayAttach(n) == CanCall /\ n \in list_live \ Linked

AttachTo(dir, dest, n) ==
  LET attached == Attach(chain, dir, dest, n)
  IN /\ Touch(AttachTouches(chain, dir, dest, n))
     /\ head' = attached.head /\ list_links' = attached.links
     /\ list_sound' = AttachIsClean(chain, dir, dest, n)
     /\ UNCHANGED list_live

(* push_front(NodeHandle) and push_back(NodeHandle) *)
PushNode(dir, n) ==
  /\ MayAttach(n)
  /\ AttachTo(dir, head[EndOf(dir)], n)
  /\ items' = IF dir = "prev" THEN <<n>> \o items ELSE Append(items, n)

(* insert_front ("prev") and insert_back ("next") *)
InsertNode(dir, dest, n) ==
  /\ dest \in Linked /\ MayAttach(n)
  /\ AttachTo(dir, dest, n)
  /\ items' = InsertAt(items, IF dir = "prev" THEN Position(dest)
                              ELSE Position(dest) + 1, n)

(* _remove, which remove and detach share. *)
TakeOut(dest) ==
  LET left == Unlink(chain, dest)
  IN /\ Touch(UnlinkTouches(chain, dest))
     /\ head' = left.head /\ list_links' = left.links
     /\ items' = IF dest \in Linked THEN RemoveAt(items, Position(dest))
                 ELSE items
     /\ UNCHANGED list_sound

Detach(n) == CanCall /\ n \in Linked /\ TakeOut(n) /\ UNCHANGED list_live

RemoveNode(n) == CanCall /\ n \in Linked /\ TakeOut(n) /\ list_live' = list_live \ {n}

DeleteNode(n) ==
  /\ CanCall /\ n \in list_live \ Linked
  /\ list_live' = list_live \ {n} /\ UNCHANGED <<head, list_links, items, fault, list_sound>>

(* pop_front and pop_back of a list whose size() is not 0. *)
Pop(dir) ==
  LET dest == head[EndOf(dir)]
  IN /\ CanCall /\ head._length # 0
     /\ \/ dest # Null /\ TakeOut(dest) /\ list_live' = list_live \ {dest}
        \/ /\ dest = Null /\ fault' = "assert"
           /\ UNCHANGED <<head, list_links, list_live, items, list_sound>>

(* The node n links after the first one, as next() finds it. *)
Nth[i \in 0 .. Cardinality(Nodes)] ==
  IF i = 0 THEN head._first
  ELSE IF Nth[i - 1] = Null THEN Null ELSE list_links.next[Nth[i - 1]]

(* clear, and the destructor: the next link is read, the node deleted. *)
ListClear ==
  /\ CanCall
  /\ list_live' = list_live \ {Nth[i] : i \in DOMAIN Nth}
  /\ head' = EmptyHead /\ items' = <<>>
  /\ fault' = IF /\ {Nth[i] : i \in DOMAIN Nth} \subseteq list_live \cup {Null}
                 /\ Nth[Cardinality(Nodes)] = Null
              THEN "none" ELSE "use_after_free"
  /\ UNCHANGED <<list_links, list_sound>>

ListNext ==
  \/ \E n \in Nodes :
       \/ MakeNode(n) \/ Detach(n) \/ RemoveNode(n) \/ DeleteNode(n)
       \/ \E dir \in Directions :
            \/ Push(dir, n) \/ PushNode(dir, n)
            \/ \E dest \in Nodes : InsertNode(dir, dest, n)
  \/ \E dir \in Directions : Pop(dir)
  \/ ListClear

ListSpec == ListInit /\ [][ListNext]_list_vars

-----------------------------------------------------------------------------
(* Iterators: a node, Null at the end, and the direction they move in. *)

ListBegin(dir) == head[EndOf(Back(dir))]
ListAdvance_Forward(dir, n) == list_links.next[n]
ListAdvance(dir, n) == list_links[dir][n]
(* operator--, which throws when it finds no node. *)
Retreat(dir, n) == list_links[Back(dir)][n]

-----------------------------------------------------------------------------
(* Properties. *)

(* Header, links and nodes have their types; _length, which is unsigned,   *)
(* never falls below zero.                                                 *)
ListTypeOK ==
  /\ head \in Header /\ head._length >= 0 /\ list_links \in Links
  /\ list_live \subseteq Nodes /\ items \in Seq(Nodes)
  /\ fault \in {"none", "assert", "use_after_free"}

(* After every sound call the links spell, from either end, exactly the    *)
(* nodes that were put in and not taken out, in their order, each of them  *)
(* live.                                                                   *)
LinksSpellItems ==
  list_sound =>
    /\ ListTypeOK
    /\ fault = "none" => /\ Spells(chain, items)
                         /\ Linked \subseteq list_live
                         /\ Cardinality(Linked) = Len(items)

(* No sound call touches a deleted node, and _remove is not called with    *)
(* null: what a detached node still points to is never followed.           *)
NoFault == list_sound => fault = "none"

(* After every sound call an iterator started at either end visits every   *)
(* node in order and stops, and steps back to where it came from.          *)
IteratorsVisitAll ==
  list_sound /\ fault = "none" => \A dir \in Directions :
    LET seen == IF dir = "next" THEN items ELSE Reverse(items)
        at(i) == IF i <= Len(items) THEN seen[i] ELSE Null
    IN /\ ListBegin(dir) = at(1)
       /\ \A i \in 1 .. Len(items) :
            /\ ListAdvance(dir, seen[i]) = at(i + 1)
            /\ i > 1 => Retreat(dir, seen[i]) = at(i - 1)
=============================================================================
