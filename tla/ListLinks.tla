----------------------------- MODULE ListLinks -----------------------------
(***************************************************************************)
(* The link surgery of peff::List (containers/list.h): what _prepend,      *)
(* _append and _remove do to a list's header and to the links of its       *)
(* nodes.  A chain is a record [head, links]; List keeps one, HashSet one  *)
(* for each bucket over the links of all its nodes.                        *)
(*                                                                         *)
(* _prepend and _append are each other's mirror image: a direction is      *)
(* "prev" for the one and "next" for the other.                            *)
(***************************************************************************)
EXTENDS Integers, Sequences, FiniteSets

CONSTANTS Nodes,   \* the nodes there can be
          Null     \* the null pointer

ASSUME NodesAssumption == IsFiniteSet(Nodes) /\ Null \notin Nodes

Header == [_first : Nodes \cup {Null}, _last : Nodes \cup {Null},
          _length : Int]
EmptyHead == [_first |-> Null, _last |-> Null, _length |-> 0]

Links == [prev : [Nodes -> Nodes \cup {Null}],
          next : [Nodes -> Nodes \cup {Null}]]
NoLinks == [prev |-> [n \in Nodes |-> Null], next |-> [n \in Nodes |-> Null]]

Directions == {"prev", "next"}
Back(dir) == IF dir = "prev" THEN "next" ELSE "prev"
(* The end of a list that lies in a direction. *)
EndOf(dir) == IF dir = "prev" THEN "_first" ELSE "_last"

(* A node as its constructor leaves it. *)
Fresh(links, n) == [links EXCEPT !.prev[n] = Null, !.next[n] = Null]

(* The neighbours of dest come to know node, and node comes to know dest:  *)
(* node's own link in direction dir is left as it is.                      *)
Relink(links, dir, dest, node) ==
  LET near == links[dir][dest]
      behind == IF near = Null THEN links
                ELSE [links EXCEPT ![Back(dir)][near] = node]
      beside == [behind EXCEPT ![dir][dest] = node]
  IN IF dest = Null THEN [links EXCEPT ![Back(dir)][node] = Null]
     ELSE [beside EXCEPT ![Back(dir)][node] = dest]

(* _prepend(dest, node) and _append(dest, node): an end of the list moves  *)
(* to the new node if dest was the end there, or if there was none.        *)
Attach_NotAtEnd(c, dir, dest, node) ==
  LET end(e) == IF c.head[e] = Null THEN node ELSE c.head[e]
  IN [head |-> [_first |-> end("_first"), _last |-> end("_last"),
                _length |-> c.head._length + 1],
      links |-> Relink(c.links, dir, dest, node)]
Attach(c, dir, dest, node) ==
  LET end(e) == IF \/ c.head[e] = Null
                   \/ e = EndOf(dir) /\ dest = c.head[e]
                THEN node ELSE c.head[e]
  IN [head |-> [_first |-> end("_first"), _last |-> end("_last"),
                _length |-> c.head._length + 1],
      links |-> Relink(c.links, dir, dest, node)]

(* _remove(dest): dest keeps its own links. *)
Unlink_KeepsLast(c, dest) ==
  LET before == c.links.prev[dest]
      after == c.links.next[dest]
      l1 == IF before = Null THEN c.links
            ELSE [c.links EXCEPT !.next[before] = after]
  IN [head |-> [c.head EXCEPT
                  !._first = IF dest = @ THEN after ELSE @,
                  !._length = @ - 1],
      links |-> IF after = Null THEN l1
                ELSE [l1 EXCEPT !.prev[after] = before]]
Unlink(c, dest) ==
  LET before == c.links.prev[dest]
      after == c.links.next[dest]
      l1 == IF before = Null THEN c.links
            ELSE [c.links EXCEPT !.next[before] = after]
      l2 == IF after = Null THEN l1 ELSE [l1 EXCEPT !.prev[after] = before]
  IN [head |-> [_first |-> IF dest = c.head._first THEN after
                           ELSE c.head._first,
                _last |-> IF dest = c.head._last THEN before
                          ELSE c.head._last,
                _length |-> c.head._length - 1],
      links |-> l2]

(* The nodes whose memory each of them reads or writes. *)
AttachTouches(c, dir, dest, node) ==
  {node} \cup IF dest = Null THEN {} ELSE {dest, c.links[dir][dest]} \ {Null}
UnlinkTouches(c, dest) ==
  {dest, c.links.prev[dest], c.links.next[dest]} \ {Null}

(* The link of node that attaching leaves alone is already the right one.  *)
AttachIsClean(c, dir, dest, node) ==
  c.links[dir][node] = IF dest = Null THEN Null ELSE c.links[dir][dest]

(* The chain's links spell s in both directions. *)
Spells(c, s) ==
  LET n == Len(s)
      at(i) == IF i \in 1 .. n THEN s[i] ELSE Null
  IN /\ c.head = [_first |-> at(1), _last |-> at(n), _length |-> n]
     /\ \A i \in 1 .. n : /\ c.links.prev[s[i]] = at(i - 1)
                          /\ c.links.next[s[i]] = at(i + 1)
=============================================================================
