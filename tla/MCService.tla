------------------------------ MODULE MCService ------------------------------
(* The service for TLC: three requests of any kind, one content and two
   queries, one of which cannot be encoded; the service stops once.  Of the
   edits, one makes up what the handlers look for, one takes it away, and one
   puts something empty in the place of a query. *)
EXTENDS Service, TLC

CONSTANTS b1, q1, o1

MadeUp == {Described(b1), Named(q1), Other(o1)}

ThreeEdits ==
  { [asserted |-> MadeUp, retracted |-> {}],
    [asserted |-> {}, retracted |-> MadeUp \cup {Bytes(q1)}],
    [asserted |-> {Empty(q1)}, retracted |-> {Other(o1)}] }

Symmetry == Permutations(Requests)
=============================================================================
