---------------------------- MODULE MCSQLiteLedger ----------------------------
(***************************************************************************)
(* Two connections and five receipt contents: a first record, a rival      *)
(* content for the same occurrence, a child of the first record that cites *)
(* a stored object, a child of the rival, and a record that cites an       *)
(* object only another record's payload brings in.                         *)
(***************************************************************************)
EXTENDS SQLiteLedger, TLC

CONSTANTS c1, c2, first, rival, child, orphan, citing, o1, o2, o3, n1, n2, n3, n4

MCOccurrence == (first :> n1) @@ (rival :> n1) @@ (child :> n2) @@ (orphan :> n3) @@ (citing :> n4)
MCPayload == (first :> o1) @@ (rival :> o2) @@ (child :> o2) @@ (orphan :> o1) @@ (citing :> o1)
MCObjectRefs == (first :> {}) @@ (rival :> {}) @@ (child :> {o3}) @@ (orphan :> {}) @@ (citing :> {o2})
MCParents == (first :> {}) @@ (rival :> {}) @@ (child :> {first}) @@ (orphan :> {rival}) @@ (citing :> {})
=============================================================================
