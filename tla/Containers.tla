----------------------------- MODULE Containers -----------------------------
(***************************************************************************)
(* The containers of src/common side by side: a behaviour exercises one of *)
(* them, `kind`, and leaves the others as they were made.                  *)
(***************************************************************************)
EXTENDS List, AvlTree, Buffer

VARIABLE kind   \* the container this behaviour is about

allvars == <<listvars, treevars, buffervars, kind>>

Init ==
  /\ ListInit /\ TreeInit /\ BufferInit
  /\ kind \in {"list", "tree", "buffer"}
  /\ kind # "buffer" => pol = "no_shrink" /\ user_size = 0

Next ==
  /\ \/ kind = "list" /\ ListNext /\ UNCHANGED <<treevars, buffervars>>
     \/ kind = "tree" /\ TreeNext /\ UNCHANGED <<listvars, buffervars>>
     \/ kind = "buffer" /\ BufferNext /\ UNCHANGED <<listvars, treevars>>
  /\ UNCHANGED kind

Spec == Init /\ [][Next]_allvars
=============================================================================
