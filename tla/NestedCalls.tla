---------------------------- MODULE NestedCalls ----------------------------
(***************************************************************************)
(* What the storage of alkanes promises to its contracts.  There is one    *)
(* state that everybody sees, and a transaction, its message and each call *)
(* inside remember what it was when they began: what is undone leaves no   *)
(* trace.  A static call is always undone, and a call in which another one *)
(* failed or was refused is never kept, so a message has all of its        *)
(* effects or none.                                                        *)
(***************************************************************************)
EXTENDS Naturals, Sequences

CONSTANTS Keys, Values

VARIABLES view,   \* the state that is seen
          saved   \* what each level began with, the transaction first

Views == [Keys -> Values]

Doomed(level) == [view |-> level.view, static |-> level.static, doomed |-> TRUE]

Last == saved[Len(saved)]
Below == SubSeq(saved, 1, Len(saved) - 1)

\* The levels of the transaction and of its message.
Calls == 3

Init == view \in Views /\ saved = <<>>

Begin(static) ==
  /\ view' \in Views
  /\ saved' = Append(saved, [view |-> view, static |-> static, doomed |-> FALSE])

Keep ==
  /\ saved # <<>> /\ ~Last.static /\ ~Last.doomed
  /\ view' \in Views
  /\ saved' = Below

UndoStatic ==
  /\ saved # <<>> /\ Last.static /\ ~Last.doomed
  /\ view' = Last.view
  /\ saved' = Below

\* A call that fails dooms its caller; a message does not doom its
\* transaction.
Fail ==
  /\ saved # <<>>
  /\ view' = Last.view
  /\ saved' = IF Len(saved) < Calls THEN Below
              ELSE [Below EXCEPT ![Len(saved) - 1] = Doomed(@)]

Refuse ==
  /\ Len(saved) >= Calls - 1
  /\ saved' = [saved EXCEPT ![Len(saved)] = Doomed(@)]
  /\ UNCHANGED view

Next ==
  \/ \E static \in BOOLEAN : Begin(static)
  \/ Keep \/ UndoStatic \/ Fail \/ Refuse

Spec == Init /\ [][Next]_<<view, saved>>
=============================================================================
