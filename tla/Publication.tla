------------------------------ MODULE Publication ------------------------------
(***************************************************************************)
(* What readers and authors are promised about the publication of a        *)
(* resource, without the handlers, statements and tables that keep the     *)
(* promise: it is shown to everybody only with an approval that stands,    *)
(* given for a submission by a publisher who is not its author, or by an   *)
(* administrator; its author never changes; what was removed does not come *)
(* back.  PublicationRefinement shows that ResourceLifecycle implements it.*)
(***************************************************************************)
CONSTANTS
  Users,
  Admins,      \* may show anything
  Publishers,  \* may approve what others have submitted
  NoUser

VARIABLES
  stage,    \* how far the resource has come
  hidden,   \* TRUE while nobody is shown it, approved or not
  author,
  approver  \* who approved it, while it is approved

vars == <<stage, hidden, author, approver>>

Kept == stage \in {"draft", "submitted", "approved"}

MayApprove(u) ==
  \/ u \in Admins
  \/ stage = "submitted" /\ u \in Publishers /\ u # author

Write(u) ==
  /\ stage = "none"
  /\ stage' = "draft" /\ author' = u
  /\ UNCHANGED <<hidden, approver>>

Approve(u) ==
  /\ stage \in {"draft", "submitted"} /\ MayApprove(u)
  /\ stage' = "approved" /\ approver' = u
  /\ UNCHANGED <<hidden, author>>

\* Submitted, sent back, edited, taken back: no approval stands after it.
Rework ==
  /\ Kept
  /\ stage' \in {"draft", "submitted"} /\ approver' = NoUser
  /\ UNCHANGED <<hidden, author>>

HideOrReturn ==
  /\ Kept
  /\ hidden' = ~hidden
  /\ UNCHANGED <<stage, author, approver>>

Remove ==
  /\ Kept
  /\ stage' = "removed" /\ hidden' = FALSE /\ approver' = NoUser
  /\ UNCHANGED author

Init == stage = "none" /\ hidden = FALSE /\ author = NoUser /\ approver = NoUser

Next == (\E u \in Users : Write(u) \/ Approve(u)) \/ Rework \/ HideOrReturn \/ Remove

Spec == Init /\ [][Next]_vars
=============================================================================
