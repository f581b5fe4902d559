----------------------------- MODULE HostStore -----------------------------
(***************************************************************************)
(* The host's durable tables, as operations on their value.  Whatever is   *)
(* pulled out of a workspace is keyed by the human the host binds to that  *)
(* workspace's owner label, never by what the payload says of itself.      *)
(***************************************************************************)
EXTENDS Integers, Sequences, SequencesExt, Tables

CONSTANTS
  Owners,    \* owner labels of the workspaces
  EmailOf    \* owner -> the human the host's registry binds to it

(* The map the binding is built from is refused when two owners share an   *)
(* email.                                                                  *)
ASSUME BindingAssumption ==
  /\ DOMAIN EmailOf = Owners
  /\ \A o, p \in Owners : EmailOf[o] = EmailOf[p] => o = p

EmptyHost == [drafts |-> EmptyTable, viewed |-> EmptyTable, audit |-> <<>>]

(* Fault: the row is keyed by the identity the draft carries.              *)
landDraftAsClaimed(host, owner, pulled) ==
  [host EXCEPT !.drafts = Upsert(@, pulled.humanId, pulled)]
landDraft(host, owner, pulled) ==
  [host EXCEPT !.drafts =
     Upsert(@, EmailOf[owner], [pulled EXCEPT !.humanId = EmailOf[owner]])]

landViewed(host, owner, marks) ==
  [host EXCEPT !.viewed = Upsert(@, EmailOf[owner], marks)]

(* Identity is rebuilt from the binding; the conflict target is the whole  *)
(* row, so only rows the table lacks are appended.                         *)
AuditRow(owner, row) ==
  [human |-> EmailOf[owner], workspace |-> owner,
   endpoint |-> row.endpoint, id |-> row.id]
(* Fault: the conflict target leaves the workspace's rows be inserted again. *)
landAuditAgain(host, owner, rows) ==
  [host EXCEPT !.audit = @ \o SetToSeq({AuditRow(owner, r) : r \in rows})]
landAudit(host, owner, rows) ==
  [host EXCEPT !.audit =
     @ \o SetToSeq({AuditRow(owner, r) : r \in rows} \ ToSet(@))]

(* The all-humans union the detector reads.                                *)
listAuditUnion(host) == ToSet(host.audit)
listAuditForOwner(host, owner) ==
  {row \in ToSet(host.audit) : row.human = EmailOf[owner]}

(* Off-boarding: working state goes in one transaction, the journal stays. *)
(* Fault: the journal's rows of the human go as well.                      *)
purgeEverything(host, owner) ==
  [drafts |-> Without(host.drafts, {EmailOf[owner]}),
   viewed |-> Without(host.viewed, {EmailOf[owner]}),
   audit  |-> SelectSeq(host.audit, LAMBDA row : row.human # EmailOf[owner])]
purgeWorkingState(host, owner) ==
  [host EXCEPT !.drafts = Without(@, {EmailOf[owner]}),
               !.viewed = Without(@, {EmailOf[owner]})]

=============================================================================
