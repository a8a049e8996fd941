---------------------------- MODULE UserRequests ----------------------------
(***************************************************************************)
(* User requests for a series (src/app.py, table user_requests) composed   *)
(* with the monitor they start: a user asks for it with a monitoring mode  *)
(* and seasons, an administrator approves or denies, and an approved       *)
(* request starts _kick_off_processing.  Without accounts the request      *)
(* starts at once.                                                         *)
(***************************************************************************)
EXTENDS SeriesMonitor

CONSTANTS
    Requests,      \* identities of rows of user_requests
    UserModes,     \* the monitoring modes users choose
    MaxKicks       \* bound: approving threads of a request at a time

ASSUME RequestConstants ==
    UserModes \subseteq Modes /\ MaxKicks \in Nat

VARIABLES
    ureq,     \* user_requests.status, "none" without a row
    kicks,    \* approving threads between the update and the kick-off
    approved  \* history: requests approved at some time

uvars == <<ureq, kicks, approved>>
allVars == <<vars, uvars>>

URInit ==
    /\ Init
    /\ ureq = [r \in Requests |-> "none"]
    /\ kicks = [r \in Requests |-> 0]
    /\ approved = {}

(* The kick-off runs in the route's thread and starts a processing thread. *)
Start(mode, chosen) ==
    /\ \E a \in Adders : th[a].pc = "idle" /\ KickOff(a, mode, chosen)
    /\ UNCHANGED <<world, status, im>>

(* Faulty variant: the request is started before it is reviewed.           *)
SubmitStarted(r, mode, chosen, auto) ==
    /\ setup.users = "accounts" /\ ureq[r] = "none"
    /\ ureq' = [ureq EXCEPT ![r] = IF auto THEN "approved" ELSE "pending"]
    /\ IF auto THEN approved' = approved \cup {r} ELSE UNCHANGED approved
    /\ Start(mode, chosen)
    /\ UNCHANGED kicks

(* ui_api_discover_add, with an account: the row says whether the request  *)
(* waits, and only an auto-approved one starts now, with the user's mode.  *)
Submit(r, mode, chosen, auto) ==
    /\ setup.users = "accounts" /\ ureq[r] = "none"
    /\ ureq' = [ureq EXCEPT ![r] = IF auto THEN "approved" ELSE "pending"]
    /\ IF auto THEN approved' = approved \cup {r} /\ Start(mode, chosen)
       ELSE UNCHANGED <<vars, approved>>
    /\ UNCHANGED kicks

(* ui_api_discover_add without accounts.                                   *)
AddDirectly(mode, chosen) ==
    /\ setup.users = "single" /\ Start(mode, chosen) /\ UNCHANGED uvars

(* ui_api_user_request_approve: whatever the status was.  The mode and the *)
(* seasons the user chose are not in the row: the defaults are used.       *)
Approve(r) ==
    /\ ureq[r] # "none" /\ kicks[r] < MaxKicks
    /\ ureq' = [ureq EXCEPT ![r] = "approved"]
    /\ kicks' = [kicks EXCEPT ![r] = @ + 1]
    /\ approved' = approved \cup {r}
    /\ UNCHANGED vars

ApproveKick(r) ==
    /\ kicks[r] > 0
    /\ Start("all", {})
    /\ kicks' = [kicks EXCEPT ![r] = @ - 1]
    /\ UNCHANGED <<ureq, approved>>

(* ui_api_user_request_deny: an approval in flight is not stopped.         *)
Deny(r) ==
    /\ ureq[r] \in {"pending", "approved"}
    /\ ureq' = [ureq EXCEPT ![r] = "denied"]
    /\ UNCHANGED <<vars, kicks, approved>>

URNext ==
    \/ MonitorStep /\ UNCHANGED uvars
    \/ \E r \in Requests, mode \in UserModes, auto \in BOOLEAN :
          \E chosen \in SUBSET Seasons : Submit(r, mode, chosen, auto)
    \/ \E mode \in UserModes : AddDirectly(mode, {})
    \/ \E r \in Requests : Approve(r) \/ ApproveKick(r) \/ Deny(r)

URSpec == URInit /\ [][URNext]_allVars

(* A thread that runs goes on, and the generator runs; the monitor's job   *)
(* is paused, so that no check need ever start.                            *)
URFair ==
    /\ \A c \in Checkers : WF_allVars(CheckStep(c) /\ UNCHANGED uvars)
    /\ \A t \in Threads : WF_allVars(SyncStep(t) /\ UNCHANGED uvars)
    /\ \A a \in Adders : WF_allVars(AddStep(a) /\ UNCHANGED uvars)
    /\ \A r \in Requests : WF_allVars(ApproveKick(r))
    /\ WF_allVars(Generate /\ UNCHANGED uvars)

URFairSpec == URSpec /\ URFair

(* The monitor's types, and those of user_requests.                        *)
URTypeOK ==
    /\ MonitorTypeOK
    /\ ureq \in [Requests -> {"none", "pending", "approved", "denied"}]
    /\ kicks \in [Requests -> 0..MaxKicks] /\ approved \subseteq Requests

(* Unless an import or Seerr brings the series in, nothing is monitored,   *)
(* processed or wanted before an administrator (or the account's           *)
(* auto-approval) has said yes; a denial in time keeps it so (app.py).     *)
NothingBeforeApproval ==
    (approved = {} /\ ~past.other /\ setup.users # "single") =>
        /\ row = NoRow
        /\ \A t \in Threads : th[t].pc \notin {"process", "add", "sync"}
        /\ \A e \in Episodes : status[e] = "none"
=============================================================================
