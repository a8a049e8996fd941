--------------------------- MODULE RequestLedger ---------------------------
(***************************************************************************)
(* What the request pipeline promises for the requests it accepts,         *)
(* whatever threads, tables, locks and jobs it uses.  A request waits under *)
(* one ticket, which may be exchanged for another but never copied; its    *)
(* title is tried by one at a time; each failed try costs one attempt, and *)
(* it ends with something of the title added, with the title on the wanted *)
(* list, or when the attempts are used up.  Only a crash loses requests.   *)
(***************************************************************************)
EXTENDS Integers

CONSTANTS
  Titles,
  Parts,        \* pairs of a title and a number: what can be added
  Places,       \* where a request can wait
  MaxAttempts   \* the attempts after the first

VARIABLES
  waiting,   \* tickets of the requests that wait
  trying,    \* the attempt each title is tried at, or Untried
  settled,   \* how many requests of each title have ended
  wanted,    \* titles to be looked for again
  library    \* the parts added

ledger == <<waiting, trying, settled, wanted, library>>

Untried == -1
Ticket == [at : Places, title : Titles, attempt : 0 .. MaxAttempts]
Something(x) == \E part \in library : part[1] = x

Init ==
  /\ waiting = {} /\ wanted = {} /\ library = {}
  /\ trying = [x \in Titles |-> Untried]
  /\ settled = [x \in Titles |-> 0]

Accept(t) ==
  /\ t \notin waiting /\ t.attempt = 0
  /\ waiting' = waiting \cup {t}
  /\ UNCHANGED <<trying, settled, wanted, library>>

(* One ticket for one: neither is the request lost nor is it doubled.      *)
Exchange(t, u) ==
  /\ t \in waiting /\ u \notin waiting
  /\ u.title = t.title /\ u.attempt = t.attempt
  /\ waiting' = (waiting \ {t}) \cup {u}
  /\ UNCHANGED <<trying, settled, wanted, library>>

Try(t) ==
  /\ t \in waiting /\ trying[t.title] = Untried
  /\ waiting' = waiting \ {t}
  /\ trying' = [trying EXCEPT ![t.title] = t.attempt]
  /\ UNCHANGED <<settled, wanted, library>>

(* Nothing is added of a title nobody asked for.                           *)
Add(part) ==
  /\ \/ trying[part[1]] # Untried
     \/ part[1] \in wanted \/ Something(part[1])
  /\ library' = library \cup {part}
  /\ UNCHANGED <<waiting, trying, settled, wanted>>

Ends(x) ==
  /\ trying[x] # Untried
  /\ trying' = [trying EXCEPT ![x] = Untried]
  /\ settled' = [settled EXCEPT ![x] = @ + 1]
  /\ UNCHANGED <<waiting, library>>

Settle(x) ==
  /\ Ends(x)
  /\ wanted' \in {wanted, wanted \cup {x}}
  /\ x \in wanted' \/ Something(x)

GiveUp(x) == trying[x] = MaxAttempts /\ Ends(x) /\ UNCHANGED wanted

Retry(u) ==
  /\ trying[u.title] # Untried
  /\ u \notin waiting /\ u.attempt = trying[u.title] + 1
  /\ trying' = [trying EXCEPT ![u.title] = Untried]
  /\ waiting' = waiting \cup {u}
  /\ UNCHANGED <<settled, wanted, library>>

Unwant(x) ==
  /\ x \in wanted /\ Something(x)
  /\ wanted' = wanted \ {x}
  /\ UNCHANGED <<waiting, trying, settled, library>>

Crash ==
  /\ waiting' \subseteq waiting
  /\ trying' = [x \in Titles |-> Untried]
  /\ UNCHANGED <<settled, wanted, library>>

Next ==
  \/ \E t \in Ticket : Accept(t) \/ Try(t) \/ Retry(t)
  \/ \E t, u \in Ticket : Exchange(t, u)
  \/ \E part \in Parts : Add(part)
  \/ \E x \in Titles : Settle(x) \/ GiveUp(x) \/ Unwant(x)
  \/ Crash

Spec == Init /\ [][Next]_ledger
=============================================================================
