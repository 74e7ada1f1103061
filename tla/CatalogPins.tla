----------------------------- MODULE CatalogPins -----------------------------
(***************************************************************************)
(* coordinator/catalog/pins_store.py: the catalog of published             *)
(* configurations, two files in one directory, with the endpoints          *)
(* /api/catalog of main.py and the jobs that name a pin                    *)
(* (coordinator/jobs/init_reconcile.py).                                   *)
(*                                                                         *)
(* Handlers do not await, so nothing comes between the writes of one but   *)
(* the end of the process.  A directory may belong to two backends, one of *)
(* which approves requests by itself (schemas/backends.json gives          *)
(* mock.default and the real bench the same lab view).                     *)
(***************************************************************************)
EXTENDS Naturals, Sequences

CONSTANTS
  Requests,     \* ids drawn for publish requests
  PinIds,       \* pin ids: proposed, given by the owner, or made from a commit
  Commits,      \* configurations, with their repository and branch
  Jobs,         \* jobs whose snapshot names a pin
  None

VARIABLES
  pins,         \* pins.json: the entry of each pin id, or None
  requests,     \* publish_requests.json: the row of each request, or None
  drawn,        \* request ids in use
  todo,         \* what the handler under way has still to write
  snapshot,     \* snapshot[j]: the pin id of an open job, and what its client saw there
  target,       \* target[j]: the configuration the job was resolved to
  automatic,    \* history: requests approved without being listed
  torn          \* history: requests whose approval a crash cut short

vars == <<pins, requests, drawn, todo, snapshot, target, automatic, torn>>
files == <<pins, requests>>
jobVars == <<snapshot, target>>

Pin == [commit : Commits, request : Requests]
Row == [commit : Commits, status : {"pending", "rejected"}, pin : {None}]
       \cup [commit : Commits, status : {"approved"}, pin : PinIds]

ASSUME PinAssumptions == None \notin Requests \cup PinIds \cup Commits \cup Pin \cup Row

Write == [file : {"pins"}, pin : PinIds, entry : Pin]
         \cup [file : {"requests"}, request : Requests, pin : PinIds]

TypeOK ==
  /\ pins \in [PinIds -> Pin \cup {None}]
  /\ requests \in [Requests -> Row \cup {None}]
  /\ drawn \subseteq Requests
  /\ todo \in Seq(Write) /\ Len(todo) <= 3
  /\ snapshot \in [Jobs -> [pin : PinIds, seen : Commits] \cup {None}]
  /\ target \in [Jobs -> Commits \cup {None}]
  /\ automatic \subseteq Requests /\ torn \subseteq Requests

Init ==
  /\ pins = [p \in PinIds |-> None]
  /\ requests = [r \in Requests |-> None]
  /\ drawn = {} /\ todo = <<>>
  /\ snapshot = [j \in Jobs |-> None] /\ target = [j \in Jobs |-> None]
  /\ automatic = {} /\ torn = {}

Idle == todo = <<>>
Pending(r) == requests[r] # None /\ requests[r].status = "pending"

-----------------------------------------------------------------------------
\* submit_publish_request at a backend whose owner decides: the request is
\* listed.  The pin id it proposes is no more than the owner's to accept.
Submit(r, c) ==
  /\ Idle /\ r \notin drawn
  /\ drawn' = drawn \cup {r}
  /\ requests' = [requests EXCEPT ![r] =
       [commit |-> c, status |-> "pending", pin |-> None]]
  /\ UNCHANGED <<pins, todo, jobVars, automatic, torn>>

\* What _approve_locked writes: the pin (its request is history: the file has
\* who asked for it), and the decision on the request.
PinWrite(r, c, p) == [file |-> "pins", pin |-> p, entry |-> [commit |-> c, request |-> r]]
RequestWrite(r, p) == [file |-> "requests", request |-> r, pin |-> p]

\* The same at a mock backend: the pin is entered, the request is answered as
\* approved and listed nowhere.
SubmitAuto(r, c, p) ==
  /\ Idle /\ r \notin drawn
  /\ drawn' = drawn \cup {r}
  /\ automatic' = automatic \cup {r}
  /\ todo' = <<PinWrite(r, c, p)>>
  /\ UNCHANGED <<files, jobVars, torn>>

\* Faulty: the request is marked before its pin is entered.
FaultyApprovalWrites(r, p) ==
  <<RequestWrite(r, p), PinWrite(r, requests[r].commit, p), RequestWrite(r, p)>>

\* _approve_locked writes both files, and its caller the second one again from
\* what it read before.
ApprovalWrites(r, p) ==
  <<PinWrite(r, requests[r].commit, p), RequestWrite(r, p), RequestWrite(r, p)>>

\* Both decisions raise KeyError and ValueError otherwise.
MayDecide(r) == Pending(r)

\* approve_publish_request; the owner may give another pin id.
Approve(r, p) ==
  /\ Idle /\ MayDecide(r)
  /\ todo' = ApprovalWrites(r, p)
  /\ UNCHANGED <<files, drawn, jobVars, automatic, torn>>

\* reject_publish_request
Reject(r) ==
  /\ Idle /\ MayDecide(r)
  /\ requests' = [requests EXCEPT ![r].status = "rejected"]
  /\ UNCHANGED <<pins, drawn, todo, jobVars, automatic, torn>>

\* Faulty: the commit is not taken along to the row of an existing pin.
FaultyEntered(p, entry) == IF pins[p] = None THEN entry ELSE [pins[p] EXCEPT !.request = entry.request]

\* The loop over the existing pins: one of that id is replaced.
Entered(p, entry) == entry

\* _write_json puts a new file in place of the old one.
WriteFile ==
  /\ ~Idle
  /\ LET w == Head(todo) IN
       IF w.file = "pins"
       THEN /\ pins' = [pins EXCEPT ![w.pin] = Entered(w.pin, w.entry)]
            /\ UNCHANGED requests
       ELSE /\ requests' = [requests EXCEPT ![w.request].status = "approved",
                                            ![w.request].pin = w.pin]
            /\ UNCHANGED pins
  /\ todo' = Tail(todo)
  /\ UNCHANGED <<drawn, jobVars, automatic, torn>>

\* The process ends; jobs are lost with it, the files are not.
Crash ==
  /\ todo' = <<>>
  /\ torn' = torn \cup {r \in Requests : \E i \in 1..Len(todo) :
                          todo[i].file = "requests" /\ todo[i].request = r}
  /\ snapshot' = [j \in Jobs |-> None] /\ target' = [j \in Jobs |-> None]
  /\ UNCHANGED <<files, drawn, automatic>>

\* A client lists the pins and submits a job whose snapshot names one of them.
SubmitJob(j, p) ==
  /\ Idle /\ snapshot[j] = None /\ pins[p] # None
  /\ snapshot' = [snapshot EXCEPT ![j] = [pin |-> p, seen |-> pins[p].commit]]
  /\ UNCHANGED <<files, drawn, todo, target, automatic, torn>>

\* resolve_snapshot_target, once the job's runner has started.
StartJob(j) ==
  /\ Idle /\ snapshot[j] # None /\ target[j] = None
  /\ pins[snapshot[j].pin] # None
  /\ target' = [target EXCEPT ![j] = pins[snapshot[j].pin].commit]
  /\ UNCHANGED <<files, drawn, todo, snapshot, automatic, torn>>

Next ==
  \/ \E r \in Requests, c \in Commits : Submit(r, c)
  \/ \E r \in Requests, c \in Commits, p \in PinIds : SubmitAuto(r, c, p)
  \/ \E r \in Requests, p \in PinIds : Approve(r, p)
  \/ \E r \in Requests : Reject(r)
  \/ WriteFile \/ Crash
  \/ \E j \in Jobs, p \in PinIds : SubmitJob(j, p)
  \/ \E j \in Jobs : StartJob(j)

Spec == Init /\ [][Next]_vars

-----------------------------------------------------------------------------
\* Properties

\* Whatever write a crash comes after, and whichever requests ask for the same
\* pin id: a request that the list shows as approved has its pin in the catalog.
ApprovedHasPin ==
  \A r \in Requests :
    requests[r] # None /\ requests[r].status = "approved" => pins[requests[r].pin] # None

\* A pin stands for a request that was approved under its id, or that a mock
\* backend approved by itself, or whose approval a crash cut short: with the
\* configuration that was asked for, not that of the pin it replaces.
PinsAccounted ==
  Idle => \A p \in PinIds : pins[p] # None =>
    LET r == pins[p].request IN
    \/ r \in automatic
    \/ /\ requests[r].commit = pins[p].commit
       /\ \/ r \in torn
          \/ requests[r].status = "approved" /\ requests[r].pin = p

-----------------------------------------------------------------------------
\* What documents and comments say, and the code does not keep

\* docs/LAB_SURFACES_VC_AND_INITIALIZATION.md: "GET /api/catalog/pins - approved
\* pins only".
ApprovedPinsOnly ==
  \A p \in PinIds, r \in Requests :
    pins[p] # None /\ pins[p].request = r /\ requests[r] # None => requests[r].status # "rejected"

\* cloudlabs/client.py: "approved remote catalog pins for this backend (frozen
\* snapshots)": a job gets the configuration its client saw under the pin.
PinsAreFrozen == \A j \in Jobs : target[j] # None => target[j] = snapshot[j].seen

=============================================================================
