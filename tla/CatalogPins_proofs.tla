-------------------------- MODULE CatalogPins_proofs --------------------------
(***************************************************************************)
(* For any requests, pin ids, configurations and jobs, and a crash after   *)
(* any write: an approved request has its pin, and a pin is accounted for. *)
(***************************************************************************)
EXTENDS CatalogPins, SequenceTheorems, TLAPS

(***************************************************************************)
(* The invariant.  Underway: what a handler has still to write is the rest *)
(* of one decision, and what it has written so far is in the files.        *)
(* Accounted: a pin may also be waiting for the mark of its request.       *)
(***************************************************************************)
Underway ==
  \/ todo = <<>>
  \/ \E r \in automatic, c \in Commits, p \in PinIds :
       r \in drawn /\ todo = <<PinWrite(r, c, p)>>
  \/ \E r \in Requests, p \in PinIds :
       /\ requests[r] # None
       /\ \/ Pending(r) /\ todo = ApprovalWrites(r, p)
          \/ /\ pins[p] = [commit |-> requests[r].commit, request |-> r]
             /\ \/ Pending(r) /\ todo = <<RequestWrite(r, p), RequestWrite(r, p)>>
                \/ /\ requests[r].status = "approved" /\ requests[r].pin = p
                   /\ todo = <<RequestWrite(r, p)>>

\* A request is listed under an id that is not drawn again.
ListedDrawn == \A r \in Requests : requests[r] # None => r \in drawn

Marking(r, p) == \E i \in DOMAIN todo : todo[i] = RequestWrite(r, p)

Accounted(p) == pins[p] # None =>
  LET r == pins[p].request IN
    /\ r \in drawn
    /\ \/ r \in automatic
       \/ /\ requests[r] # None /\ requests[r].commit = pins[p].commit
          /\ \/ r \in torn
             \/ requests[r].status = "approved" /\ requests[r].pin = p
             \/ Marking(r, p)

Entries == ListedDrawn /\ ApprovedHasPin /\ \A p \in PinIds : Accounted(p)

IInv == TypeOK /\ Underway /\ Entries

-----------------------------------------------------------------------------
(***************************************************************************)
(* Rows, pins and writes                                                   *)
(***************************************************************************)
LEMMA WritesTyped ==
  ASSUME NEW r \in Requests, NEW c \in Commits, NEW p \in PinIds
  PROVE  /\ PinWrite(r, c, p) \in Write /\ RequestWrite(r, p) \in Write
         /\ PinWrite(r, c, p).file = "pins" /\ PinWrite(r, c, p).pin = p
         /\ PinWrite(r, c, p).entry = [commit |-> c, request |-> r]
         /\ RequestWrite(r, p).file = "requests"
         /\ RequestWrite(r, p).request = r /\ RequestWrite(r, p).pin = p
  BY DEF PinWrite, RequestWrite, Write, Pin

LEMMA RowTyped ==
  ASSUME NEW row \in Row
  PROVE  /\ row.commit \in Commits
         /\ row.status \in {"pending", "rejected", "approved"}
         /\ row.status = "approved" => row.pin \in PinIds
         /\ row.status \in {"pending", "rejected"} => row.pin = None
  BY DEF Row

LEMMA NewRow ==
  ASSUME NEW c \in Commits
  PROVE  /\ [commit |-> c, status |-> "pending", pin |-> None] \in Row
         /\ [commit |-> c, status |-> "pending", pin |-> None] # None
  BY PinAssumptions DEF Row

LEMMA RejectedRow ==
  ASSUME NEW row \in Row, row.status = "pending"
  PROVE  LET new == [row EXCEPT !.status = "rejected"]
         IN  new \in Row /\ new # None /\ new.status = "rejected" /\ new.commit = row.commit
  BY PinAssumptions DEF Row

LEMMA ApprovedRow ==
  ASSUME NEW row \in Row, NEW p \in PinIds
  PROVE  LET new == [row EXCEPT !.status = "approved", !.pin = p]
         IN  /\ new \in Row /\ new # None
             /\ new.status = "approved" /\ new.pin = p /\ new.commit = row.commit
  BY PinAssumptions DEF Row

LEMMA NewPin ==
  ASSUME NEW r \in Requests, NEW c \in Commits
  PROVE  /\ [commit |-> c, request |-> r] \in Pin
         /\ [commit |-> c, request |-> r] # None
  BY PinAssumptions DEF Pin

\* A request that is listed has a row.
LEMMA ListedRow ==
  ASSUME TypeOK, NEW r \in Requests, requests[r] # None
  PROVE  requests[r] \in Row
  BY DEF TypeOK

\* What is left of a decision is one of four sequences.
LEMMA Tails ==
  ASSUME NEW a, NEW b, NEW c
  PROVE  /\ Head(<<a>>) = a /\ Tail(<<a>>) = <<>>
         /\ Head(<<a, b>>) = a /\ Tail(<<a, b>>) = <<b>>
         /\ Head(<<a, b, c>>) = a /\ Tail(<<a, b, c>>) = <<b, c>>
         /\ <<a>> # <<>> /\ <<a, b>> # <<>> /\ <<a, b, c>> # <<>>
  OBVIOUS

LEMMA ShortSequences ==
  ASSUME NEW S, NEW a \in S, NEW b \in S, NEW c \in S
  PROVE  /\ <<>> \in Seq(S) /\ Len(<<>>) <= 3
         /\ <<a>> \in Seq(S) /\ Len(<<a>>) <= 3
         /\ <<a, b>> \in Seq(S) /\ Len(<<a, b>>) <= 3
         /\ <<a, b, c>> \in Seq(S) /\ Len(<<a, b, c>>) <= 3
  OBVIOUS

-----------------------------------------------------------------------------
(***************************************************************************)
(* The steps of a handler that writes                                      *)
(***************************************************************************)
\* The row of r with the decision for p
ApprovedAs(r, p) == [requests[r] EXCEPT !.status = "approved", !.pin = p]

EntersPin(r, c, p) ==
  /\ pins' = [pins EXCEPT ![p] = [commit |-> c, request |-> r]]
  /\ UNCHANGED requests

MarksRow(r, p) ==
  /\ requests' = [requests EXCEPT ![r] = ApprovedAs(r, p)]
  /\ UNCHANGED pins

\* What the head of each sequence of writes does
LEMMA HeadWrites ==
  ASSUME TypeOK, WriteFile, NEW r \in Requests, NEW p \in PinIds
  PROVE  /\ \A c \in Commits : Head(todo) = PinWrite(r, c, p) => EntersPin(r, c, p)
         /\ Head(todo) = RequestWrite(r, p) /\ requests[r] # None => MarksRow(r, p)
<1>1. ASSUME NEW c \in Commits, Head(todo) = PinWrite(r, c, p)
      PROVE  EntersPin(r, c, p)
  <2>1. /\ Head(todo).file = "pins" /\ Head(todo).pin = p
        /\ Head(todo).entry = [commit |-> c, request |-> r]
    BY <1>1 DEF PinWrite
  <2> QED
    BY <2>1, Zenon DEF WriteFile, Entered, EntersPin
<1>2. ASSUME Head(todo) = RequestWrite(r, p), requests[r] # None
      PROVE  MarksRow(r, p)
  <2>0. Head(todo).file = "requests" /\ Head(todo).request = r /\ Head(todo).pin = p
    BY <1>2 DEF RequestWrite
  <2>1. /\ requests' = [requests EXCEPT ![r].status = "approved", ![r].pin = p]
        /\ pins' = pins
    BY <2>0 DEF WriteFile
  <2>2. requests[r] \in Row
    BY <1>2, ListedRow
  <2> QED
    BY <2>1, <2>2 DEF MarksRow, ApprovedAs, TypeOK
<1> QED
  BY <1>1, <1>2

\* A write enters a pin for a request that is automatic or about to be marked,
\* or it marks a request whose pin is there.
LEMMA WriteCases ==
  ASSUME TypeOK, Underway, WriteFile
  PROVE  \/ \E r \in automatic, c \in Commits, p \in PinIds :
              /\ r \in drawn /\ EntersPin(r, c, p)
              /\ todo = <<PinWrite(r, c, p)>> /\ todo' = <<>>
         \/ \E r \in Requests, p \in PinIds :
              /\ requests[r] # None /\ Pending(r)
              /\ EntersPin(r, requests[r].commit, p)
              /\ todo = ApprovalWrites(r, p)
              /\ todo' = <<RequestWrite(r, p), RequestWrite(r, p)>>
         \/ \E r \in Requests, p \in PinIds :
              /\ requests[r] # None
              /\ pins[p] = [commit |-> requests[r].commit, request |-> r]
              /\ MarksRow(r, p)
              /\ \/ Pending(r)
                 \/ requests[r].status = "approved" /\ requests[r].pin = p
              /\ \/ /\ todo = <<RequestWrite(r, p), RequestWrite(r, p)>>
                    /\ todo' = <<RequestWrite(r, p)>>
                 \/ todo = <<RequestWrite(r, p)>> /\ todo' = <<>>
<1>1. todo # <<>> /\ todo' = Tail(todo)
  BY DEF WriteFile, Idle
<1>2. CASE \E r \in automatic, c \in Commits, p \in PinIds :
             r \in drawn /\ todo = <<PinWrite(r, c, p)>>
  <2>1. PICK r \in automatic, c \in Commits, p \in PinIds :
               r \in drawn /\ todo = <<PinWrite(r, c, p)>>
    BY <1>2
  <2>2. r \in Requests
    BY DEF TypeOK
  <2>3. Head(todo) = PinWrite(r, c, p) /\ todo' = <<>>
    BY <1>1, <2>1, Tails
  <2>4. EntersPin(r, c, p)
    BY <2>2, <2>3, HeadWrites
  <2> QED
    BY <2>1, <2>3, <2>4
<1>3. CASE \E r \in Requests, p \in PinIds :
             requests[r] # None /\ Pending(r) /\ todo = ApprovalWrites(r, p)
  <2>1. PICK r \in Requests, p \in PinIds :
               requests[r] # None /\ Pending(r) /\ todo = ApprovalWrites(r, p)
    BY <1>3
  <2>2. requests[r].commit \in Commits
    BY <2>1, ListedRow, RowTyped
  <2>3. /\ Head(todo) = PinWrite(r, requests[r].commit, p)
        /\ todo' = <<RequestWrite(r, p), RequestWrite(r, p)>>
    BY <1>1, <2>1, Tails DEF ApprovalWrites
  <2>4. EntersPin(r, requests[r].commit, p)
    BY <2>2, <2>3, HeadWrites
  <2> QED
    BY <2>1, <2>3, <2>4
<1>4. CASE \E r \in Requests, p \in PinIds :
             /\ requests[r] # None
             /\ pins[p] = [commit |-> requests[r].commit, request |-> r]
             /\ \/ Pending(r) /\ todo = <<RequestWrite(r, p), RequestWrite(r, p)>>
                \/ /\ requests[r].status = "approved" /\ requests[r].pin = p
                   /\ todo = <<RequestWrite(r, p)>>
  <2>1. PICK r \in Requests, p \in PinIds :
             /\ requests[r] # None
             /\ pins[p] = [commit |-> requests[r].commit, request |-> r]
             /\ \/ Pending(r) /\ todo = <<RequestWrite(r, p), RequestWrite(r, p)>>
                \/ /\ requests[r].status = "approved" /\ requests[r].pin = p
                   /\ todo = <<RequestWrite(r, p)>>
    BY <1>4
  <2>2. Head(todo) = RequestWrite(r, p)
    BY <2>1, Tails
  <2>3. MarksRow(r, p)
    BY <2>1, <2>2, HeadWrites
  <2>4. \/ todo = <<RequestWrite(r, p), RequestWrite(r, p)>> /\ todo' = <<RequestWrite(r, p)>>
        \/ todo = <<RequestWrite(r, p)>> /\ todo' = <<>>
    <3> DEFINE w == RequestWrite(r, p)
    <3>1. Tail(<<w, w>>) = <<w>> /\ Tail(<<w>>) = <<>>
      BY Tails
    <3>2. todo = <<w, w>> \/ todo = <<w>>
      BY <2>1
    <3> QED
      BY <1>1, <3>1, <3>2, Zenon
  <2> QED
    BY <2>1, <2>3, <2>4
<1> QED
  BY <1>1, <1>2, <1>3, <1>4 DEF Underway

-----------------------------------------------------------------------------
(***************************************************************************)
(* The invariant, action by action.  When no handler is under way, nothing *)
(* waits for its mark.                                                     *)
(***************************************************************************)
LEMMA IdleMarksNothing ==
  ASSUME Idle, NEW r, NEW p
  PROVE  ~Marking(r, p)
  BY DEF Idle, Marking

LEMMA InitIInv == Init => IInv
<1> SUFFICES ASSUME Init PROVE IInv
  OBVIOUS
<1>1. <<>> \in Seq(Write) /\ Len(<<>>) <= 3
  OBVIOUS
<1>2. TypeOK
  BY <1>1 DEF Init, TypeOK
<1>3. Underway
  BY DEF Init, Underway
<1>4. Entries
  BY DEF Init, Entries, ListedDrawn, ApprovedHasPin, Accounted
<1> QED
  BY <1>2, <1>3, <1>4 DEF IInv

\* A new row is neither approved nor asked for by a pin.
LEMMA SubmitIInv ==
  ASSUME IInv, NEW r \in Requests, NEW c \in Commits, Submit(r, c)
  PROVE  IInv'
<1> DEFINE row == [commit |-> c, status |-> "pending", pin |-> None]
<1>1. /\ Idle /\ r \notin drawn /\ drawn' = drawn \cup {r}
      /\ requests' = [requests EXCEPT ![r] = row]
      /\ UNCHANGED <<pins, todo, snapshot, target, automatic, torn>>
  BY DEF Submit, jobVars
<1>2. row \in Row /\ row # None /\ row.status = "pending"
  BY NewRow
<1> HIDE DEF row
<1>3. TypeOK'
  BY <1>1, <1>2 DEF IInv, TypeOK
<1>4. Underway'
  BY <1>1 DEF Underway, Idle
<1>5. /\ requests'[r] = row
      /\ \A x \in Requests : x # r => requests'[x] = requests[x]
  BY <1>1 DEF IInv, TypeOK
<1>6. ListedDrawn'
  BY <1>1, <1>5 DEF IInv, Entries, ListedDrawn
<1>7. ApprovedHasPin'
  BY <1>1, <1>2, <1>5 DEF IInv, Entries, ApprovedHasPin
<1>8. ASSUME NEW p \in PinIds, pins[p] # None PROVE Accounted(p)'
  <2>1. /\ pins[p].request \in drawn
        /\ pins[p].request \in Requests
    BY <1>8 DEF IInv, Entries, Accounted, TypeOK
  <2>2. requests'[pins[p].request] = requests[pins[p].request]
    BY <1>1, <1>5, <2>1
  <2> QED
    BY <1>1, <1>8, <2>1, <2>2 DEF IInv, Entries, Accounted, Marking
<1>9. \A p \in PinIds : Accounted(p)'
  BY <1>1, <1>8 DEF Accounted
<1> QED
  BY <1>3, <1>4, <1>6, <1>7, <1>9 DEF IInv, Entries

LEMMA SubmitAutoIInv ==
  ASSUME IInv, NEW r \in Requests, NEW c \in Commits, NEW p \in PinIds, SubmitAuto(r, c, p)
  PROVE  IInv'
<1>1. /\ Idle /\ drawn' = drawn \cup {r} /\ automatic' = automatic \cup {r}
      /\ todo' = <<PinWrite(r, c, p)>>
      /\ UNCHANGED <<pins, requests, snapshot, target, torn>>
  BY DEF SubmitAuto, files, jobVars
<1>2. todo' \in Seq(Write) /\ Len(todo') <= 3
  BY <1>1, WritesTyped, ShortSequences
<1>3. TypeOK'
  BY <1>1, <1>2 DEF IInv, TypeOK
<1>4. Underway'
  BY <1>1 DEF Underway
<1>5. ListedDrawn' /\ ApprovedHasPin'
  BY <1>1 DEF IInv, Entries, ListedDrawn, ApprovedHasPin
<1>6. \A q \in PinIds : Accounted(q)'
  BY <1>1, IdleMarksNothing DEF IInv, Entries, Accounted
<1> QED
  BY <1>3, <1>4, <1>5, <1>6 DEF IInv, Entries

LEMMA ApproveIInv ==
  ASSUME IInv, NEW r \in Requests, NEW p \in PinIds, Approve(r, p)
  PROVE  IInv'
<1>1. /\ Idle /\ Pending(r) /\ todo' = ApprovalWrites(r, p)
      /\ UNCHANGED <<pins, requests, drawn, snapshot, target, automatic, torn>>
  BY DEF Approve, MayDecide, files, jobVars
<1>2. requests[r] # None /\ requests[r].commit \in Commits
  BY <1>1, ListedRow, RowTyped DEF Pending, IInv
<1>3. todo' \in Seq(Write) /\ Len(todo') <= 3
  BY <1>1, <1>2, WritesTyped, ShortSequences DEF ApprovalWrites
<1>4. TypeOK'
  BY <1>1, <1>3 DEF IInv, TypeOK
<1>5. Underway'
  BY <1>1, <1>2 DEF Underway, Pending, ApprovalWrites
<1>6. ListedDrawn' /\ ApprovedHasPin'
  BY <1>1 DEF IInv, Entries, ListedDrawn, ApprovedHasPin
<1>7. \A q \in PinIds : Accounted(q)'
  BY <1>1, IdleMarksNothing DEF IInv, Entries, Accounted
<1> QED
  BY <1>4, <1>5, <1>6, <1>7 DEF IInv, Entries

\* A pin whose request is pending stays accounted for: the request is automatic
\* or its approval was cut short.
LEMMA RejectIInv ==
  ASSUME IInv, NEW r \in Requests, Reject(r)
  PROVE  IInv'
<1> DEFINE row == [requests[r] EXCEPT !.status = "rejected"]
<1>1. /\ Idle /\ Pending(r) /\ requests' = [requests EXCEPT ![r] = row]
      /\ UNCHANGED <<pins, drawn, todo, snapshot, target, automatic, torn>>
  BY DEF Reject, MayDecide, jobVars
<1>2. /\ requests[r] # None /\ requests[r] \in Row /\ requests[r].status = "pending"
      /\ row \in Row /\ row # None /\ row.status = "rejected" /\ row.commit = requests[r].commit
  BY <1>1, ListedRow, RejectedRow DEF Pending, IInv
<1> HIDE DEF row
<1>3. TypeOK'
  BY <1>1, <1>2 DEF IInv, TypeOK
<1>4. Underway'
  BY <1>1 DEF Underway, Idle
<1>5. /\ requests'[r] = row
      /\ \A x \in Requests : x # r => requests'[x] = requests[x]
  BY <1>1 DEF IInv, TypeOK
<1>6. ListedDrawn' /\ ApprovedHasPin'
  BY <1>1, <1>2, <1>5 DEF IInv, Entries, ListedDrawn, ApprovedHasPin
<1>7. ASSUME NEW p \in PinIds, pins[p] # None PROVE Accounted(p)'
  <2>1. pins[p].request \in Requests
    BY <1>7 DEF IInv, TypeOK, Pin
  <2>2. CASE pins[p].request # r
    BY <1>1, <1>5, <1>7, <2>1, <2>2 DEF IInv, Entries, Accounted, Marking
  <2>3. CASE pins[p].request = r
    BY <1>1, <1>2, <1>5, <1>7, <2>3, IdleMarksNothing DEF IInv, Entries, Accounted
  <2> QED
    BY <2>2, <2>3
<1>8. \A p \in PinIds : Accounted(p)'
  BY <1>1, <1>7 DEF Accounted
<1> QED
  BY <1>3, <1>4, <1>6, <1>8 DEF IInv, Entries

\* The sequences that are left, by their entries
LEMMA OneMark ==
  ASSUME NEW w, NEW x
  PROVE  /\ (\E i \in DOMAIN <<w>> : <<w>>[i] = x) <=> w = x
         /\ (\E i \in DOMAIN <<w, w>> : <<w, w>>[i] = x) <=> w = x
<1>1. DOMAIN <<w>> = {1} /\ DOMAIN <<w, w>> = {1, 2}
  OBVIOUS
<1> QED
  BY <1>1

LEMMA SameMark ==
  ASSUME NEW r \in Requests, NEW p \in PinIds, NEW x, NEW q,
         RequestWrite(r, p) = RequestWrite(x, q)
  PROVE  x = r /\ q = p
  BY DEF RequestWrite

\* An approval marks nothing else than its request, under its pin.
LEMMA ApprovalMarks ==
  ASSUME NEW r \in Requests, NEW p \in PinIds, todo = ApprovalWrites(r, p), NEW x, NEW q,
         Marking(x, q)
  PROVE  x = r /\ q = p
<1> DEFINE a == PinWrite(r, requests[r].commit, p)
           b == RequestWrite(r, p)
<1>1. todo = <<a, b, b>> /\ DOMAIN <<a, b, b>> = {1, 2, 3}
  BY DEF ApprovalWrites
<1>2. a = RequestWrite(x, q) \/ b = RequestWrite(x, q)
  <2> HIDE DEF a, b
  <2> QED
    BY <1>1 DEF Marking
<1>3. a # RequestWrite(x, q)
  BY DEF PinWrite, RequestWrite
<1> QED
  BY <1>2, <1>3, SameMark

LEMMA WriteTyped ==
  ASSUME IInv, WriteFile, NEW r \in Requests, NEW p \in PinIds,
         \/ \E c \in Commits : EntersPin(r, c, p)
         \/ requests[r] # None /\ MarksRow(r, p),
         todo' \in Seq(Write) /\ Len(todo') <= 3
  PROVE  TypeOK'
<1>1. UNCHANGED <<drawn, snapshot, target, automatic, torn>>
  BY DEF WriteFile, jobVars
<1>2. CASE \E c \in Commits : EntersPin(r, c, p)
  BY <1>1, <1>2, NewPin DEF EntersPin, IInv, TypeOK
<1>3. CASE requests[r] # None /\ MarksRow(r, p)
  BY <1>1, <1>3, ListedRow, ApprovedRow DEF MarksRow, ApprovedAs, IInv, TypeOK
<1> QED
  BY <1>2, <1>3

\* The pin of an automatic request
LEMMA WriteAutoIInv ==
  ASSUME IInv, WriteFile, NEW r \in automatic, NEW c \in Commits, NEW p \in PinIds,
         r \in drawn, EntersPin(r, c, p), todo = <<PinWrite(r, c, p)>>, todo' = <<>>
  PROVE  IInv'
<1> DEFINE pin == [commit |-> c, request |-> r]
<1>1. /\ pins' = [pins EXCEPT ![p] = pin]
      /\ UNCHANGED <<requests, drawn, automatic, torn>>
  BY DEF WriteFile, EntersPin
<1>2. r \in Requests /\ pin # None /\ pin.request = r
  BY NewPin DEF IInv, TypeOK
<1>3. TypeOK'
  BY <1>2, WriteTyped, ShortSequences
<1> HIDE DEF pin
<1>4. Underway'
  BY DEF Underway
<1>5. pins'[p] = pin /\ \A q \in PinIds : q # p => pins'[q] = pins[q]
  BY <1>1 DEF IInv, TypeOK
<1>6. ListedDrawn'
  BY <1>1 DEF IInv, Entries, ListedDrawn
<1>7. ASSUME NEW x \in Requests, requests'[x] # None, requests'[x].status = "approved"
      PROVE  pins'[requests'[x].pin] # None
  <2>1. pins[requests[x].pin] # None /\ requests[x].pin \in PinIds
    BY <1>1, <1>7, ListedRow, RowTyped DEF IInv, Entries, ApprovedHasPin
  <2> QED
    BY <1>1, <1>2, <1>5, <2>1
<1>8. ASSUME NEW q \in PinIds, NEW x, Marking(x, q) PROVE FALSE
  BY <1>8, OneMark DEF Marking, PinWrite, RequestWrite
<1>9. \A q \in PinIds : Accounted(q)'
  BY <1>1, <1>2, <1>5, <1>8 DEF IInv, Entries, Accounted
<1> QED
  BY <1>3, <1>4, <1>6, <1>7, <1>9 DEF IInv, Entries, ApprovedHasPin

\* The pin of a request that is about to be marked
LEMMA WritePinIInv ==
  ASSUME IInv, WriteFile, NEW r \in Requests, NEW p \in PinIds,
         requests[r] # None, Pending(r), EntersPin(r, requests[r].commit, p),
         todo = ApprovalWrites(r, p), todo' = <<RequestWrite(r, p), RequestWrite(r, p)>>
  PROVE  IInv'
<1> DEFINE pin == [commit |-> requests[r].commit, request |-> r]
<1>1. /\ pins' = [pins EXCEPT ![p] = pin]
      /\ UNCHANGED <<requests, drawn, automatic, torn>>
  BY DEF WriteFile, EntersPin
<1>2. /\ requests[r].commit \in Commits
      /\ pin # None /\ pin.request = r /\ pin.commit = requests[r].commit
  BY ListedRow, RowTyped, NewPin DEF IInv
<1>3. TypeOK'
  <2>1. RequestWrite(r, p) \in Write
    BY <1>2, WritesTyped
  <2>2. todo' \in Seq(Write) /\ Len(todo') <= 3
    BY <2>1, ShortSequences
  <2> QED
    BY <1>2, <2>2, WriteTyped
<1>5. pins'[p] = pin /\ \A q \in PinIds : q # p => pins'[q] = pins[q]
  BY <1>1 DEF IInv, TypeOK
<1>4. Underway'
  BY <1>1, <1>5 DEF Underway, Pending
<1> HIDE DEF pin
<1>6. ListedDrawn'
  BY <1>1 DEF IInv, Entries, ListedDrawn
<1>7. ASSUME NEW x \in Requests, requests'[x] # None, requests'[x].status = "approved"
      PROVE  pins'[requests'[x].pin] # None
  <2>1. pins[requests[x].pin] # None /\ requests[x].pin \in PinIds
    BY <1>1, <1>7, ListedRow, RowTyped DEF IInv, Entries, ApprovedHasPin
  <2> QED
    BY <1>1, <1>2, <1>5, <2>1
<1>8. Accounted(p)'
  <2>1. Marking(r, p)'
    BY OneMark DEF Marking, RequestWrite
  <2>2. r \in drawn
    BY DEF IInv, Entries, ListedDrawn
  <2> QED
    BY <1>1, <1>2, <1>5, <2>1, <2>2 DEF Accounted
<1>9. ASSUME NEW q \in PinIds, q # p PROVE Accounted(q)'
  <2>1. \A x : ~Marking(x, q)
    BY <1>9, ApprovalMarks
  <2> QED
    BY <1>1, <1>5, <1>9, <2>1 DEF IInv, Entries, Accounted
<1> QED
  BY <1>3, <1>4, <1>6, <1>7, <1>8, <1>9 DEF IInv, Entries, ApprovedHasPin

\* The mark of a request whose pin is there, for the first or the second time
LEMMA WriteMarkIInv ==
  ASSUME IInv, WriteFile, NEW r \in Requests, NEW p \in PinIds,
         requests[r] # None,
         pins[p] = [commit |-> requests[r].commit, request |-> r],
         MarksRow(r, p),
         Pending(r) \/ (requests[r].status = "approved" /\ requests[r].pin = p),
         \/ /\ todo = <<RequestWrite(r, p), RequestWrite(r, p)>>
            /\ todo' = <<RequestWrite(r, p)>>
         \/ todo = <<RequestWrite(r, p)>> /\ todo' = <<>>
  PROVE  IInv'
<1> DEFINE row == ApprovedAs(r, p)
<1>1. /\ requests' = [requests EXCEPT ![r] = row]
      /\ UNCHANGED <<pins, drawn, automatic, torn>>
  BY DEF WriteFile, MarksRow
<1>2. /\ row # None /\ row.status = "approved" /\ row.pin = p
      /\ row.commit = requests[r].commit
      /\ requests[r].commit \in Commits
  <2>1. requests[r] \in Row
    BY ListedRow DEF IInv
  <2>2. requests[r].commit \in Commits
    BY <2>1, RowTyped
  <2> QED
    BY <2>1, <2>2, ApprovedRow DEF ApprovedAs
<1> HIDE DEF row
<1>3. TypeOK'
  <2>1. RequestWrite(r, p) \in Write
    BY <1>2, WritesTyped
  <2>2. todo' \in Seq(Write) /\ Len(todo') <= 3
    BY <2>1, ShortSequences
  <2> QED
    BY <2>2, WriteTyped
<1>4. /\ requests'[r] = row
      /\ \A x \in Requests : x # r => requests'[x] = requests[x]
  BY <1>1 DEF IInv, TypeOK
<1>5. Underway'
  BY <1>1, <1>2, <1>4 DEF Underway
<1>6. ListedDrawn'
  BY <1>1, <1>2, <1>4 DEF IInv, Entries, ListedDrawn
<1>7. ApprovedHasPin'
  <2>1. pins[p] # None
    BY <1>2, NewPin
  <2> QED
    BY <1>1, <1>2, <1>4, <2>1 DEF IInv, Entries, ApprovedHasPin
<1>8. ASSUME NEW q \in PinIds, pins[q] # None PROVE Accounted(q)'
  <2> DEFINE x == pins[q].request
  <2>1. x \in Requests
    BY <1>8 DEF IInv, TypeOK, Pin
  <2>2. ASSUME Marking(x, q) PROVE x = r /\ q = p
    BY <2>2, OneMark, SameMark DEF Marking
  <2>3. CASE x # r
    BY <1>1, <1>4, <1>8, <2>1, <2>2, <2>3 DEF IInv, Entries, Accounted
  <2>4. CASE x = r /\ q = p
    BY <1>1, <1>2, <1>4, <1>8, <2>4 DEF IInv, Entries, Accounted
  <2>5. CASE x = r /\ q # p
    <3>1. ~Marking(x, q) /\ ~(requests[x].status = "approved" /\ requests[x].pin = q)
      BY <2>2, <2>5 DEF Pending
    <3> QED
      BY <1>1, <1>2, <1>4, <1>8, <2>5, <3>1 DEF IInv, Entries, Accounted
  <2> QED
    BY <2>3, <2>4, <2>5
<1>9. \A q \in PinIds : Accounted(q)'
  BY <1>1, <1>8 DEF Accounted
<1> QED
  BY <1>3, <1>5, <1>6, <1>7, <1>9 DEF IInv, Entries

LEMMA WriteIInv == IInv /\ WriteFile => IInv'
<1> SUFFICES ASSUME IInv, WriteFile PROVE IInv'
  OBVIOUS
<1>1. TypeOK /\ Underway
  BY DEF IInv
<1> QED
  BY <1>1, WriteCases, WriteAutoIInv, WritePinIInv, WriteMarkIInv

\* What a crash takes from a request that was being marked it notes as torn.
LEMMA CrashIInv == IInv /\ Crash => IInv'
<1> SUFFICES ASSUME IInv, Crash PROVE IInv'
  OBVIOUS
<1>1. /\ todo' = <<>> /\ UNCHANGED <<pins, requests, drawn, automatic>>
      /\ torn' = torn \cup {r \in Requests : \E i \in 1..Len(todo) :
                              todo[i].file = "requests" /\ todo[i].request = r}
      /\ snapshot' = [j \in Jobs |-> None] /\ target' = [j \in Jobs |-> None]
  BY DEF Crash, files
<1>2. TypeOK'
  BY <1>1, ShortSequences DEF IInv, TypeOK
<1>3. Underway'
  BY <1>1 DEF Underway
<1>4. ListedDrawn' /\ ApprovedHasPin'
  BY <1>1 DEF IInv, Entries, ListedDrawn, ApprovedHasPin
<1>5. ASSUME NEW p \in PinIds, pins[p] # None PROVE Accounted(p)'
  <2> DEFINE r == pins[p].request
  <2>1. r \in Requests
    BY <1>5 DEF IInv, TypeOK, Pin
  <2>2. ASSUME Marking(r, p) PROVE r \in torn'
    <3>1. PICK i \in DOMAIN todo : todo[i] = RequestWrite(r, p)
      BY <2>2 DEF Marking
    <3>2. i \in 1..Len(todo)
      BY <3>1 DEF IInv, TypeOK
    <3>3. todo[i].file = "requests" /\ todo[i].request = r
      BY <3>1 DEF RequestWrite
    <3> QED
      BY <1>1, <2>1, <3>2, <3>3
  <2>3. torn \subseteq torn'
    BY <1>1
  <2> QED
    BY <1>1, <1>5, <2>2, <2>3 DEF IInv, Entries, Accounted
<1>6. \A p \in PinIds : Accounted(p)'
  BY <1>1, <1>5 DEF Accounted
<1> QED
  BY <1>2, <1>3, <1>4, <1>6 DEF IInv, Entries

\* Jobs read the pins.
LEMMA JobTyped ==
  ASSUME TypeOK, NEW j \in Jobs
  PROVE  /\ \A p \in PinIds : SubmitJob(j, p) =>
              snapshot' \in [Jobs -> [pin : PinIds, seen : Commits] \cup {None}]
         /\ StartJob(j) => target' \in [Jobs -> Commits \cup {None}]
<1>1. ASSUME NEW p \in PinIds, SubmitJob(j, p)
      PROVE  snapshot' \in [Jobs -> [pin : PinIds, seen : Commits] \cup {None}]
  <2>1. pins[p].commit \in Commits
    BY <1>1 DEF SubmitJob, TypeOK, Pin
  <2> QED
    BY <1>1, <2>1 DEF SubmitJob, TypeOK
<1>2. ASSUME StartJob(j)
      PROVE  target' \in [Jobs -> Commits \cup {None}]
  <2>1. snapshot[j].pin \in PinIds
    BY <1>2 DEF StartJob, TypeOK
  <2>2. pins[snapshot[j].pin].commit \in Commits
    BY <1>2, <2>1 DEF StartJob, TypeOK, Pin
  <2> QED
    BY <1>2, <2>2 DEF StartJob, TypeOK
<1> QED
  BY <1>1, <1>2

\* The files and what is to be written to them stay as they are.
LEMMA SameIInv ==
  ASSUME IInv, UNCHANGED <<pins, requests, drawn, todo, automatic, torn>>, TypeOK'
  PROVE  IInv'
<1>1. Underway'
  BY DEF IInv, Underway, Pending, ApprovalWrites
<1>2. Entries'
  BY DEF IInv, Entries, ListedDrawn, ApprovedHasPin, Accounted, Marking
<1> QED
  BY <1>1, <1>2 DEF IInv

LEMMA NextIInv == IInv /\ [Next]_vars => IInv'
<1> SUFFICES ASSUME IInv, [Next]_vars PROVE IInv'
  OBVIOUS
<1>1. ASSUME NEW j \in Jobs, NEW p \in PinIds, SubmitJob(j, p) PROVE IInv'
  <2>1. TypeOK'
    BY <1>1, JobTyped DEF SubmitJob, files, IInv, TypeOK
  <2> QED
    BY <1>1, <2>1, SameIInv DEF SubmitJob, files
<1>2. ASSUME NEW j \in Jobs, StartJob(j) PROVE IInv'
  <2>1. TypeOK'
    BY <1>2, JobTyped DEF StartJob, files, IInv, TypeOK
  <2> QED
    BY <1>2, <2>1, SameIInv DEF StartJob, files
<1>3. CASE UNCHANGED vars
  <2>1. TypeOK'
    BY <1>3 DEF vars, IInv, TypeOK
  <2> QED
    BY <1>3, <2>1, SameIInv DEF vars
<1> QED
  BY <1>1, <1>2, <1>3, SubmitIInv, SubmitAutoIInv, ApproveIInv, RejectIInv, WriteIInv, CrashIInv
     DEF Next

LEMMA AlwaysIInv == Spec => []IInv
  BY InitIInv, NextIInv, PTL DEF Spec

\* The files, the writes under way and the jobs are well typed.
THEOREM TypeCorrect == Spec => []TypeOK
<1>1. IInv => TypeOK
  BY DEF IInv
<1> QED
  BY <1>1, AlwaysIInv, PTL

\* A request that the list shows as approved has its pin in the catalog,
\* whatever write of whatever approval the process died after: _approve_locked
\* enters the pin first, and no pin is ever taken out.
THEOREM ApprovedArePinned == Spec => []ApprovedHasPin
<1>1. IInv => ApprovedHasPin
  BY DEF IInv, Entries
<1> QED
  BY <1>1, AlwaysIInv, PTL

\* No pin without a decision: between the requests of the handlers every pin is
\* of a request approved under its id, with its configuration, or of one that a
\* mock backend approved by itself or whose approval a crash cut short.
THEOREM PinsAreAccounted == Spec => []PinsAccounted
<1>1. IInv => PinsAccounted
  BY IdleMarksNothing DEF IInv, Entries, Accounted, PinsAccounted
<1> QED
  BY <1>1, AlwaysIInv, PTL

=============================================================================
