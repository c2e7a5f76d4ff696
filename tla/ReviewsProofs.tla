---------------------------- MODULE ReviewsProofs ----------------------------
(***************************************************************************)
(* Proofs about Reviews, for every set of browsers, of requests and of     *)
(* results.                                                                *)
(*                                                                         *)
(* An operation identifier is made of what the browser asks: Requested     *)
(* says that it fixes the revision the request was made on, for an applied *)
(* simulation through the candidate it names, because the numbers of the   *)
(* candidates ever shown are unique (Identified).  An operation is thus    *)
(* committed on one revision only; OutOfDate and Receipted say that an     *)
(* operation called out of date is past it.                                *)
(***************************************************************************)
EXTENDS Reviews, TLAPS

USE ResultsAssumption, BoundsAssumption

(* Candidates are numbered as they are calculated.                         *)
Numbered == \A i \in DOMAIN previews : previews[i].id <= created

(* A number names one candidate, in the store and at every browser.        *)
Identified ==
    /\ \A u \in Users : \A s \in shown[u] :
          /\ s.id <= created /\ s.base <= plan.revision
          /\ \A i \in DOMAIN previews : previews[i].id = s.id => previews[i] = s
          /\ \A v \in Users : \A t \in shown[v] : s.id = t.id => s = t
    /\ \A u \in Users : view[u] <= plan.revision

(* The revision an operation identifier was made on.                       *)
MadeOn(op, base) ==
    IF op.kind = "apply" THEN \E s \in shown[op.user] : s.id = op.key /\ s.base = base
                         ELSE op.key = base

(* A browser names only candidates it was shown, for the revision they     *)
(* were calculated on.                                                     *)
Names(u, id, base) == \E s \in shown[u] : s.id = id /\ s.base = base
Held ==
    \A u \in Users : \A k \in candidates[u] :
        k.op.kind = "recalculate" /\ Names(u, k.id, k.op.key)

Requested ==
    \A c \in Calls : calls[c] # Nothing =>
        /\ calls[c].op.kind = calls[c].kind /\ calls[c].op.user = calls[c].user
        /\ calls[c].kind # "simulate" => MadeOn(calls[c].op, calls[c].base)
        /\ calls[c].id # 0 => Names(calls[c].user, calls[c].id, calls[c].base)
        /\ calls[c].base <= plan.revision

(* The staged copy is the live plan until the revision moves.              *)
AtServer(c) == calls[c] # Nothing /\ calls[c].at # "sent"
Staging ==
    \A c \in Calls : AtServer(c) =>
        /\ calls[c].base <= calls[c].from.revision
        /\ calls[c].from.revision <= plan.revision
        /\ calls[c].from.revision = plan.revision => calls[c].from = plan

(* What a request ready to commit was calculated from.                     *)
Undoes(c, result) == Revertible(c) /\ result = calls[c].from.saved.content
WasShown(c, result) ==
    /\ result \in NeedsApproval => calls[c].approve
    /\ calls[c].kind = "apply" \/ result \in NeedsApproval =>
         \E s \in shown[calls[c].user] :
            s.result = result /\ s.base = calls[c].from.revision
Sound(c, result) ==
    /\ calls[c].kind # "simulate"
    /\ calls[c].base = calls[c].from.revision
    /\ result \in Plans
    /\ IF calls[c].kind = "revert" THEN Undoes(c, result) ELSE WasShown(c, result)
Calculated ==
    \A c \in Calls : Reading(c, "calculated") => Sound(c, calls[c].result)

(* The saved plan is an earlier one; while nothing was committed after what *)
(* saved it, it is the plan the last change offered to return to.          *)
SavedPlan ==
    plan.saved # Nothing =>
        /\ plan.saved.revision < plan.revision
        /\ plan.saved.revision + 1 = plan.revision => plan.saved.content = offered

(* An operation called out of date was made on an earlier revision.        *)
OutOfDate ==
    \A t \in told : t.answer = "stale" =>
        \E b \in Revisions : b < plan.revision /\ MadeOn(t.op, b)

(* An operation committed while another request of it is at the server     *)
(* took the revision that request was made on.                             *)
Receipted ==
    \A c \in Calls : AtServer(c) /\ calls[c].kind # "simulate" =>
        \A r \in receipts : r.op = calls[c].op => calls[c].from.revision <= calls[c].base

Typed == TypeOK /\ Numbered
Reviewed ==
    /\ Typed /\ Identified /\ Held /\ Requested /\ Staging /\ Calculated /\ SavedPlan
    /\ OutOfDate /\ Receipted /\ StaleAnswersAreTrue

-----------------------------------------------------------------------------
(* The fields of a request, of a candidate and of the plan.                *)

LEMMA RequestFields ==
    ASSUME NEW k \in Requests
    PROVE  /\ k.user \in Users /\ k.kind \in Kinds /\ k.op \in Operations
           /\ k.base \in Revisions /\ k.id \in Ids \cup {0}
           /\ k.approve \in BOOLEAN /\ k.awaited \in BOOLEAN
           /\ k.at \in {"sent", "calculating", "calculated"}
           /\ k.from \in States /\ k.result \in Plans \cup {Nothing}
BY DEF Requests

LEMMA CallFields ==
    ASSUME TypeOK, NEW c \in Calls, calls[c] # Nothing
    PROVE  /\ calls[c] \in Requests
           /\ calls[c].user \in Users /\ calls[c].kind \in Kinds
           /\ calls[c].op \in Operations
           /\ calls[c].base \in Revisions /\ calls[c].id \in Ids \cup {0}
           /\ calls[c].approve \in BOOLEAN /\ calls[c].awaited \in BOOLEAN
           /\ calls[c].at \in {"sent", "calculating", "calculated"}
           /\ calls[c].from \in States /\ calls[c].result \in Plans \cup {Nothing}
<1>1. calls[c] \in Requests
    BY DEF TypeOK
<1>2. QED
    BY <1>1, RequestFields

LEMMA StateFields ==
    ASSUME NEW s \in States
    PROVE  s.revision \in Revisions /\ s.content \in Plans /\ s.saved \in Saved
BY DEF States

LEMMA SavedFields ==
    ASSUME NEW s \in Saved, s # Nothing
    PROVE  s.revision \in Revisions /\ s.content \in Plans
BY DEF Saved

LEMMA CandidateFields ==
    ASSUME NEW s \in Candidates
    PROVE  s.id \in Ids /\ s.kind \in Kinds /\ s.base \in Revisions /\ s.result \in Results
BY DEF Candidates

LEMMA OperationFields ==
    ASSUME NEW op \in Operations
    PROVE  op.user \in Users /\ op.kind \in Kinds /\ op.key \in Nat /\ op.again \in BOOLEAN
BY DEF Operations

LEMMA NumberTypes ==
    /\ Revisions \subseteq Nat /\ Ids \subseteq Nat \ {0}
    /\ 0 \in Revisions /\ MaxRevision \in Nat /\ MaxPreviews \in Nat
    /\ MaxRequests \in Nat /\ PreviewLimit \in Nat \ {0}
    /\ \A r \in Revisions : r < MaxRevision => r + 1 \in Revisions
    /\ \A n \in Nat : n < MaxPreviews => n + 1 \in Ids
BY DEF Revisions, Ids

-----------------------------------------------------------------------------
(* What the steps of the browsers and of the server are made of.           *)

LEMMA OperationIdType ==
    ASSUME NEW u \in Users, NEW kind \in Kinds, NEW key \in Nat
    PROVE  /\ OperationId(u, kind, key) \in Operations
           /\ OperationId(u, kind, key).user = u
           /\ OperationId(u, kind, key).kind = kind
           /\ OperationId(u, kind, key).key = key
<1> DEFINE first == [user |-> u, kind |-> kind, key |-> key, again |-> FALSE]
           b == [op |-> first, answer |-> "applied"] \in told
<1>1. OperationId(u, kind, key) = [first EXCEPT !.again = b]
    BY DEF OperationId
<1>2. b \in BOOLEAN
    OBVIOUS
<1> HIDE DEF b
<1>3. QED
    BY <1>1, <1>2 DEF Operations

(* A request as it leaves the browser.                                     *)
Sent(u, c, kind, key, base, id) ==
    /\ TypeOK'
    /\ calls'[c].at = "sent" /\ calls'[c].user = u /\ calls'[c].kind = kind
    /\ calls'[c].op = OperationId(u, kind, key)
    /\ calls'[c].base = base /\ calls'[c].id = id
    /\ \A d \in Calls \ {c} : calls'[d] = calls[d]
    /\ UNCHANGED <<server, view, candidates, simulation, shown, told>>

LEMMA SendEffect ==
    ASSUME TypeOK, NEW u \in Users, NEW c \in Calls, NEW kind \in Kinds, NEW key \in Nat,
           NEW base \in Revisions, NEW id \in Ids \cup {0}, NEW approve \in BOOLEAN,
           Send(u, c, kind, key, base, id, approve)
    PROVE  Sent(u, c, kind, key, base, id)
<1> DEFINE k == [user |-> u, kind |-> kind, op |-> OperationId(u, kind, key), base |-> base,
                 id |-> id, approve |-> approve, awaited |-> TRUE, at |-> "sent",
                 from |-> FirstState, result |-> Nothing]
<1>1. calls' = [calls EXCEPT ![c] = k] /\ sent < MaxRequests /\ sent' = sent + 1
    BY DEF Send
<1>2. UNCHANGED <<server, view, candidates, simulation, shown, told>>
    BY DEF Send
<1>3. FirstState \in States
    BY NumberTypes DEF FirstState, States, Saved, Plans
<1>4. k \in Requests
    BY <1>3, OperationIdType DEF Requests
<1>5. calls' \in [Calls -> Requests \cup {Nothing}] /\ calls'[c] = k
    BY <1>1, <1>4 DEF TypeOK
<1>6. \A d \in Calls \ {c} : calls'[d] = calls[d]
    BY <1>1 DEF TypeOK
<1>7. sent' \in 0..MaxRequests
    BY <1>1, NumberTypes DEF TypeOK
<1>8. TypeOK'
    BY <1>2, <1>5, <1>7 DEF TypeOK, server
<1>9. QED
    BY <1>2, <1>5, <1>6, <1>8 DEF Sent

(* The end of a request.                                                   *)
LEMMA DropEffect ==
    ASSUME TypeOK, NEW c \in Calls, calls' = [calls EXCEPT ![c] = Nothing]
    PROVE  /\ calls' \in [Calls -> Requests \cup {Nothing}] /\ calls'[c] = Nothing
           /\ \A d \in Calls \ {c} : calls'[d] = calls[d]
BY DEF TypeOK

LEMMA TellEffect ==
    ASSUME TypeOK, NEW c \in Calls, calls[c] # Nothing, NEW answer, Tell(c, answer)
    PROVE  /\ calls' \in [Calls -> Requests \cup {Nothing}] /\ calls'[c] = Nothing
           /\ \A d \in Calls \ {c} : calls'[d] = calls[d]
           /\ told \subseteq told' /\ told' \subseteq Answers
           /\ \A t \in told' : t \notin told => t.op = calls[c].op /\ t.answer = answer
           /\ candidates' \in [Users -> SUBSET Offers]
           /\ \A u \in Users : candidates'[u] \subseteq candidates[u]
           /\ simulation' \in [Users -> Ids \cup {0}]
           /\ UNCHANGED <<sent, view, shown>>
<1> DEFINE k == calls[c]
<1>1. k.user \in Users /\ k.op \in Operations
    BY CallFields
<1>2. /\ calls' \in [Calls -> Requests \cup {Nothing}] /\ calls'[c] = Nothing
      /\ \A d \in Calls \ {c} : calls'[d] = calls[d]
    BY DropEffect DEF Tell
<1>3. CASE ~k.awaited
    <2>1. UNCHANGED browsers
        BY <1>3 DEF Tell
    <2>2. QED
        BY <2>1, <1>2 DEF browsers, TypeOK
<1>4. CASE k.awaited
    <2>1. /\ told' = IF answer \in {"applied", "stale"}
                       THEN told \cup {[op |-> k.op, answer |-> answer]} ELSE told
          /\ candidates' = [candidates EXCEPT ![k.user] = Forget(k.user, k.op)]
          /\ simulation' = [simulation EXCEPT ![k.user] =
                              IF k.kind = "apply" /\ answer = "applied" THEN 0 ELSE @]
          /\ UNCHANGED <<sent, view, shown>>
        BY <1>4 DEF Tell
    <2>2. told \subseteq told' /\ told' \subseteq Answers
        BY <2>1, <1>1 DEF TypeOK, Answers
    <2>3. \A t \in told' : t \notin told => t.op = k.op /\ t.answer = answer
        BY <2>1
    <2>4. Forget(k.user, k.op) \subseteq candidates[k.user]
        BY DEF Forget
    <2>5. /\ candidates' \in [Users -> SUBSET Offers]
          /\ \A u \in Users : candidates'[u] \subseteq candidates[u]
        BY <2>1, <2>4, <1>1 DEF TypeOK
    <2>6. simulation' \in [Users -> Ids \cup {0}]
        BY <2>1, <1>1 DEF TypeOK
    <2>7. QED
        BY <1>2, <2>1, <2>2, <2>3, <2>5, <2>6
<1>5. QED
    BY <1>3, <1>4

(* A new candidate in the store.                                           *)
NewCandidate(kind, base, result) ==
    [id |-> created + 1, kind |-> kind, base |-> base, result |-> result]

LEMMA NewCandidateType ==
    ASSUME TypeOK, created < MaxPreviews,
           NEW kind \in Kinds, NEW base \in Revisions, NEW result \in Results
    PROVE  /\ NewCandidate(kind, base, result) \in Candidates
           /\ NewCandidate(kind, base, result).id = created + 1
           /\ NewCandidate(kind, base, result).base = base
BY NumberTypes DEF NewCandidate, Candidates, TypeOK

LEMMA TailItems ==
    ASSUME NEW S, NEW q \in Seq(S), q # <<>>
    PROVE  /\ Tail(q) \in Seq(S) /\ Len(Tail(q)) = Len(q) - 1
           /\ \A i \in DOMAIN Tail(q) : i + 1 \in DOMAIN q /\ Tail(q)[i] = q[i + 1]
OBVIOUS

LEMMA AppendItem ==
    ASSUME NEW S, NEW q \in Seq(S), NEW x \in S
    PROVE  /\ Append(q, x) \in Seq(S) /\ Len(Append(q, x)) = Len(q) + 1
           /\ \A i \in DOMAIN q : Append(q, x)[i] = q[i]
           /\ Append(q, x)[Len(q) + 1] = x
           /\ DOMAIN Append(q, x) = DOMAIN q \cup {Len(q) + 1}
OBVIOUS

LEMMA PutEffect ==
    ASSUME Typed, NEW kind \in Kinds, NEW base \in Revisions, NEW result \in Results,
           Put(kind, base, result)
    PROVE  /\ previews' \in Seq(Candidates) /\ Len(previews') <= PreviewLimit
           /\ \A i, j \in DOMAIN previews' : i < j => previews'[i].id < previews'[j].id
           /\ expired' \in 0..Len(previews')
           /\ created < MaxPreviews /\ created' = created + 1 /\ created' \in 0..MaxPreviews
           /\ \A i \in DOMAIN previews' :
                \/ previews'[i] = NewCandidate(kind, base, result)
                \/ \E j \in DOMAIN previews : previews'[i] = previews[j]
           /\ previews'[Len(previews')] = NewCandidate(kind, base, result)
           /\ Len(previews') > 0
           /\ UNCHANGED <<plan, offered, receipts>>
<1> DEFINE x == NewCandidate(kind, base, result)
           all == Append(previews, x)
           n == Len(previews)
<1>1. /\ created < MaxPreviews /\ created' = created + 1 /\ UNCHANGED <<plan, offered, receipts>>
      /\ IF Len(all) > PreviewLimit
           THEN previews' = Tail(all) /\ expired' = IF expired = 0 THEN 0 ELSE expired - 1
           ELSE previews' = all /\ UNCHANGED expired
    BY DEF Put, NewCandidate
<1>2. /\ previews \in Seq(Candidates) /\ n \in Nat /\ n <= PreviewLimit
      /\ created \in Nat /\ expired \in 0..n /\ MaxPreviews \in Nat /\ PreviewLimit \in Nat \ {0}
      /\ DOMAIN previews = 1..n
    BY NumberTypes DEF Typed, TypeOK
<1>3. x \in Candidates /\ x.id = created + 1
    BY <1>1, NewCandidateType DEF Typed
<1>4. /\ all \in Seq(Candidates) /\ Len(all) = n + 1 /\ DOMAIN all = 1..(n + 1)
      /\ \A i \in 1..n : all[i] = previews[i]
      /\ all[n + 1] = x
    BY <1>2, <1>3, AppendItem
<1>5. \A i \in 1..n : previews[i].id \in Nat /\ previews[i].id <= created
    <2>1. \A i \in 1..n : previews[i] \in Candidates
        BY <1>2
    <2>2. QED
        BY <1>2, <2>1, CandidateFields, NumberTypes DEF Typed, Numbered
<1>6. \A i, j \in 1..n : i < j => previews[i].id < previews[j].id
    BY <1>2 DEF Typed, TypeOK
<1>7. \A i, j \in 1..(n + 1) : i < j => all[i].id < all[j].id
    <2> TAKE i, j \in 1..(n + 1)
    <2> HAVE i < j
    <2>1. CASE j = n + 1
        <3>1. i \in 1..n
            BY <2>1, <1>2
        <3>2. all[i].id = previews[i].id /\ all[j].id = created + 1
            BY <3>1, <2>1, <1>3, <1>4
        <3>3. QED
            BY <3>1, <3>2, <1>2, <1>5
    <2>2. CASE j # n + 1
        <3>1. i \in 1..n /\ j \in 1..n
            BY <2>2, <1>2
        <3>2. QED
            BY <3>1, <1>4, <1>6
    <2>3. QED
        BY <2>1, <2>2
<1>8. \A i \in 1..(n + 1) : all[i] = x \/ \E j \in DOMAIN previews : all[i] = previews[j]
    BY <1>2, <1>4
<1>9. created' \in 0..MaxPreviews
    BY <1>1, <1>2
<1>10. CASE Len(all) > PreviewLimit
    <2>1. previews' = Tail(all) /\ expired' = IF expired = 0 THEN 0 ELSE expired - 1
        BY <1>1, <1>10
    <2>2. all # <<>>
        BY <1>2, <1>4
    <2>3. /\ previews' \in Seq(Candidates) /\ Len(previews') = n
          /\ \A i \in DOMAIN previews' : i + 1 \in DOMAIN all /\ previews'[i] = all[i + 1]
        BY <2>1, <2>2, <1>2, <1>4, TailItems
    <2>4. DOMAIN previews' = 1..n /\ n >= PreviewLimit /\ n > 0
        BY <2>3, <1>10, <1>2, <1>4
    <2>5. \A i, j \in DOMAIN previews' : i < j => previews'[i].id < previews'[j].id
        <3> TAKE i, j \in DOMAIN previews'
        <3> HAVE i < j
        <3>1. i + 1 \in 1..(n + 1) /\ j + 1 \in 1..(n + 1) /\ i + 1 < j + 1
            BY <2>4, <1>2
        <3>2. all[i + 1].id < all[j + 1].id
            BY <3>1, <1>7
        <3>3. QED
            BY <3>2, <2>3
    <2>6. \A i \in DOMAIN previews' :
            previews'[i] = x \/ \E j \in DOMAIN previews : previews'[i] = previews[j]
        <3> TAKE i \in DOMAIN previews'
        <3>1. i + 1 \in 1..(n + 1) /\ previews'[i] = all[i + 1]
            BY <2>3, <1>4
        <3> HIDE DEF x, all
        <3>2. all[i + 1] = x \/ \E j \in DOMAIN previews : all[i + 1] = previews[j]
            BY <3>1, <1>8
        <3>3. QED
            BY <3>1, <3>2
    <2>7. previews'[Len(previews')] = x
        BY <2>3, <2>4, <1>2, <1>4
    <2>8. expired' \in 0..Len(previews')
        BY <2>1, <2>3, <1>2
    <2>9. QED
        BY <1>1, <1>2, <1>9, <2>3, <2>4, <2>5, <2>6, <2>7, <2>8
<1>11. CASE ~(Len(all) > PreviewLimit)
    <2>1. previews' = all /\ expired' = expired
        BY <1>1, <1>11
    <2>2. Len(previews') <= PreviewLimit /\ Len(previews') > 0 /\ expired' \in 0..Len(previews')
        BY <2>1, <1>2, <1>4, <1>11
    <2>3. QED
        BY <1>1, <1>2, <1>4, <1>7, <1>8, <1>9, <2>1, <2>2
<1>12. QED
    BY <1>10, <1>11

LEMMA ShowEffect ==
    ASSUME TypeOK, NEW c \in Calls, calls[c] # Nothing, NEW s \in Candidates, Show(c, s)
    PROVE  /\ calls' \in [Calls -> Requests \cup {Nothing}] /\ calls'[c] = Nothing
           /\ \A d \in Calls \ {c} : calls'[d] = calls[d]
           /\ shown' \in [Users -> SUBSET Candidates]
           /\ \A u \in Users : shown[u] \subseteq shown'[u] /\ shown'[u] \subseteq shown[u] \cup {s}
           /\ calls[c].awaited => s \in shown'[calls[c].user]
<1>1. /\ calls' \in [Calls -> Requests \cup {Nothing}] /\ calls'[c] = Nothing
      /\ \A d \in Calls \ {c} : calls'[d] = calls[d]
    BY DropEffect DEF Show
<1>2. calls[c].user \in Users
    BY CallFields
<1>3. shown \in [Users -> SUBSET Candidates]
    BY DEF TypeOK
<1>4. QED
    BY <1>1, <1>2, <1>3 DEF Show

LEMMA OfferEffect ==
    ASSUME TypeOK, NEW c \in Calls, calls[c] # Nothing, NEW s \in Candidates, Offer(c, s)
    PROVE  /\ Show(c, s)
           /\ candidates' \in [Users -> SUBSET Offers]
           /\ \A u \in Users : \A o \in candidates'[u] :
                \/ o \in candidates[u]
                \/ calls[c].awaited /\ u = calls[c].user /\ o.op = calls[c].op /\ o.id = s.id
           /\ UNCHANGED <<sent, view, simulation, told>>
<1> DEFINE k == calls[c]
           offer == [op |-> k.op, id |-> s.id]
<1>1. /\ Show(c, s)
      /\ UNCHANGED <<sent, view, simulation, told>>
      /\ candidates' = IF k.awaited
            THEN [candidates EXCEPT ![k.user] = Forget(k.user, k.op) \cup {offer}]
            ELSE candidates
    BY DEF Offer
<1>2. k.user \in Users /\ offer \in Offers
    BY CallFields, CandidateFields DEF Offers
<1>3. Forget(k.user, k.op) \subseteq candidates[k.user]
    BY DEF Forget
<1>4. candidates \in [Users -> SUBSET Offers]
    BY DEF TypeOK
<1>5. offer.op = k.op /\ offer.id = s.id
    OBVIOUS
<1> HIDE DEF k, offer
<1>6. CASE k.awaited
    <2>1. /\ candidates' \in [Users -> SUBSET Offers]
          /\ candidates'[k.user] = Forget(k.user, k.op) \cup {offer}
          /\ \A u \in Users \ {k.user} : candidates'[u] = candidates[u]
        BY <1>1, <1>2, <1>3, <1>4, <1>6
    <2>2. \A u \in Users : \A o \in candidates'[u] :
             o \in candidates[u] \/ (u = k.user /\ o = offer)
        BY <2>1, <1>3
    <2>3. QED
        BY <1>1, <1>5, <1>6, <2>1, <2>2 DEF k
<1>7. CASE ~k.awaited
    BY <1>1, <1>4, <1>7
<1>8. QED
    BY <1>6, <1>7

(* A request that goes on at the server keeps what it asked for.           *)
SameRequest(c) ==
    /\ calls'[c].user = calls[c].user /\ calls'[c].kind = calls[c].kind
    /\ calls'[c].op = calls[c].op /\ calls'[c].base = calls[c].base
    /\ calls'[c].id = calls[c].id /\ calls'[c].approve = calls[c].approve

LEMMA StagedEffect ==
    ASSUME TypeOK, NEW c \in Calls, calls[c] # Nothing, NEW result \in Plans, Staged(c, result)
    PROVE  /\ calls' \in [Calls -> Requests \cup {Nothing}]
           /\ \A d \in Calls \ {c} : calls'[d] = calls[d]
           /\ SameRequest(c) /\ calls'[c].from = calls[c].from
           /\ calls'[c].at = "calculated" /\ calls'[c].result = result
           /\ UNCHANGED browsers
<1> DEFINE k == [calls[c] EXCEPT !.result = result, !.at = "calculated"]
<1>1. calls' = [calls EXCEPT ![c].result = result, ![c].at = "calculated"]
      /\ UNCHANGED browsers
    BY DEF Staged
<1>2. calls[c] \in Requests
    BY CallFields
<1>3. /\ k \in Requests /\ k.result = result /\ k.at = "calculated" /\ k.from = calls[c].from
      /\ k.user = calls[c].user /\ k.kind = calls[c].kind /\ k.op = calls[c].op
      /\ k.base = calls[c].base /\ k.id = calls[c].id /\ k.approve = calls[c].approve
    BY <1>2 DEF Requests
<1>4. calls'[c] = k /\ \A d \in Calls \ {c} : calls'[d] = calls[d]
    BY <1>1 DEF TypeOK
<1>5. calls' \in [Calls -> Requests \cup {Nothing}]
    BY <1>1, <1>3 DEF TypeOK
<1>6. QED
    BY <1>1, <1>3, <1>4, <1>5 DEF SameRequest

LEMMA CaptureEffect ==
    ASSUME TypeOK, NEW c \in Calls, calls[c] # Nothing,
           calls' = [calls EXCEPT ![c].from = plan, ![c].at = "calculating"]
    PROVE  /\ calls' \in [Calls -> Requests \cup {Nothing}]
           /\ \A d \in Calls \ {c} : calls'[d] = calls[d]
           /\ SameRequest(c) /\ calls'[c].from = plan /\ calls'[c].at = "calculating"
<1> DEFINE k == [calls[c] EXCEPT !.from = plan, !.at = "calculating"]
<1>2. calls[c] \in Requests /\ plan \in States
    BY CallFields DEF TypeOK
<1>3. /\ k \in Requests /\ k.from = plan /\ k.at = "calculating"
      /\ k.user = calls[c].user /\ k.kind = calls[c].kind /\ k.op = calls[c].op
      /\ k.base = calls[c].base /\ k.id = calls[c].id /\ k.approve = calls[c].approve
    BY <1>2 DEF Requests
<1>4. calls'[c] = k /\ \A d \in Calls \ {c} : calls'[d] = calls[d]
    BY DEF TypeOK
<1>5. calls' \in [Calls -> Requests \cup {Nothing}]
    BY <1>3 DEF TypeOK
<1>6. QED
    BY <1>3, <1>4, <1>5 DEF SameRequest

-----------------------------------------------------------------------------
(* How a step of the server ends: with an answer that changed nothing, with *)
(* a request that goes on, with a candidate, or with a commit.             *)

Late(c) ==
    /\ calls[c].kind # "simulate" /\ calls[c].base < plan.revision
    /\ \A r \in receipts : r.op # calls[c].op
Refuses(c) ==
    /\ calls[c] # Nothing /\ UNCHANGED server
    /\ \E a : Tell(c, a) /\ (a = "stale" => Late(c))

Captures(c) ==
    /\ Reading(c, "sent")
    /\ calls[c].kind # "simulate" => ReceiptAnswer(c) = "none"
    /\ calls' = [calls EXCEPT ![c].from = plan, ![c].at = "calculating"]
    /\ UNCHANGED browsers /\ UNCHANGED server

Calculates(c) ==
    /\ Reading(c, "calculating") /\ UNCHANGED server
    /\ \E result \in Plans : Sound(c, result) /\ Staged(c, result)

Proposes(c, s) ==
    /\ calls[c] # Nothing /\ Show(c, s) /\ s.base <= plan.revision
    /\ \/ UNCHANGED server /\ \E i \in DOMAIN previews : previews[i] = s
       \/ \E kind \in Kinds, base \in Revisions, result \in Results :
            Put(kind, base, result) /\ s = NewCandidate(kind, base, result)
    /\ \/ candidates' = candidates /\ simulation' \in [Users -> Ids \cup {0}]
       \/ calls[c].kind = "recalculate" /\ s.base = calls[c].base /\ Offer(c, s)
    /\ UNCHANGED <<sent, view, told>>

LEMMA StoredType ==
    ASSUME TypeOK
    PROVE  \A i \in DOMAIN previews : previews[i] \in Candidates
BY DEF TypeOK

LEMMA FoundCandidate ==
    ASSUME TypeOK, NEW id, NEW kind, NEW base, Lookup(id, kind, base) = "found",
           NEW p, p = CHOOSE x \in Stored(id) : TRUE
    PROVE  /\ p \in Candidates /\ p.id = id /\ p.kind = kind /\ p.base = base
           /\ \E i \in DOMAIN previews : previews[i] = p
<1>1. Alive(id) /\ \A x \in Stored(id) : x.kind = kind /\ x.base = base
    BY DEF Lookup
<1>2. \E x \in Stored(id) : TRUE
    BY <1>1 DEF Alive, Stored, Range
<1>3. p \in Stored(id)
    BY <1>2
<1>4. PICK i \in DOMAIN previews : previews[i] = p
    BY <1>3 DEF Stored, Range
<1>5. p \in Candidates
    BY <1>4, StoredType
<1>6. QED
    BY <1>1, <1>3, <1>4, <1>5 DEF Stored

(* The candidate a request names is the one its browser was shown.         *)
LEMMA NamedCandidate ==
    ASSUME Reviewed, NEW c \in Calls, calls[c] # Nothing,
           NEW p \in Candidates, p.id = calls[c].id, NEW i \in DOMAIN previews, previews[i] = p
    PROVE  p \in shown[calls[c].user] /\ p.base = calls[c].base
<1>1. calls[c].id # 0 /\ calls[c].user \in Users
    BY CandidateFields, CallFields, NumberTypes DEF Reviewed, Typed
<1>2. PICK s \in shown[calls[c].user] : s.id = calls[c].id /\ s.base = calls[c].base
    BY <1>1 DEF Reviewed, Requested, Names
<1>3. previews[i] = s
    BY <1>1, <1>2 DEF Reviewed, Identified
<1>4. QED
    BY <1>2, <1>3

LEMMA LateRequest ==
    ASSUME Reviewed, NEW c \in Calls, Reading(c, "calculating"),
           calls[c].kind # "simulate", ~ExpectedRevision(c)
    PROVE  Late(c)
<1>1. AtServer(c) /\ calls[c].at # "sent" /\ calls[c] # Nothing
    BY DEF Reading, AtServer
<1>2. /\ calls[c].base <= calls[c].from.revision /\ calls[c].from.revision <= plan.revision
      /\ \A r \in receipts : r.op = calls[c].op => calls[c].from.revision <= calls[c].base
    BY <1>1 DEF Reviewed, Staging, Receipted
<1>3. calls[c].base \in Nat /\ calls[c].from.revision \in Nat /\ plan.revision \in Nat
    BY <1>1, CallFields, StateFields, NumberTypes DEF Reviewed, Typed, TypeOK
<1>4. calls[c].base < calls[c].from.revision
    BY <1>2, <1>3 DEF ExpectedRevision
<1>5. QED
    BY <1>2, <1>3, <1>4 DEF Late

LEMMA Captured ==
    ASSUME Reviewed, NEW c \in Calls, Capture(c)
    PROVE  Refuses(c) \/ Captures(c)
<1>1. Reading(c, "sent") /\ calls[c] # Nothing /\ UNCHANGED server
    BY DEF Capture, Reading
<1>2. CASE calls[c].kind # "simulate" /\ ReceiptAnswer(c) # "none"
    <2>1. Tell(c, ReceiptAnswer(c))
        BY <1>2 DEF Capture
    <2>2. ReceiptAnswer(c) # "stale"
        BY DEF ReceiptAnswer
    <2>3. QED
        BY <1>1, <2>1, <2>2 DEF Refuses
<1>3. CASE ~(calls[c].kind # "simulate" /\ ReceiptAnswer(c) # "none")
    BY <1>1, <1>3 DEF Capture, Captures
<1>4. QED
    BY <1>2, <1>3

LEMMA Simulated ==
    ASSUME Reviewed, NEW c \in Calls, Simulate(c)
    PROVE  \E s \in Candidates : Proposes(c, s)
<1>1. /\ Reading(c, "calculating") /\ calls[c] # Nothing /\ AtServer(c)
      /\ UNCHANGED <<sent, view, candidates, told>>
    BY DEF Simulate, Reading, AtServer
<1> DEFINE base == calls[c].from.revision
<1>2. PICK result \in Results :
         LET candidate == [id |-> created + 1, kind |-> "simulate", base |-> base,
                           result |-> result]
         IN /\ Put("simulate", base, result)
            /\ Show(c, candidate)
            /\ simulation' = [simulation EXCEPT ![calls[c].user] =
                                IF calls[c].awaited THEN candidate.id ELSE @]
    BY DEF Simulate
<1> DEFINE s == NewCandidate("simulate", base, result)
<1>3. /\ Put("simulate", base, result) /\ Show(c, s)
      /\ simulation' = [simulation EXCEPT ![calls[c].user] =
                          IF calls[c].awaited THEN s.id ELSE @]
    BY <1>2 DEF NewCandidate
<1>4. base \in Revisions /\ base <= plan.revision /\ "simulate" \in Kinds
    BY <1>1, CallFields, StateFields DEF Reviewed, Typed, Staging, Kinds
<1>5. created < MaxPreviews
    BY <1>3 DEF Put
<1>6. s \in Candidates /\ s.base = base /\ s.id \in Ids
    BY <1>4, <1>5, NewCandidateType, CandidateFields DEF Reviewed, Typed
<1> HIDE DEF s
<1>7. simulation' \in [Users -> Ids \cup {0}]
    BY <1>3, <1>6 DEF Reviewed, Typed, TypeOK
<1>8. Proposes(c, s)
    BY <1>1, <1>3, <1>4, <1>6, <1>7 DEF Proposes, s
<1>9. QED
    BY <1>6, <1>8

LEMMA Applying ==
    ASSUME Reviewed, NEW c \in Calls, ApplyFinds(c)
    PROVE  Refuses(c) \/ Calculates(c)
<1> DEFINE from == calls[c].from
           found == Lookup(calls[c].id, "simulate", from.revision)
           candidate == CHOOSE p \in Stored(calls[c].id) : TRUE
<1>1. /\ Reading(c, "calculating") /\ calls[c] # Nothing /\ calls[c].kind = "apply"
      /\ UNCHANGED server
    BY DEF ApplyFinds, Reading
<1>2. IF ~ExpectedRevision(c) THEN Tell(c, "stale")
      ELSE IF found # "found" THEN Tell(c, found)
      ELSE IF candidate.result \in NeedsApproval /\ ~calls[c].approve
        THEN Tell(c, "approval_required")
      ELSE Staged(c, candidate.result)
    BY DEF ApplyFinds
<1>3. found # "stale"
    BY DEF Lookup
<1>4. CASE ~ExpectedRevision(c)
    BY <1>1, <1>2, <1>4, LateRequest DEF Refuses
<1>5. CASE ExpectedRevision(c) /\ found # "found"
    BY <1>1, <1>2, <1>3, <1>5 DEF Refuses
<1>6. CASE ExpectedRevision(c) /\ found = "found" /\ candidate.result \in NeedsApproval
           /\ ~calls[c].approve
    BY <1>1, <1>2, <1>6 DEF Refuses
<1>7. CASE ExpectedRevision(c) /\ found = "found"
           /\ ~(candidate.result \in NeedsApproval /\ ~calls[c].approve)
    <2>1. Staged(c, candidate.result)
        BY <1>2, <1>7
    <2>2. /\ candidate \in Candidates /\ candidate.id = calls[c].id
          /\ candidate.base = from.revision
          /\ \E i \in DOMAIN previews : previews[i] = candidate
        BY <1>7, FoundCandidate DEF Reviewed, Typed
    <2>3. candidate \in shown[calls[c].user]
        BY <1>1, <2>2, NamedCandidate
    <2>4. candidate.result \in Plans
        BY <2>2, CandidateFields DEF Plans
    <2>5. WasShown(c, candidate.result)
        BY <1>7, <2>2, <2>3 DEF WasShown
    <2>6. Sound(c, candidate.result)
        BY <1>1, <1>7, <2>4, <2>5 DEF Sound, ExpectedRevision
    <2>7. QED
        BY <1>1, <2>1, <2>4, <2>6 DEF Calculates
<1>8. QED
    BY <1>4, <1>5, <1>6, <1>7

LEMMA Repeated ==
    ASSUME Reviewed, NEW c \in Calls, RecalculatePrepared(c)
    PROVE  Refuses(c) \/ Calculates(c) \/ \E s \in Candidates : Proposes(c, s)
<1> DEFINE from == calls[c].from
           candidate == CHOOSE p \in Stored(calls[c].id) : TRUE
<1>1. /\ Reading(c, "calculating") /\ calls[c] # Nothing /\ calls[c].kind = "recalculate"
      /\ UNCHANGED server /\ Prepared(c) # "none"
    BY DEF RecalculatePrepared, Reading
<1>2. IF Prepared(c) # "found" THEN Tell(c, Prepared(c))
      ELSE IF calls[c].approve THEN Staged(c, candidate.result)
      ELSE Offer(c, candidate)
    BY DEF RecalculatePrepared
<1>3. CASE Prepared(c) # "found"
    <2>1. Prepared(c) # "stale"
        BY DEF Prepared, Lookup
    <2>2. QED
        BY <1>1, <1>2, <1>3, <2>1 DEF Refuses
<1>4. CASE Prepared(c) = "found"
    <2>1. Lookup(calls[c].id, "recalculate", from.revision) = "found"
        BY <1>4 DEF Prepared
    <2>2. /\ candidate \in Candidates /\ candidate.id = calls[c].id
          /\ candidate.base = from.revision
          /\ \E i \in DOMAIN previews : previews[i] = candidate
        BY <2>1, FoundCandidate DEF Reviewed, Typed
    <2>3. candidate \in shown[calls[c].user] /\ candidate.base = calls[c].base
        BY <1>1, <2>2, NamedCandidate
    <2>4. candidate.result \in Plans
        BY <2>2, CandidateFields DEF Plans
    <2>5. CASE calls[c].approve
        <3>1. Staged(c, candidate.result)
            BY <1>2, <1>4, <2>5
        <3>2. WasShown(c, candidate.result)
            BY <2>2, <2>3, <2>5 DEF WasShown
        <3>3. Sound(c, candidate.result)
            BY <1>1, <2>2, <2>3, <2>4, <3>2 DEF Sound
        <3>4. QED
            BY <1>1, <2>4, <3>1, <3>3 DEF Calculates
    <2>6. CASE ~calls[c].approve
        <3>1. Offer(c, candidate)
            BY <1>2, <1>4, <2>6
        <3>2. Show(c, candidate) /\ UNCHANGED <<sent, view, told>>
            BY <3>1 DEF Offer
        <3>3. candidate.base <= plan.revision
            BY <1>1, <2>3 DEF Reviewed, Requested
        <3>4. Proposes(c, candidate)
            BY <1>1, <2>2, <2>3, <3>1, <3>2, <3>3 DEF Proposes
        <3>5. QED
            BY <2>2, <3>4
    <2>7. QED
        BY <2>5, <2>6
<1>5. QED
    BY <1>3, <1>4

LEMMA Recalculated ==
    ASSUME Reviewed, NEW c \in Calls, Recalculate(c)
    PROVE  Calculates(c) \/ \E s \in Candidates : Proposes(c, s)
<1>1. /\ Reading(c, "calculating") /\ calls[c] # Nothing /\ calls[c].kind = "recalculate"
      /\ ExpectedRevision(c) /\ ~PreviewRequired(c)
    BY DEF Recalculate, Reading
<1>2. PICK result \in Results :
         IF result \in NeedsApproval /\ ~calls[c].approve
           THEN /\ Put("recalculate", calls[c].base, result)
                /\ Offer(c, Last(previews'))
           ELSE /\ Staged(c, result)
                /\ UNCHANGED server
    BY DEF Recalculate
<1>3. CASE result \in NeedsApproval /\ ~calls[c].approve
    <2> DEFINE s == NewCandidate("recalculate", calls[c].base, result)
    <2>1. Put("recalculate", calls[c].base, result) /\ Offer(c, Last(previews'))
        BY <1>2, <1>3
    <2>2. calls[c].base \in Revisions /\ "recalculate" \in Kinds
        BY <1>1, CallFields DEF Reviewed, Typed, Kinds
    <2>3. previews'[Len(previews')] = s /\ created < MaxPreviews
        BY <2>1, <2>2, PutEffect DEF Reviewed
    <2>4. s \in Candidates /\ s.base = calls[c].base
        BY <2>2, <2>3, NewCandidateType DEF Reviewed, Typed
    <2>5. Offer(c, s)
        BY <2>1, <2>3 DEF Last
    <2>6. Show(c, s) /\ UNCHANGED <<sent, view, told>>
        BY <2>5 DEF Offer
    <2>7. s.base <= plan.revision
        BY <1>1, <2>4 DEF Reviewed, Requested
    <2>8. Proposes(c, s)
        <3> HIDE DEF s
        <3>1. QED
            BY <1>1, <2>1, <2>2, <2>4, <2>5, <2>6, <2>7 DEF Proposes, s
    <2>9. QED
        BY <2>4, <2>8
<1>4. CASE ~(result \in NeedsApproval /\ ~calls[c].approve)
    <2>1. Staged(c, result) /\ UNCHANGED server /\ result \in Plans
        BY <1>2, <1>4 DEF Plans
    <2>2. ~calls[c].approve
        BY <1>1 DEF PreviewRequired
    <2>3. result \notin NeedsApproval
        BY <1>4, <2>2
    <2>4. Sound(c, result)
        BY <1>1, <2>1, <2>3 DEF Sound, WasShown, ExpectedRevision
    <2>5. QED
        BY <1>1, <2>1, <2>4 DEF Calculates
<1>5. QED
    BY <1>3, <1>4

LEMMA Reverting ==
    ASSUME Reviewed, NEW c \in Calls, Revert(c)
    PROVE  Refuses(c) \/ Calculates(c)
<1> DEFINE from == calls[c].from
<1>1. /\ Reading(c, "calculating") /\ calls[c] # Nothing /\ calls[c].kind = "revert"
      /\ UNCHANGED server
    BY DEF Revert, Reading
<1>2. IF ~ExpectedRevision(c) THEN Tell(c, "stale")
      ELSE IF ~Revertible(c) THEN Tell(c, "refused")
      ELSE Staged(c, from.saved.content)
    BY DEF Revert
<1>3. CASE ~ExpectedRevision(c)
    BY <1>1, <1>2, <1>3, LateRequest DEF Refuses
<1>4. CASE ExpectedRevision(c) /\ ~Revertible(c)
    BY <1>1, <1>2, <1>4 DEF Refuses
<1>5. CASE ExpectedRevision(c) /\ Revertible(c)
    <2>1. Staged(c, from.saved.content)
        BY <1>2, <1>5
    <2>2. from.saved \in Saved /\ from.saved # Nothing
        BY <1>1, <1>5, CallFields, StateFields DEF Revertible, Reviewed, Typed
    <2>3. from.saved.content \in Plans
        BY <2>2, SavedFields
    <2>4. Sound(c, from.saved.content)
        BY <1>1, <1>5, <2>3 DEF Sound, Undoes, ExpectedRevision
    <2>5. QED
        BY <1>1, <2>1, <2>3, <2>4 DEF Calculates
<1>6. QED
    BY <1>3, <1>4, <1>5

LEMMA RefusedRecalculation ==
    ASSUME Reviewed, NEW c \in Calls, RecalculateRefused(c)
    PROVE  Refuses(c)
<1>1. /\ Reading(c, "calculating") /\ calls[c] # Nothing /\ calls[c].kind = "recalculate"
      /\ UNCHANGED server
      /\ Tell(c, IF ExpectedRevision(c) THEN "preview_required" ELSE "stale")
    BY DEF RecalculateRefused, Reading
<1>2. CASE ExpectedRevision(c)
    BY <1>1, <1>2 DEF Refuses
<1>3. CASE ~ExpectedRevision(c)
    BY <1>1, <1>3, LateRequest DEF Refuses
<1>4. QED
    BY <1>2, <1>3

LEMMA RefusedCommit ==
    ASSUME Reviewed, NEW c \in Calls, CommitRefused(c)
    PROVE  Refuses(c)
<1>1. /\ Reading(c, "calculated") /\ calls[c] # Nothing /\ AtServer(c) /\ UNCHANGED server
      /\ Tell(c, IF ReceiptAnswer(c) # "none" THEN ReceiptAnswer(c) ELSE "stale")
      /\ ReceiptAnswer(c) # "none" \/ calls[c].from.revision # plan.revision
    BY DEF CommitRefused, Reading, AtServer
<1>2. CASE ReceiptAnswer(c) # "none"
    <2>1. ReceiptAnswer(c) # "stale"
        BY DEF ReceiptAnswer
    <2>2. QED
        BY <1>1, <1>2, <2>1 DEF Refuses
<1>3. CASE ReceiptAnswer(c) = "none"
    <2>1. /\ calls[c].kind # "simulate" /\ calls[c].base = calls[c].from.revision
          /\ calls[c].from.revision <= plan.revision
        BY <1>1 DEF Reviewed, Calculated, Sound, Staging
    <2>2. calls[c].from.revision \in Nat /\ plan.revision \in Nat
        BY <1>1, CallFields, StateFields, NumberTypes DEF Reviewed, Typed, TypeOK
    <2>3. calls[c].base < plan.revision
        BY <1>1, <1>3, <2>1, <2>2
    <2>4. \A r \in receipts : r.op # calls[c].op
        BY <1>3 DEF ReceiptAnswer
    <2>5. QED
        BY <1>1, <1>3, <2>1, <2>3, <2>4 DEF Refuses, Late
<1>4. QED
    BY <1>2, <1>3

LEMMA Served ==
    ASSUME Reviewed, NEW c \in Calls, Serve(c)
    PROVE  \/ Refuses(c) \/ Captures(c) \/ Calculates(c) \/ Commit(c)
           \/ \E s \in Candidates : Proposes(c, s)
BY Captured, Simulated, Applying, Repeated, Recalculated, Reverting,
   RefusedRecalculation, RefusedCommit DEF Serve

-----------------------------------------------------------------------------
(* What a browser sends.                                                   *)

Asks(c) ==
    /\ calls'[c].at = "sent" /\ calls'[c].user \in Users
    /\ calls'[c].op.kind = calls'[c].kind /\ calls'[c].op.user = calls'[c].user
    /\ calls'[c].kind # "simulate" => MadeOn(calls'[c].op, calls'[c].base)
    /\ calls'[c].id # 0 => Names(calls'[c].user, calls'[c].id, calls'[c].base)
    /\ calls'[c].base <= plan.revision
    /\ \A d \in Calls \ {c} : calls'[d] = calls[d]
    /\ UNCHANGED <<server, view, candidates, simulation, shown, told>>

LEMMA Asked ==
    ASSUME Reviewed, NEW u \in Users, NEW c \in Calls, Ask(u, c)
    PROVE  TypeOK' /\ Asks(c)
<1> USE DEF Reviewed, Typed
<1>1. PICK b \in Revisions : b = view[u] /\ b \in Nat /\ b <= plan.revision
    BY NumberTypes DEF TypeOK, Identified
<1>2. PICK none \in Ids \cup {0} : none = 0 /\ none \in Nat
    OBVIOUS
<1>3. b \in Revisions /\ b \in Nat /\ none \in Ids \cup {0}
    BY <1>1, <1>2
<1>4. "simulate" \in Kinds /\ "apply" \in Kinds /\ "recalculate" \in Kinds /\ "revert" \in Kinds
    BY DEF Kinds
<1>5. CASE SendSimulate(u, c)
    <2>1. PICK approve \in BOOLEAN : Send(u, c, "simulate", none, b, none, approve)
        BY <1>1, <1>2, <1>5 DEF SendSimulate
    <2>2. Sent(u, c, "simulate", none, b, none)
        BY <2>1, <1>2, <1>4, <1>3, SendEffect
    <2>3. /\ calls'[c].op.kind = "simulate" /\ calls'[c].op.user = u
        BY <2>2, <1>2, <1>4, OperationIdType DEF Sent
    <2>4. QED
        BY <2>2, <2>3, <1>1, <1>2 DEF Asks, Sent
<1>6. CASE SendApply(u, c)
    <2>1. PICK s \in Displayed(u), approve \in BOOLEAN :
            Send(u, c, "apply", s.id, s.base, s.id, approve)
        BY <1>6 DEF SendApply
    <2>2. s \in shown[u] /\ s \in Candidates
        BY DEF Displayed, TypeOK
    <2>3. s.id \in Ids /\ s.id \in Nat /\ s.base \in Revisions /\ s.base <= plan.revision
        BY <2>2, CandidateFields, NumberTypes DEF Identified
    <2>4. Sent(u, c, "apply", s.id, s.base, s.id)
        BY <2>1, <2>3, <1>4, SendEffect
    <2>5. /\ calls'[c].op.kind = "apply" /\ calls'[c].op.user = u /\ calls'[c].op.key = s.id
        BY <2>3, <2>4, <1>4, OperationIdType DEF Sent
    <2>6. QED
        BY <2>2, <2>3, <2>4, <2>5 DEF Asks, MadeOn, Names, Sent
<1>7. CASE SendRecalculate(u, c)
    <2> DEFINE op == OperationId(u, "recalculate", b)
               held == {k \in candidates[u] : k.op = op}
               id == IF held = {} THEN 0 ELSE (CHOOSE k \in held : TRUE).id
    <2>1. PICK approve \in BOOLEAN : Send(u, c, "recalculate", b, b, id, approve)
        BY <1>1, <1>7 DEF SendRecalculate
    <2>2. op.user = u /\ op.kind = "recalculate" /\ op.key = b
        BY <1>1, <1>2, <1>4, OperationIdType
    <2>3. id \in Ids \cup {0} /\ (id # 0 => Names(u, id, b))
        <3>1. CASE held = {}
            BY <3>1
        <3>2. CASE held # {}
            <4>1. PICK k \in held : id = k.id
                BY <3>2
            <4>2. k \in candidates[u] /\ k.op = op
                BY <4>1
            <4>3. Names(u, id, b)
                BY <4>1, <4>2, <2>2 DEF Held
            <4>4. PICK s \in shown[u] : s.id = id
                BY <4>3 DEF Names
            <4>5. s \in Candidates
                BY <4>4 DEF TypeOK
            <4>6. QED
                BY <4>3, <4>4, <4>5, CandidateFields
        <3>3. QED
            BY <3>1, <3>2
    <2> HIDE DEF id
    <2>4. Sent(u, c, "recalculate", b, b, id)
        BY <2>1, <2>3, <1>4, <1>3, SendEffect
    <2>5. QED
        BY <2>2, <2>3, <2>4, <1>1, <1>2 DEF Asks, MadeOn, Sent
<1>8. CASE SendRevert(u, c)
    <2>1. PICK approve \in BOOLEAN : Send(u, c, "revert", b, b, none, approve)
        BY <1>1, <1>2, <1>8 DEF SendRevert
    <2>2. Sent(u, c, "revert", b, b, none)
        BY <2>1, <1>4, <1>3, SendEffect
    <2>3. /\ calls'[c].op.kind = "revert" /\ calls'[c].op.user = u
          /\ calls'[c].op.key = b
        BY <2>2, <1>4, <1>3, OperationIdType DEF Sent
    <2>4. QED
        BY <2>2, <2>3, <1>1, <1>2 DEF Asks, MadeOn, Sent
<1>9. QED
    BY <1>5, <1>6, <1>7, <1>8 DEF Ask

-----------------------------------------------------------------------------
(* The kinds of steps.                                                     *)

LEMMA Steps ==
    ASSUME Reviewed, Next
    PROVE  \/ \E c \in Calls : Asks(c) /\ TypeOK'
           \/ \E u \in Users : Refresh(u)
           \/ \E c \in Calls : GiveUp(c)
           \/ \E c \in Calls : Vanish(c)
           \/ \E c \in Calls : Captures(c)
           \/ \E c \in Calls : Calculates(c)
           \/ \E c \in Calls : Refuses(c)
           \/ \E c \in Calls, s \in Candidates : Proposes(c, s)
           \/ \E c \in Calls : Commit(c)
           \/ Expire \/ OtherWrite \/ Restart
<1>1. CASE \E u \in Users, c \in Calls : Ask(u, c)
    BY <1>1, Asked
<1>2. CASE \E c \in Calls : Serve(c)
    BY <1>2, Served
<1>3. QED
    BY <1>1, <1>2 DEF Next

LEMMA GiveUpEffect ==
    ASSUME TypeOK, NEW c \in Calls, GiveUp(c)
    PROVE  /\ calls' \in [Calls -> Requests \cup {Nothing}]
           /\ \A d \in Calls \ {c} : calls'[d] = calls[d]
           /\ calls[c] # Nothing /\ SameRequest(c) /\ calls'[c].from = calls[c].from
           /\ calls'[c].at = calls[c].at /\ calls'[c].result = calls[c].result
           /\ UNCHANGED <<server, browsers>>
<1> DEFINE k == [calls[c] EXCEPT !.awaited = FALSE]
<1>1. /\ calls' = [calls EXCEPT ![c].awaited = FALSE] /\ calls[c] # Nothing
      /\ UNCHANGED <<server, browsers>>
    BY DEF GiveUp
<1>2. calls[c] \in Requests
    BY <1>1, CallFields
<1>3. /\ k \in Requests /\ k.result = calls[c].result /\ k.at = calls[c].at
      /\ k.from = calls[c].from
      /\ k.user = calls[c].user /\ k.kind = calls[c].kind /\ k.op = calls[c].op
      /\ k.base = calls[c].base /\ k.id = calls[c].id /\ k.approve = calls[c].approve
    BY <1>2 DEF Requests
<1>4. calls'[c] = k /\ \A d \in Calls \ {c} : calls'[d] = calls[d]
    BY <1>1 DEF TypeOK
<1>5. calls' \in [Calls -> Requests \cup {Nothing}]
    BY <1>1, <1>3 DEF TypeOK
<1>6. QED
    BY <1>1, <1>3, <1>4, <1>5 DEF SameRequest

LEMMA CommitEffect ==
    ASSUME Reviewed, NEW c \in Calls, Commit(c)
    PROVE  /\ calls[c] # Nothing /\ Sound(c, calls[c].result)
           /\ Tell(c, "applied") /\ ReceiptAnswer(c) = "none"
           /\ calls[c].from = plan /\ calls[c].base = plan.revision
           /\ plan' \in States /\ plan'.revision = plan.revision + 1
           /\ plan'.content = calls[c].result /\ plan'.saved = SavedBy(c)
           /\ offered' \in Plans \cup {Nothing}
           /\ calls[c].kind = "apply" => offered' = plan.content
           /\ receipts' \subseteq Receipts
           /\ receipts \subseteq receipts'
           /\ \E r \in receipts' : r.kind = calls[c].kind /\ r.base = plan.revision
           /\ \A r \in receipts' : r \notin receipts => r.op = calls[c].op
           /\ UNCHANGED <<previews, expired, created>>
<1> USE DEF Reviewed, Typed
<1>1. /\ Reading(c, "calculated") /\ calls[c] # Nothing /\ AtServer(c)
      /\ ReceiptAnswer(c) = "none" /\ calls[c].from.revision = plan.revision
      /\ plan.revision < MaxRevision
      /\ Tell(c, "applied") /\ UNCHANGED <<previews, expired, created>>
      /\ plan' = [revision |-> plan.revision + 1, content |-> calls[c].result,
                  saved |-> SavedBy(c)]
    BY DEF Commit, Reading, AtServer
<1>2. Sound(c, calls[c].result) /\ calls[c].from = plan /\ calls[c].base = plan.revision
    BY <1>1 DEF Calculated, Staging, Sound
<1>3. calls[c].result \in Plans
    BY <1>2 DEF Sound
<1>4. plan \in States /\ plan.revision \in Revisions /\ plan.content \in Plans
      /\ plan.saved \in Saved
    BY StateFields DEF TypeOK
<1>5. SavedBy(c) \in Saved
    BY <1>2, <1>4 DEF SavedBy, SaveCurrent, Saved
<1>6. plan.revision + 1 \in Revisions
    BY <1>1, <1>4, NumberTypes
<1>7. plan' \in States
    BY <1>1, <1>3, <1>5, <1>6 DEF States
<1> DEFINE r == [op |-> calls[c].op, kind |-> calls[c].kind, base |-> calls[c].base,
                 id |-> calls[c].id]
<1>8. receipts' = receipts \cup {r}
    BY DEF Commit
<1>9. /\ r \in Receipts /\ r.kind = calls[c].kind /\ r.base = plan.revision
      /\ r.op = calls[c].op
    BY <1>1, <1>2, CallFields DEF Receipts
<1> HIDE DEF r
<1>10. receipts' \subseteq Receipts
    BY <1>8, <1>9 DEF TypeOK
<1>11. offered' = IF calls[c].kind = "apply" THEN plan.content ELSE Nothing
    BY DEF Commit, OffersRevert
<1>12. QED
    BY <1>1, <1>2, <1>4, <1>7, <1>8, <1>9, <1>10, <1>11

LEMMA WriteEffect ==
    ASSUME TypeOK, NEW saved \in Saved, NEW yes \in BOOLEAN, Write(saved, yes)
    PROVE  /\ plan' \in States /\ plan'.revision = plan.revision + 1
           /\ plan'.saved = saved /\ offered' \in Plans \cup {Nothing}
           /\ yes => offered' = plan.content
           /\ UNCHANGED <<receipts, previews, expired, created, calls, browsers>>
<1>1. PICK result \in Results :
        plan' = [revision |-> plan.revision + 1, content |-> result, saved |-> saved]
    BY DEF Write
<1>2. /\ plan.revision \in Revisions /\ plan.content \in Plans
      /\ plan.revision < OthersUntil
    BY StateFields DEF TypeOK, Write
<1>3. plan.revision + 1 \in Revisions /\ result \in Plans
    BY <1>2, OthersAssumption, NumberTypes DEF Plans, Revisions
<1>4. plan' \in States
    BY <1>1, <1>3 DEF States
<1>5. QED
    BY <1>1, <1>2, <1>4 DEF Write, OffersRevert

LEMMA OtherWriteEffect ==
    ASSUME TypeOK, OtherWrite
    PROVE  /\ plan' \in States /\ plan'.revision = plan.revision + 1
           /\ offered' \in Plans \cup {Nothing}
           /\ \/ plan'.saved = plan.saved
              \/ plan'.saved = Nothing
              \/ /\ plan'.saved.revision = plan.revision
                 /\ plan'.saved.content = plan.content /\ offered' = plan.content
           /\ UNCHANGED <<receipts, previews, expired, created, calls, browsers>>
<1>1. /\ plan.revision \in Revisions /\ plan.content \in Plans
      /\ plan.saved \in Saved
    BY StateFields DEF TypeOK
<1>2. SaveCurrent(plan) \in Saved /\ Nothing \in Saved
    BY <1>1 DEF SaveCurrent, Saved
<1>3. /\ SaveCurrent(plan).revision = plan.revision
      /\ SaveCurrent(plan).content = plan.content
    BY DEF SaveCurrent
<1>4. CASE Write(SaveCurrent(plan), TRUE)
    BY <1>2, <1>3, <1>4, WriteEffect
<1>5. CASE Write(plan.saved, FALSE)
    BY <1>1, <1>5, WriteEffect
<1>6. CASE Write(Nothing, FALSE)
    BY <1>2, <1>6, WriteEffect
<1>7. QED
    BY <1>4, <1>5, <1>6 DEF OtherWrite, MoveByHand, ApplyPromise, ChangeInputs, LoadOrRestore

LEMMA RestartEffect ==
    ASSUME TypeOK, Restart
    PROVE  /\ plan' \in States /\ plan'.revision = plan.revision
           /\ plan'.saved = Nothing /\ previews' = <<>> /\ expired' = 0
           /\ calls' \in [Calls -> Requests \cup {Nothing}]
           /\ \A c \in Calls : calls'[c] = Nothing
           /\ UNCHANGED <<offered, receipts, created, browsers>>
<1>1. plan' = [plan EXCEPT !.saved = Nothing] /\ plan \in States /\ Nothing \in Saved
    BY DEF Restart, TypeOK, Saved
<1>2. plan' \in States /\ plan'.revision = plan.revision /\ plan'.saved = Nothing
    BY <1>1 DEF States
<1>3. QED
    BY <1>2 DEF Restart

-----------------------------------------------------------------------------
(* Types.                                                                  *)

LEMMA InitTyped == Init => Typed
<1> SUFFICES ASSUME Init PROVE Typed
    OBVIOUS
<1>1. FirstState \in States
    BY NumberTypes DEF FirstState, States, Saved, Plans
<1>2. previews \in Seq(Candidates) /\ Len(previews) = 0 /\ DOMAIN previews = {}
    BY DEF Init
<1>3. QED
    BY <1>1, <1>2, NumberTypes DEF Init, Typed, TypeOK, Numbered

LEMMA NextTyped ==
    ASSUME Reviewed, [Next]_vars
    PROVE  Typed'
<1> USE DEF Reviewed, Typed
<1>0. created \in Nat /\ \A i \in DOMAIN previews : previews[i].id \in Nat
    <2>1. created \in Nat
        BY NumberTypes DEF TypeOK
    <2>2. QED
        BY <2>1, StoredType, CandidateFields, NumberTypes
<1>1. ASSUME NEW c \in Calls, Asks(c), TypeOK'
      PROVE  Typed'
    BY <1>1 DEF Asks, server, Numbered
<1>2. ASSUME NEW u \in Users, Refresh(u)
      PROVE  Typed'
    <2>1. plan.revision \in Revisions
        BY StateFields DEF TypeOK
    <2>2. view' \in [Users -> Revisions] /\ simulation' \in [Users -> Ids \cup {0}]
        BY <1>2, <2>1 DEF Refresh, TypeOK
    <2>3. QED
        BY <1>2, <2>2 DEF Refresh, TypeOK, server, Numbered
<1>3. ASSUME NEW c \in Calls, GiveUp(c)
      PROVE  Typed'
    BY <1>3, GiveUpEffect DEF TypeOK, Numbered, server, browsers
<1>4. ASSUME NEW c \in Calls, Vanish(c)
      PROVE  Typed'
    BY <1>4, DropEffect DEF Vanish, TypeOK, Numbered, server, browsers
<1>5. ASSUME NEW c \in Calls, Captures(c)
      PROVE  Typed'
    <2>1. calls' \in [Calls -> Requests \cup {Nothing}]
        BY <1>5, CaptureEffect DEF Captures, Reading
    <2>2. QED
        BY <2>1, <1>5 DEF Captures, TypeOK, Numbered, server, browsers
<1>6. ASSUME NEW c \in Calls, Calculates(c)
      PROVE  Typed'
    <2>1. calls' \in [Calls -> Requests \cup {Nothing}] /\ UNCHANGED browsers
        BY <1>6, StagedEffect DEF Calculates, Reading
    <2>2. QED
        BY <2>1, <1>6 DEF Calculates, TypeOK, Numbered, server, browsers
<1>7. ASSUME NEW c \in Calls, Refuses(c)
      PROVE  Typed'
    <2>1. PICK a : Tell(c, a)
        BY <1>7 DEF Refuses
    <2>2. /\ calls' \in [Calls -> Requests \cup {Nothing}] /\ told' \subseteq Answers
          /\ candidates' \in [Users -> SUBSET Offers]
          /\ simulation' \in [Users -> Ids \cup {0}] /\ UNCHANGED <<sent, view, shown>>
        BY <1>7, <2>1, TellEffect DEF Refuses
    <2>3. QED
        BY <2>2, <1>7 DEF Refuses, TypeOK, Numbered, server
<1>8. ASSUME NEW c \in Calls, NEW s \in Candidates, Proposes(c, s)
      PROVE  Typed'
    <2>1. /\ calls' \in [Calls -> Requests \cup {Nothing}]
          /\ shown' \in [Users -> SUBSET Candidates] /\ UNCHANGED <<sent, view, told>>
        BY <1>8, ShowEffect DEF Proposes
    <2>2. /\ candidates' \in [Users -> SUBSET Offers]
          /\ simulation' \in [Users -> Ids \cup {0}]
        BY <1>8, OfferEffect DEF Proposes, TypeOK
    <2>3. CASE UNCHANGED server
        BY <2>1, <2>2, <2>3 DEF TypeOK, Numbered, server
    <2>4. CASE \E kind \in Kinds, base \in Revisions, result \in Results :
                Put(kind, base, result) /\ s = NewCandidate(kind, base, result)
        <3>1. PICK kind \in Kinds, base \in Revisions, result \in Results :
                Put(kind, base, result)
            BY <2>4
        <3>2. /\ previews' \in Seq(Candidates) /\ Len(previews') <= PreviewLimit
              /\ \A i, j \in DOMAIN previews' : i < j => previews'[i].id < previews'[j].id
              /\ expired' \in 0..Len(previews') /\ created' \in 0..MaxPreviews
              /\ created < MaxPreviews /\ created' = created + 1
              /\ UNCHANGED <<plan, offered, receipts>>
            BY <3>1, PutEffect
        <3>3. \A i \in DOMAIN previews' :
                \/ previews'[i] = NewCandidate(kind, base, result)
                \/ \E j \in DOMAIN previews : previews'[i] = previews[j]
            BY <3>1, PutEffect
        <3>4. NewCandidate(kind, base, result).id = created + 1
            BY <3>2, NewCandidateType
        <3>5. \A i \in DOMAIN previews' : previews'[i].id <= created'
            BY <1>0, <3>2, <3>3, <3>4 DEF Numbered, TypeOK
        <3>6. TypeOK'
            BY <2>1, <2>2, <3>2 DEF TypeOK
        <3>7. QED
            BY <3>5, <3>6 DEF Numbered
    <2>5. QED
        BY <1>8, <2>3, <2>4 DEF Proposes
<1>9. ASSUME NEW c \in Calls, Commit(c)
      PROVE  Typed'
    <2>1. /\ calls[c] # Nothing /\ Tell(c, "applied") /\ plan' \in States
          /\ offered' \in Plans \cup {Nothing}
          /\ receipts' \subseteq Receipts /\ UNCHANGED <<previews, expired, created>>
        BY <1>9, CommitEffect
    <2>2. /\ calls' \in [Calls -> Requests \cup {Nothing}] /\ told' \subseteq Answers
          /\ candidates' \in [Users -> SUBSET Offers]
          /\ simulation' \in [Users -> Ids \cup {0}] /\ UNCHANGED <<sent, view, shown>>
        BY <2>1, TellEffect
    <2>3. QED
        BY <2>1, <2>2 DEF TypeOK, Numbered
<1>10. ASSUME Expire
       PROVE  Typed'
    BY <1>10 DEF Expire, TypeOK, Numbered, browsers
<1>11. ASSUME OtherWrite
       PROVE  Typed'
    BY <1>11, OtherWriteEffect DEF TypeOK, Numbered, browsers
<1>12. ASSUME Restart
       PROVE  Typed'
    <2>1. previews' \in Seq(Candidates) /\ Len(previews') = 0 /\ DOMAIN previews' = {}
        BY <1>12, RestartEffect
    <2>2. QED
        BY <1>12, <2>1, RestartEffect, NumberTypes DEF TypeOK, Numbered, browsers
<1>13. CASE UNCHANGED vars
    BY <1>13 DEF TypeOK, Numbered, vars
<1>14. QED
    BY <1>1, <1>2, <1>3, <1>4, <1>5, <1>6, <1>7, <1>8, <1>9, <1>10, <1>11, <1>12, <1>13, Steps

-----------------------------------------------------------------------------
(* What no step takes back.                                                *)

Goes(c) ==
    /\ calls[c] # Nothing /\ SameRequest(c)
    /\ calls'[c].from = calls[c].from /\ calls'[c].at = calls[c].at
    /\ calls'[c].result = calls[c].result
AllGo == \A d \in Calls : calls'[d] # Nothing => Goes(d)
OthersGo(c) == \A d \in Calls \ {c} : calls'[d] # Nothing => Goes(d)
Grows ==
    /\ plan.revision <= plan'.revision
    /\ \A u \in Users : shown[u] \subseteq shown'[u]
    /\ receipts \subseteq receipts'
PlanMoves ==
    \/ plan' = plan
    \/ plan.revision < plan'.revision
    \/ \A d \in Calls : calls'[d] = Nothing

LEMMA RevisionType ==
    ASSUME TypeOK
    PROVE  plan \in States /\ plan.revision \in Revisions /\ plan.revision \in Nat
BY StateFields, NumberTypes DEF TypeOK

LEMMA StepEffect ==
    ASSUME Reviewed, [Next]_vars
    PROVE  /\ Grows /\ PlanMoves
           /\ \/ AllGo
              \/ \E c \in Calls : OthersGo(c) /\ (Asks(c) \/ Captures(c) \/ Calculates(c))
<1> USE DEF Reviewed, Typed
<1>0. plan.revision \in Nat
    BY RevisionType
<1>1. ASSUME NEW c \in Calls, Asks(c)
      PROVE  Grows /\ PlanMoves /\ OthersGo(c)
    BY <1>0, <1>1 DEF Asks, Grows, PlanMoves, OthersGo, Goes, SameRequest, server
<1>2. ASSUME NEW u \in Users, Refresh(u)
      PROVE  Grows /\ PlanMoves /\ AllGo
    BY <1>0, <1>2 DEF Refresh, Grows, PlanMoves, AllGo, Goes, SameRequest, server
<1>3. ASSUME NEW c \in Calls, GiveUp(c)
      PROVE  Grows /\ PlanMoves /\ AllGo
    <2>1. AllGo
        BY <1>3, GiveUpEffect DEF AllGo, Goes, SameRequest
    <2>2. QED
        BY <1>0, <1>3, <2>1, GiveUpEffect DEF Grows, PlanMoves, server, browsers
<1>4. ASSUME NEW c \in Calls, Vanish(c)
      PROVE  Grows /\ PlanMoves /\ AllGo
    <2>1. AllGo
        BY <1>4, DropEffect DEF Vanish, AllGo, Goes, SameRequest
    <2>2. QED
        BY <1>0, <1>4, <2>1 DEF Vanish, Grows, PlanMoves, server, browsers
<1>5. ASSUME NEW c \in Calls, Captures(c)
      PROVE  Grows /\ PlanMoves /\ OthersGo(c)
    <2>1. OthersGo(c)
        BY <1>5, CaptureEffect DEF Captures, Reading, OthersGo, Goes, SameRequest
    <2>2. QED
        BY <1>0, <1>5, <2>1 DEF Captures, Grows, PlanMoves, server, browsers
<1>6. ASSUME NEW c \in Calls, Calculates(c)
      PROVE  Grows /\ PlanMoves /\ OthersGo(c)
    <2>1. OthersGo(c) /\ UNCHANGED browsers
        BY <1>6, StagedEffect DEF Calculates, Reading, OthersGo, Goes, SameRequest
    <2>2. QED
        BY <1>0, <1>6, <2>1 DEF Calculates, Grows, PlanMoves, server, browsers
<1>7. ASSUME NEW c \in Calls, Refuses(c)
      PROVE  Grows /\ PlanMoves /\ AllGo
    <2>1. /\ calls'[c] = Nothing /\ \A d \in Calls \ {c} : calls'[d] = calls[d]
          /\ UNCHANGED shown
        BY <1>7, TellEffect DEF Refuses
    <2>2. AllGo
        BY <2>1 DEF AllGo, Goes, SameRequest
    <2>3. QED
        BY <1>0, <1>7, <2>1, <2>2 DEF Refuses, Grows, PlanMoves, server
<1>8. ASSUME NEW c \in Calls, NEW s \in Candidates, Proposes(c, s)
      PROVE  Grows /\ PlanMoves /\ AllGo
    <2>1. /\ calls'[c] = Nothing /\ \A d \in Calls \ {c} : calls'[d] = calls[d]
          /\ \A u \in Users : shown[u] \subseteq shown'[u]
        BY <1>8, ShowEffect DEF Proposes
    <2>2. AllGo
        BY <2>1 DEF AllGo, Goes, SameRequest
    <2>3. UNCHANGED <<plan, offered, receipts>>
        BY <1>8, PutEffect DEF Proposes, server
    <2>4. QED
        BY <1>0, <2>1, <2>2, <2>3 DEF Grows, PlanMoves
<1>9. ASSUME NEW c \in Calls, Commit(c)
      PROVE  Grows /\ PlanMoves /\ AllGo
    <2>1. /\ calls[c] # Nothing /\ Tell(c, "applied")
          /\ plan'.revision = plan.revision + 1 /\ receipts \subseteq receipts'
        BY <1>9, CommitEffect
    <2>2. /\ calls'[c] = Nothing /\ \A d \in Calls \ {c} : calls'[d] = calls[d]
          /\ UNCHANGED shown
        BY <2>1, TellEffect
    <2>3. AllGo
        BY <2>2 DEF AllGo, Goes, SameRequest
    <2>4. QED
        BY <1>0, <2>1, <2>2, <2>3 DEF Grows, PlanMoves
<1>10. ASSUME Expire
       PROVE  Grows /\ PlanMoves /\ AllGo
    BY <1>0, <1>10 DEF Expire, Grows, PlanMoves, AllGo, Goes, SameRequest, browsers
<1>11. ASSUME OtherWrite
       PROVE  Grows /\ PlanMoves /\ AllGo
    BY <1>0, <1>11, OtherWriteEffect
    DEF Grows, PlanMoves, AllGo, Goes, SameRequest, browsers
<1>12. ASSUME Restart
       PROVE  Grows /\ PlanMoves /\ AllGo
    BY <1>0, <1>12, RestartEffect DEF Grows, PlanMoves, AllGo, browsers
<1>13. CASE UNCHANGED vars
    BY <1>0, <1>13 DEF Grows, PlanMoves, AllGo, Goes, SameRequest, vars
<1>14. QED
    BY <1>1, <1>2, <1>3, <1>4, <1>5, <1>6, <1>7, <1>8, <1>9, <1>10, <1>11, <1>12, <1>13, Steps

-----------------------------------------------------------------------------
(* Requests at the server.                                                 *)

LEMMA MadeOnKept ==
    ASSUME Grows, NEW op \in Operations, NEW base, MadeOn(op, base)
    PROVE  MadeOn(op, base)'
BY OperationFields DEF Grows, MadeOn

LEMMA NamesKept ==
    ASSUME Grows, NEW u \in Users, NEW id, NEW base, Names(u, id, base)
    PROVE  Names(u, id, base)'
BY DEF Grows, Names

LEMMA NextRequested ==
    ASSUME Reviewed, [Next]_vars, Typed'
    PROVE  Requested'
<1> USE DEF Reviewed, Typed
<1>1. Grows
    BY StepEffect
<1>2. plan.revision \in Nat /\ plan'.revision \in Nat /\ plan.revision <= plan'.revision
    BY <1>1, RevisionType, NumberTypes, StateFields DEF Grows, TypeOK
<1> DEFINE Made(c) ==
        /\ calls[c].op.kind = calls[c].kind /\ calls[c].op.user = calls[c].user
        /\ calls[c].kind # "simulate" => MadeOn(calls[c].op, calls[c].base)
        /\ calls[c].id # 0 => Names(calls[c].user, calls[c].id, calls[c].base)
        /\ calls[c].base <= plan.revision
<1>3. ASSUME NEW d \in Calls, calls[d] # Nothing, SameRequest(d)
      PROVE  Made(d)'
    <2>1. Made(d) /\ calls[d].user \in Users /\ calls[d].op \in Operations
          /\ calls[d].base \in Nat
        BY <1>3, CallFields, NumberTypes DEF Requested
    <2>2. QED
        BY <1>1, <1>2, <1>3, <2>1, OperationFields DEF SameRequest, Grows, MadeOn, Names
<1>4. ASSUME NEW c \in Calls, Asks(c)
      PROVE  Made(c)'
    BY <1>4 DEF Asks, MadeOn, Names, server
<1>5. ASSUME NEW c \in Calls, Captures(c) \/ Calculates(c)
      PROVE  calls[c] # Nothing /\ SameRequest(c)
    BY <1>5, CaptureEffect, StagedEffect DEF Captures, Calculates, Reading
<1>6. \A d \in Calls : calls'[d] # Nothing => Made(d)'
    <2>1. CASE AllGo
        BY <2>1, <1>3 DEF AllGo, Goes
    <2>2. ASSUME NEW c \in Calls, OthersGo(c), Asks(c) \/ Captures(c) \/ Calculates(c)
          PROVE  \A d \in Calls : calls'[d] # Nothing => Made(d)'
        <3> HIDE DEF Made
        <3>1. \A d \in Calls \ {c} : calls'[d] # Nothing => Made(d)'
            BY <2>2, <1>3 DEF OthersGo, Goes
        <3>2. Made(c)'
            BY <2>2, <1>3, <1>4, <1>5
        <3>3. QED
            BY <3>1, <3>2
    <2>3. QED
        BY <2>1, <2>2, StepEffect
<1>7. QED
    BY <1>6 DEF Requested

LEMMA NextStaging ==
    ASSUME Reviewed, [Next]_vars, Typed'
    PROVE  Staging'
<1> USE DEF Reviewed, Typed
<1>1. Grows /\ PlanMoves
    BY StepEffect
<1>2. plan.revision \in Nat /\ plan'.revision \in Nat /\ plan.revision <= plan'.revision
    BY <1>1, RevisionType, NumberTypes, StateFields DEF Grows, TypeOK
<1> SUFFICES ASSUME NEW d \in Calls, AtServer(d)'
             PROVE  /\ calls'[d].base <= calls'[d].from.revision
                    /\ calls'[d].from.revision <= plan'.revision
                    /\ calls'[d].from.revision = plan'.revision => calls'[d].from = plan'
    BY DEF Staging
<1>3. calls'[d] # Nothing /\ calls'[d].at # "sent"
    BY DEF AtServer
<1>4. ASSUME AtServer(d), SameRequest(d), calls'[d].from = calls[d].from
      PROVE  /\ calls'[d].base <= calls'[d].from.revision
             /\ calls'[d].from.revision <= plan'.revision
             /\ calls'[d].from.revision = plan'.revision => calls'[d].from = plan'
    <2>1. /\ calls[d].base <= calls[d].from.revision
          /\ calls[d].from.revision <= plan.revision
          /\ calls[d].from.revision = plan.revision => calls[d].from = plan
        BY <1>4 DEF Staging
    <2>2. calls[d].from.revision \in Nat
        BY <1>4, CallFields, StateFields, NumberTypes DEF AtServer
    <2>3. plan' = plan \/ plan.revision < plan'.revision
        BY <1>1, <1>3 DEF PlanMoves
    <2>4. QED
        BY <1>2, <1>4, <2>1, <2>2, <2>3 DEF SameRequest
<1>5. CASE AllGo
    BY <1>3, <1>4, <1>5 DEF AllGo, Goes, AtServer
<1>6. ASSUME NEW c \in Calls, OthersGo(c), c # d
      PROVE  Goes(d)
    BY <1>3, <1>6 DEF OthersGo
<1>7. CASE Captures(d)
    <2>1. calls[d] # Nothing /\ calls'[d].from = plan /\ SameRequest(d) /\ plan' = plan
        BY <1>7, CaptureEffect DEF Captures, Reading, server
    <2>2. calls[d].base <= plan.revision
        BY <2>1 DEF Requested
    <2>3. QED
        BY <1>2, <2>1, <2>2 DEF SameRequest
<1>8. CASE Calculates(d)
    <2>1. AtServer(d) /\ SameRequest(d) /\ calls'[d].from = calls[d].from
        BY <1>8, StagedEffect DEF Calculates, Reading, AtServer
    <2>2. QED
        BY <2>1, <1>4
<1>9. ~Asks(d)
    BY <1>3 DEF Asks
<1>10. CASE Goes(d)
    BY <1>3, <1>4, <1>10 DEF Goes, AtServer
<1>11. QED
    BY <1>5, <1>6, <1>7, <1>8, <1>9, <1>10, StepEffect

LEMMA SoundKept ==
    ASSUME Grows, TypeOK, NEW c \in Calls, calls[c] # Nothing, SameRequest(c),
           calls'[c].from = calls[c].from, NEW result, Sound(c, result)
    PROVE  Sound(c, result)'
<1>1. calls[c].user \in Users
    BY CallFields
<1>2. Undoes(c, result) => Undoes(c, result)'
    BY DEF Undoes, Revertible
<1>3. WasShown(c, result) => WasShown(c, result)'
    BY <1>1 DEF WasShown, SameRequest, Grows
<1>4. QED
    BY <1>2, <1>3 DEF Sound, SameRequest

LEMMA NextCalculated ==
    ASSUME Reviewed, [Next]_vars, Typed'
    PROVE  Calculated'
<1> USE DEF Reviewed, Typed
<1>1. Grows
    BY StepEffect
<1> SUFFICES ASSUME NEW d \in Calls, Reading(d, "calculated")'
             PROVE  Sound(d, calls[d].result)'
    BY DEF Calculated
<1>2. calls'[d] # Nothing /\ calls'[d].at = "calculated"
    BY DEF Reading
<1>3. CASE Goes(d)
    <2>1. Reading(d, "calculated")
        BY <1>2, <1>3 DEF Goes, Reading
    <2>2. Sound(d, calls[d].result)
        BY <2>1 DEF Calculated
    <2>3. calls'[d].result = calls[d].result
        BY <1>3 DEF Goes
    <2>4. \A r : Sound(d, r) => Sound(d, r)'
        BY <1>1, <1>3, SoundKept DEF Goes
    <2>5. QED
        BY <2>2, <2>3, <2>4 DEF Sound, Undoes, WasShown
<1>4. CASE Calculates(d)
    <2>1. PICK result \in Plans : Sound(d, result) /\ Staged(d, result)
        BY <1>4 DEF Calculates
    <2>2. calls[d] # Nothing
        BY <1>4 DEF Calculates, Reading
    <2>3. SameRequest(d) /\ calls'[d].from = calls[d].from /\ calls'[d].result = result
        BY <2>1, <2>2, StagedEffect
    <2>4. Sound(d, result)'
        BY <1>1, <2>1, <2>2, <2>3, SoundKept
    <2>5. QED
        BY <2>3, <2>4 DEF Sound, Undoes, WasShown
<1>5. ~Asks(d)
    BY <1>2 DEF Asks
<1>6. ~Captures(d)
    BY <1>2, CaptureEffect DEF Captures, Reading
<1>7. AllGo => Goes(d)
    BY <1>2 DEF AllGo
<1>8. \A c \in Calls : OthersGo(c) /\ c # d => Goes(d)
    BY <1>2 DEF OthersGo
<1>9. QED
    BY <1>3, <1>4, <1>5, <1>6, <1>7, <1>8, StepEffect

-----------------------------------------------------------------------------
(* The candidates browsers know.                                           *)

LEMMA ShownType ==
    ASSUME TypeOK, NEW u \in Users, NEW s \in shown[u]
    PROVE  s \in Candidates /\ s.id \in Ids /\ s.id \in Nat /\ s.base \in Nat
<1>1. s \in Candidates
    BY DEF TypeOK
<1>2. QED
    BY <1>1, CandidateFields, NumberTypes

(* Nothing but a proposal shows a candidate or puts one in the store.      *)
LEMMA KnownCandidates ==
    ASSUME Reviewed, [Next]_vars
    PROVE  \/ \E c \in Calls, s \in Candidates : Proposes(c, s)
           \/ /\ shown' = shown /\ created' = created
              /\ previews' = previews \/ previews' = <<>>
              /\ view' = view \/ \E u \in Users : Refresh(u)
              /\ \A u \in Users : candidates'[u] \subseteq candidates[u]
<1> USE DEF Reviewed, Typed
<1> DEFINE Same ==
        /\ shown' = shown /\ created' = created
        /\ previews' = previews \/ previews' = <<>>
        /\ view' = view \/ \E u \in Users : Refresh(u)
        /\ \A u \in Users : candidates'[u] \subseteq candidates[u]
<1>1. ASSUME NEW c \in Calls, Asks(c)
      PROVE  Same
    BY <1>1 DEF Asks, server
<1>2. ASSUME NEW u \in Users, Refresh(u)
      PROVE  Same
    BY <1>2 DEF Refresh, server
<1>3. ASSUME NEW c \in Calls, GiveUp(c) \/ Vanish(c)
      PROVE  Same
    BY <1>3 DEF GiveUp, Vanish, server, browsers
<1>4. ASSUME NEW c \in Calls, Captures(c)
      PROVE  Same
    BY <1>4 DEF Captures, server, browsers
<1>5. ASSUME NEW c \in Calls, Calculates(c)
      PROVE  Same
    BY <1>5 DEF Calculates, Staged, server, browsers
<1>6. ASSUME NEW c \in Calls, Refuses(c)
      PROVE  Same
    BY <1>6, TellEffect DEF Refuses, server
<1>7. ASSUME NEW c \in Calls, Commit(c)
      PROVE  Same
    BY <1>7, CommitEffect, TellEffect
<1>8. ASSUME Expire \/ OtherWrite \/ Restart
      PROVE  Same
    BY <1>8, OtherWriteEffect, RestartEffect DEF Expire, browsers
<1>9. ASSUME UNCHANGED vars
      PROVE  Same
    BY <1>9 DEF vars
<1> HIDE DEF Same
<1>10. Same \/ \E c \in Calls, s \in Candidates : Proposes(c, s)
    BY <1>1, <1>2, <1>3, <1>4, <1>5, <1>6, <1>7, <1>8, <1>9, Steps
<1>11. QED
    BY <1>10 DEF Same

LEMMA NextIdentified ==
    ASSUME Reviewed, [Next]_vars, Typed'
    PROVE  Identified' /\ Held'
<1> USE DEF Reviewed, Typed
<1>1. Grows
    BY StepEffect
<1>2. plan.revision \in Nat /\ plan'.revision \in Nat /\ plan.revision <= plan'.revision
    BY <1>1, RevisionType, NumberTypes, StateFields DEF Grows, TypeOK
<1>3. created \in Nat /\ \A u \in Users : view[u] \in Nat
    <2>1. created \in Nat
        BY NumberTypes DEF TypeOK
    <2>2. \A u \in Users : view[u] \in Nat
        BY NumberTypes DEF TypeOK
    <2>3. QED
        BY <2>1, <2>2
<1>4. ASSUME shown' = shown, created' = created,
             previews' = previews \/ previews' = <<>>,
             view' = view \/ \E u \in Users : Refresh(u),
             \A u \in Users : candidates'[u] \subseteq candidates[u]
      PROVE  Identified' /\ Held'
    <2>1. \A u \in Users : view'[u] <= plan'.revision
        <3>1. \A u \in Users : view[u] <= plan.revision
            BY DEF Identified
        <3>2. CASE view' = view
            BY <1>2, <1>3, <3>1, <3>2
        <3>3. ASSUME NEW u \in Users, Refresh(u)
              PROVE  \A v \in Users : view'[v] <= plan'.revision
            <4>1. view' = [view EXCEPT ![u] = plan.revision]
                BY <3>3 DEF Refresh
            <4>2. \A v \in Users : view'[v] = view[v] \/ view'[v] = plan.revision
                BY <4>1 DEF TypeOK
            <4>3. QED
                BY <1>2, <1>3, <3>1, <4>2
        <3>4. QED
            BY <1>4, <3>2, <3>3
    <2>2. ASSUME NEW u \in Users, NEW s \in shown[u]
          PROVE  /\ s.id <= created' /\ s.base <= plan'.revision
                 /\ \A i \in DOMAIN previews' : previews'[i].id = s.id => previews'[i] = s
                 /\ \A v \in Users : \A t \in shown[v] : s.id = t.id => s = t
        <3>1. /\ s.id <= created /\ s.base <= plan.revision
              /\ \A i \in DOMAIN previews : previews[i].id = s.id => previews[i] = s
              /\ \A v \in Users : \A t \in shown[v] : s.id = t.id => s = t
            BY DEF Identified
        <3>2. s.base \in Nat
            BY ShownType
        <3>3. QED
            BY <1>2, <1>4, <3>1, <3>2
    <2>3. Identified'
        BY <1>4, <2>1, <2>2 DEF Identified
    <2>4. Held'
        BY <1>4 DEF Held, Names
    <2>5. QED
        BY <2>3, <2>4
<1>5. ASSUME NEW c \in Calls, NEW s \in Candidates, Proposes(c, s)
      PROVE  Identified' /\ Held'
    <2>1. /\ calls[c] # Nothing /\ s.base <= plan.revision /\ view' = view
          /\ calls[c].user \in Users /\ calls[c].op \in Operations
        BY <1>5, CallFields DEF Proposes
    <2>2. /\ \A u \in Users : shown'[u] \subseteq shown[u] \cup {s}
          /\ calls[c].awaited => s \in shown'[calls[c].user]
        BY <1>5, ShowEffect DEF Proposes
    <2>3. s.id \in Nat /\ s.base \in Nat
        BY CandidateFields, NumberTypes
    <2>4. /\ created <= created' /\ created' \in Nat /\ s.id <= created'
          /\ plan' = plan
          /\ \A i \in DOMAIN previews' :
                previews'[i] = s \/ \E j \in DOMAIN previews : previews'[i] = previews[j]
          /\ \/ s.id > created
             \/ \E i \in DOMAIN previews : previews[i] = s
        <3>1. CASE UNCHANGED server /\ \E i \in DOMAIN previews : previews[i] = s
            BY <1>3, <3>1 DEF server, Numbered
        <3>2. CASE \E kind \in Kinds, base \in Revisions, result \in Results :
                     Put(kind, base, result) /\ s = NewCandidate(kind, base, result)
            <4>1. PICK kind \in Kinds, base \in Revisions, result \in Results :
                     Put(kind, base, result) /\ s = NewCandidate(kind, base, result)
                BY <3>2
            <4>2. /\ created < MaxPreviews /\ created' = created + 1
                  /\ UNCHANGED <<plan, offered, receipts>>
                BY <4>1, PutEffect
            <4>3. \A i \in DOMAIN previews' :
                    \/ previews'[i] = NewCandidate(kind, base, result)
                    \/ \E j \in DOMAIN previews : previews'[i] = previews[j]
                BY <4>1, PutEffect
            <4>4. s.id = created + 1
                BY <4>1, <4>2, NewCandidateType
            <4>5. QED
                BY <1>3, <4>1, <4>2, <4>3, <4>4
        <3>3. QED
            BY <1>5, <3>1, <3>2 DEF Proposes
    <2> DEFINE Known(x) == x = s \/ \E v \in Users : x \in shown[v]
    \* Any two candidates known after the step are told apart by their numbers.
    <2>5. ASSUME NEW u \in Users, NEW t \in shown[u]
          PROVE  /\ t.id \in Nat /\ t.base \in Nat
                 /\ t.id <= created /\ t.base <= plan.revision
                 /\ t.id = s.id => t = s
                 /\ \A j \in DOMAIN previews : previews[j].id = t.id => previews[j] = t
                 /\ \A v \in Users : \A x \in shown[v] : t.id = x.id => t = x
        <3>1. t.id \in Nat /\ t.base \in Nat
            BY ShownType
        <3>2. /\ t.id <= created /\ t.base <= plan.revision
              /\ \A j \in DOMAIN previews : previews[j].id = t.id => previews[j] = t
              /\ \A v \in Users : \A x \in shown[v] : t.id = x.id => t = x
            BY DEF Identified
        <3>3. t.id = s.id => t = s
            BY <1>3, <2>3, <2>4, <3>1, <3>2
        <3>4. QED
            BY <3>1, <3>2, <3>3
    <2>6. ASSUME NEW j \in DOMAIN previews, previews[j].id = s.id
          PROVE  previews[j] = s
        <3>1. previews[j].id \in Nat /\ previews[j].id <= created
            BY StoredType, CandidateFields, NumberTypes DEF Numbered
        <3>2. PICK i \in DOMAIN previews : previews[i] = s
            BY <1>3, <2>3, <2>4, <2>6, <3>1
        <3>3. \A k, l \in DOMAIN previews : k < l => previews[k].id < previews[l].id
            BY DEF TypeOK
        <3>4. i \in Nat /\ j \in Nat
            BY DEF TypeOK
        <3>5. i = j
            BY <2>3, <2>6, <3>2, <3>3, <3>4
        <3>6. QED
            BY <3>2, <3>5
    <2>7. ASSUME NEW u \in Users, NEW t \in shown'[u]
          PROVE  /\ t.id <= created' /\ t.base <= plan'.revision
                 /\ \A i \in DOMAIN previews' : previews'[i].id = t.id => previews'[i] = t
                 /\ \A v \in Users : \A x \in shown'[v] : t.id = x.id => t = x
        <3>1. t = s \/ t \in shown[u]
            BY <2>2
        <3>2. t.id <= created' /\ t.base <= plan'.revision
            BY <1>3, <2>1, <2>4, <2>5, <3>1
        <3>3. ASSUME NEW i \in DOMAIN previews', previews'[i].id = t.id
              PROVE  previews'[i] = t
            <4>1. previews'[i] = s \/ \E j \in DOMAIN previews : previews'[i] = previews[j]
                BY <2>4
            <4>2. QED
                BY <2>5, <2>6, <3>1, <3>3, <4>1
        <3>4. ASSUME NEW v \in Users, NEW x \in shown'[v], t.id = x.id
              PROVE  t = x
            <4>1. x = s \/ x \in shown[v]
                BY <2>2
            <4>2. QED
                BY <2>5, <3>1, <3>4, <4>1
        <3>5. QED
            BY <3>2, <3>3, <3>4
    <2>8. Identified'
        <3>1. \A u \in Users : view'[u] <= plan'.revision
            BY <2>1, <2>4 DEF Identified
        <3>2. QED
            BY <2>7, <3>1 DEF Identified
    <2>9. ASSUME NEW u \in Users, NEW k \in candidates'[u]
          PROVE  k.op.kind = "recalculate" /\ Names(u, k.id, k.op.key)'
        <3>1. CASE k \in candidates[u]
            BY <1>1, <3>1 DEF Held, Names, Grows
        <3>2. CASE k \notin candidates[u]
            <4>1. calls[c].kind = "recalculate" /\ s.base = calls[c].base /\ Offer(c, s)
                BY <1>5, <3>2 DEF Proposes
            <4>2. /\ calls[c].awaited /\ u = calls[c].user /\ k.op = calls[c].op
                  /\ k.id = s.id
                BY <2>1, <3>2, <4>1, OfferEffect
            <4>3. k.op.kind = "recalculate" /\ k.op.key = calls[c].base
                BY <2>1, <4>1, <4>2 DEF Requested, MadeOn
            <4>4. s \in shown'[u]
                BY <2>2, <4>2
            <4>5. QED
                BY <4>1, <4>2, <4>3, <4>4 DEF Names
        <3>3. QED
            BY <3>1, <3>2
    <2>10. Held'
        BY <2>9 DEF Held, Names
    <2>11. QED
        BY <2>8, <2>10
<1>6. QED
    BY <1>4, <1>5, KnownCandidates

-----------------------------------------------------------------------------
(* Commits and answers.                                                    *)

LEMMA Changes ==
    ASSUME Reviewed, [Next]_vars
    PROVE  \/ \E c \in Calls : Commit(c)
           \/ /\ receipts' = receipts
              /\ UNCHANGED <<plan, offered>> \/ OtherWrite \/ Restart
              /\ told' = told \/ \E c \in Calls : Refuses(c)
<1> USE DEF Reviewed, Typed
<1> DEFINE Same ==
        /\ receipts' = receipts
        /\ UNCHANGED <<plan, offered>> \/ OtherWrite \/ Restart
        /\ told' = told \/ \E c \in Calls : Refuses(c)
<1>1. ASSUME NEW c \in Calls, Asks(c)
      PROVE  Same
    BY <1>1 DEF Asks, server
<1>2. ASSUME NEW u \in Users, Refresh(u)
      PROVE  Same
    BY <1>2 DEF Refresh, server
<1>3. ASSUME NEW c \in Calls, GiveUp(c) \/ Vanish(c)
      PROVE  Same
    BY <1>3 DEF GiveUp, Vanish, server, browsers
<1>4. ASSUME NEW c \in Calls, Captures(c)
      PROVE  Same
    BY <1>4 DEF Captures, server, browsers
<1>5. ASSUME NEW c \in Calls, Calculates(c)
      PROVE  Same
    BY <1>5 DEF Calculates, Staged, server, browsers
<1>6. ASSUME NEW c \in Calls, Refuses(c)
      PROVE  Same
    BY <1>6 DEF Refuses, server
<1>7. ASSUME NEW c \in Calls, NEW s \in Candidates, Proposes(c, s)
      PROVE  Same
    BY <1>7, PutEffect DEF Proposes, server
<1>8. ASSUME Expire \/ OtherWrite \/ Restart
      PROVE  Same
    BY <1>8, OtherWriteEffect, RestartEffect DEF Expire, browsers
<1>9. ASSUME UNCHANGED vars
      PROVE  Same
    BY <1>9 DEF vars
<1> HIDE DEF Same
<1>10. Same \/ \E c \in Calls : Commit(c)
    BY <1>1, <1>2, <1>3, <1>4, <1>5, <1>6, <1>7, <1>8, <1>9, Steps
<1>11. QED
    BY <1>10 DEF Same

(* An operation is made on one revision.                                   *)
LEMMA OneRevision ==
    ASSUME Reviewed, NEW op \in Operations, NEW b, NEW d, MadeOn(op, b), MadeOn(op, d)
    PROVE  b = d
<1>1. op.user \in Users
    BY OperationFields
<1>2. CASE op.kind = "apply"
    BY <1>1, <1>2 DEF Reviewed, Identified, MadeOn
<1>3. CASE op.kind # "apply"
    BY <1>3 DEF MadeOn
<1>4. QED
    BY <1>2, <1>3

LEMMA NextReceipted ==
    ASSUME Reviewed, [Next]_vars, Typed'
    PROVE  Receipted'
<1> USE DEF Reviewed, Typed
<1> SUFFICES ASSUME NEW d \in Calls, AtServer(d)', calls'[d].kind # "simulate",
                    NEW r \in receipts', r.op = calls'[d].op
             PROVE  calls'[d].from.revision <= calls'[d].base
    BY DEF Receipted
<1>1. calls'[d] # Nothing /\ calls'[d].at # "sent"
    BY DEF AtServer
<1>2. CASE AtServer(d) /\ SameRequest(d) /\ calls'[d].from = calls[d].from
    <2>1. /\ calls[d] # Nothing /\ calls[d].kind # "simulate" /\ r.op = calls[d].op
          /\ calls'[d].base = calls[d].base
        BY <1>2 DEF SameRequest, AtServer
    <2>2. CASE r \in receipts
        BY <1>2, <2>1, <2>2 DEF Receipted
    <2>3. ASSUME NEW c \in Calls, Commit(c), r \notin receipts
          PROVE  calls[d].from.revision <= calls[d].base
        <3>1. /\ calls[c] # Nothing /\ Sound(c, calls[c].result) /\ r.op = calls[c].op
              /\ calls[c].base = plan.revision
            BY <2>3, CommitEffect
        <3>2. MadeOn(r.op, calls[c].base)
            BY <3>1 DEF Requested, Sound
        <3>3. MadeOn(r.op, calls[d].base) /\ r.op \in Operations
            BY <2>1, CallFields DEF Requested
        <3>4. calls[d].base = plan.revision
            BY <3>1, <3>2, <3>3, OneRevision
        <3>5. calls[d].from.revision <= plan.revision
            BY <1>2 DEF Staging
        <3>6. QED
            BY <3>4, <3>5
    <2>4. QED
        BY <1>2, <2>1, <2>2, <2>3, Changes
<1>3. CASE Captures(d)
    <2>1. /\ calls[d] # Nothing /\ calls'[d].from = plan /\ SameRequest(d)
          /\ receipts' = receipts
        BY <1>3, CaptureEffect DEF Captures, Reading, server
    <2>2. calls[d].kind # "simulate" /\ r \in receipts /\ r.op = calls[d].op
        BY <2>1 DEF SameRequest
    <2>3. ReceiptAnswer(d) = "none"
        BY <1>3, <2>2 DEF Captures
    <2>4. QED
        BY <2>2, <2>3 DEF ReceiptAnswer
<1>4. CASE Calculates(d)
    <2>1. AtServer(d) /\ SameRequest(d) /\ calls'[d].from = calls[d].from
        BY <1>4, StagedEffect DEF Calculates, Reading, AtServer
    <2>2. QED
        BY <2>1, <1>2
<1>5. CASE Goes(d)
    BY <1>1, <1>2, <1>5 DEF Goes, AtServer
<1>6. ~Asks(d)
    BY <1>1 DEF Asks
<1>7. AllGo => Goes(d)
    BY <1>1 DEF AllGo
<1>8. \A c \in Calls : OthersGo(c) /\ c # d => Goes(d)
    BY <1>1 DEF OthersGo
<1>9. QED
    BY <1>3, <1>4, <1>5, <1>6, <1>7, <1>8, StepEffect

LEMMA NextSavedPlan ==
    ASSUME Reviewed, [Next]_vars, Typed'
    PROVE  SavedPlan'
<1> USE DEF Reviewed, Typed
<1>1. plan.revision \in Nat /\ plan \in States /\ plan.saved \in Saved
    BY RevisionType, StateFields
<1>2. plan.saved # Nothing => plan.saved.revision \in Nat
    BY <1>1, SavedFields, NumberTypes
<1>3. CASE UNCHANGED <<plan, offered>>
    BY <1>3 DEF SavedPlan
<1>4. ASSUME plan'.revision = plan.revision + 1, plan'.saved = plan.saved
      PROVE  SavedPlan'
    BY <1>1, <1>2, <1>4 DEF SavedPlan
<1>5. ASSUME plan'.revision = plan.revision + 1, plan'.saved.revision = plan.revision,
             plan'.saved.content = plan.content, offered' = plan.content
      PROVE  SavedPlan'
    BY <1>1, <1>5 DEF SavedPlan
<1>6. ASSUME plan'.saved = Nothing
      PROVE  SavedPlan'
    BY <1>6 DEF SavedPlan
<1>7. CASE OtherWrite
    BY <1>4, <1>5, <1>6, <1>7, OtherWriteEffect
<1>8. CASE Restart
    BY <1>6, <1>8, RestartEffect
<1>9. ASSUME NEW c \in Calls, Commit(c)
      PROVE  SavedPlan'
    <2>1. /\ calls[c] # Nothing /\ calls[c].from = plan
          /\ plan'.revision = plan.revision + 1 /\ plan'.saved = SavedBy(c)
          /\ calls[c].kind = "apply" => offered' = plan.content
        BY <1>9, CommitEffect
    <2>2. CASE calls[c].kind = "apply"
        <3>1. /\ plan'.saved.revision = plan.revision
              /\ plan'.saved.content = plan.content
            BY <2>1, <2>2 DEF SavedBy, SaveCurrent
        <3>2. QED
            BY <1>5, <2>1, <2>2, <3>1
    <2>3. CASE calls[c].kind = "revert"
        BY <1>6, <2>1, <2>3 DEF SavedBy
    <2>4. CASE calls[c].kind # "apply" /\ calls[c].kind # "revert"
        BY <1>4, <2>1, <2>4 DEF SavedBy
    <2>5. QED
        BY <2>2, <2>3, <2>4
<1>10. QED
    BY <1>3, <1>7, <1>8, <1>9, Changes

LEMMA NextOutOfDate ==
    ASSUME Reviewed, [Next]_vars, Typed'
    PROVE  OutOfDate'
<1> USE DEF Reviewed, Typed
<1>1. Grows
    BY StepEffect
<1>2. plan.revision \in Nat /\ plan'.revision \in Nat /\ plan.revision <= plan'.revision
    BY <1>1, RevisionType, NumberTypes, StateFields DEF Grows, TypeOK
<1>3. ASSUME NEW op \in Operations, NEW b \in Revisions, b < plan.revision, MadeOn(op, b)
      PROVE  b < plan'.revision /\ MadeOn(op, b)'
    BY <1>1, <1>2, <1>3, NumberTypes, OperationFields DEF Grows, MadeOn
<1> SUFFICES ASSUME NEW t \in told', t.answer = "stale"
             PROVE  \E b \in Revisions : b < plan'.revision /\ MadeOn(t.op, b)'
    BY DEF OutOfDate, MadeOn
<1>4. t.op \in Operations
    BY DEF TypeOK, Answers
<1>5. CASE t \in told
    BY <1>3, <1>4, <1>5 DEF OutOfDate
<1>6. ASSUME NEW c \in Calls, Refuses(c), t \notin told
      PROVE  \E b \in Revisions : b < plan.revision /\ MadeOn(t.op, b)
    <2>1. PICK a : Tell(c, a) /\ (a = "stale" => Late(c))
        BY <1>6 DEF Refuses
    <2>2. t.op = calls[c].op /\ t.answer = a /\ calls[c] # Nothing
        BY <1>6, <2>1, TellEffect DEF Refuses
    <2>3. calls[c].kind # "simulate" /\ calls[c].base < plan.revision
        BY <2>1, <2>2 DEF Late
    <2>4. MadeOn(t.op, calls[c].base) /\ calls[c].base \in Revisions
        BY <2>2, <2>3, CallFields DEF Requested
    <2>5. QED
        BY <2>3, <2>4
<1>7. ASSUME NEW c \in Calls, Commit(c)
      PROVE  t \in told
    BY <1>7, CommitEffect, TellEffect
<1>8. QED
    BY <1>3, <1>4, <1>5, <1>6, <1>7, Changes

LEMMA NextStale ==
    ASSUME Reviewed, [Next]_vars, Typed'
    PROVE  StaleAnswersAreTrue'
<1> USE DEF Reviewed, Typed
<1> SUFFICES ASSUME NEW t \in told', t.answer = "stale", NEW r \in receipts'
             PROVE  r.op # t.op
    BY DEF StaleAnswersAreTrue
<1>1. plan.revision \in Nat
    BY RevisionType
<1>2. CASE receipts' = receipts /\ told' = told
    BY <1>2 DEF StaleAnswersAreTrue
<1>3. ASSUME NEW c \in Calls, Refuses(c), receipts' = receipts
      PROVE  r.op # t.op
    <2>1. PICK a : Tell(c, a) /\ (a = "stale" => Late(c))
        BY <1>3 DEF Refuses
    <2>2. CASE t \in told
        BY <1>3, <2>2 DEF StaleAnswersAreTrue
    <2>3. CASE t \notin told
        <3>1. t.op = calls[c].op /\ t.answer = a
            BY <1>3, <2>1, <2>3, TellEffect DEF Refuses
        <3>2. QED
            BY <1>3, <2>1, <3>1 DEF Late
    <2>4. QED
        BY <2>2, <2>3
<1>4. ASSUME NEW c \in Calls, Commit(c)
      PROVE  r.op # t.op
    <2>1. /\ calls[c] # Nothing /\ Sound(c, calls[c].result) /\ Tell(c, "applied")
          /\ calls[c].base = plan.revision
          /\ r \notin receipts => r.op = calls[c].op
        BY <1>4, CommitEffect
    <2>2. t \in told
        BY <2>1, TellEffect
    <2>3. CASE r \in receipts
        BY <2>2, <2>3 DEF StaleAnswersAreTrue
    <2>4. CASE r \notin receipts /\ r.op = t.op
        <3>1. PICK b \in Revisions : b < plan.revision /\ MadeOn(t.op, b)
            BY <2>2 DEF OutOfDate
        <3>2. MadeOn(t.op, calls[c].base) /\ t.op \in Operations
            BY <2>1, <2>4, CallFields DEF Requested, Sound
        <3>3. b = plan.revision
            BY <2>1, <3>1, <3>2, OneRevision
        <3>4. QED
            BY <1>1, <3>1, <3>3
    <2>5. QED
        BY <2>1, <2>3, <2>4
<1>5. QED
    BY <1>2, <1>3, <1>4, Changes

-----------------------------------------------------------------------------
(* The invariant and what follows from it.                                 *)

LEMMA InitReviewed == Init => Reviewed
<1> SUFFICES ASSUME Init PROVE Reviewed
    OBVIOUS
<1>1. Typed
    BY InitTyped
<1>2. /\ plan.revision = 0 /\ plan.saved = Nothing
      /\ \A c \in Calls : calls[c] = Nothing
      /\ \A u \in Users : shown[u] = {} /\ candidates[u] = {} /\ view[u] = 0
      /\ told = {} /\ receipts = {}
    BY DEF Init, FirstState
<1>3. QED
    BY <1>1, <1>2
    DEF Reviewed, Identified, Held, Requested, Staging, Calculated, Reading, AtServer,
        SavedPlan, OutOfDate, Receipted, StaleAnswersAreTrue

LEMMA NextReviewed == Reviewed /\ [Next]_vars => Reviewed'
<1> SUFFICES ASSUME Reviewed, [Next]_vars PROVE Reviewed'
    OBVIOUS
<1>1. Typed'
    BY NextTyped
<1>2. QED
    BY <1>1, NextIdentified, NextRequested, NextStaging, NextCalculated, NextSavedPlan,
       NextOutOfDate, NextReceipted, NextStale DEF Reviewed

THEOREM AlwaysReviewed == Spec => []Reviewed
BY InitReviewed, NextReviewed, PTL DEF Spec

(* The variables have their types; the store keeps its limit and its order. *)
THEOREM ReviewTypes == Spec => []TypeOK
<1>1. Reviewed => TypeOK
    BY DEF Reviewed, Typed
<1>2. QED
    BY <1>1, AlwaysReviewed, PTL

(* A browser told that its operation is out of date can believe it, for any *)
(* number of browsers, of attempts and of restarts.                        *)
THEOREM StaleMeansNotApplied == Spec => []StaleAnswersAreTrue
<1>1. Reviewed => StaleAnswersAreTrue
    BY DEF Reviewed
<1>2. QED
    BY <1>1, AlwaysReviewed, PTL

(* A request that disappears as the revision moves was committed.          *)
LEMMA OnlyCommits ==
    ASSUME Reviewed, [Next]_vars, NEW c \in Calls, Commits(c)
    PROVE  Commit(c)
<1> USE DEF Reviewed, Typed
<1>1. /\ calls[c] # Nothing /\ calls'[c] = Nothing
      /\ plan'.revision = plan.revision + 1 /\ plan.revision \in Nat
    BY RevisionType DEF Commits
<1>2. ~OtherWrite
    BY <1>1, OtherWriteEffect
<1>3. ~Restart
    BY <1>1, RestartEffect
<1>4. plan' # plan
    BY <1>1
<1>5. PICK d \in Calls : Commit(d)
    BY <1>2, <1>3, <1>4, Changes
<1>6. \A e \in Calls \ {d} : calls'[e] = calls[e]
    BY <1>5, CommitEffect, TellEffect
<1>7. c = d
    BY <1>1, <1>6
<1>8. QED
    BY <1>5, <1>7

(* simulate-apply and the recalculations commit only the plan the planner  *)
(* was shown, and no result that needs an approval without one, whatever   *)
(* previews the store evicts and whatever requests are repeated.           *)
THEOREM OnlyWhatWasShown == Spec => AppliedAsShown
<1> DEFINE Step == \A c \in Calls : Commits(c) /\ calls[c].kind # "revert" =>
         /\ plan'.content \in NeedsApproval => calls[c].approve
         /\ calls[c].kind = "apply" \/ plan'.content \in NeedsApproval =>
              \E s \in shown[calls[c].user] :
                s.result = plan'.content /\ s.base = plan.revision
<1>1. Reviewed /\ [Next]_vars => [Step]_vars
    <2> SUFFICES ASSUME Reviewed, [Next]_vars, NEW c \in Calls, Commits(c),
                        calls[c].kind # "revert"
                 PROVE  /\ plan'.content \in NeedsApproval => calls[c].approve
                        /\ calls[c].kind = "apply" \/ plan'.content \in NeedsApproval =>
                             \E s \in shown[calls[c].user] :
                               s.result = plan'.content /\ s.base = plan.revision
        OBVIOUS
    <2>1. Commit(c)
        BY OnlyCommits
    <2>2. /\ Sound(c, calls[c].result) /\ calls[c].from = plan
          /\ plan'.content = calls[c].result
        BY <2>1, CommitEffect
    <2>3. QED
        BY <2>2 DEF Sound, WasShown
<1>2. QED
    BY <1>1, AlwaysReviewed, PTL DEF Spec, AppliedAsShown

(* A revert (_revert_simulation_locked) undoes the last change and no      *)
(* other: it restores what that change replaced, and that change was an    *)
(* application, a move by hand or a promise, whatever was written, loaded, *)
(* reverted or restarted in between and by whom.                           *)
THEOREM RevertsTheLastChange == Spec => RevertUndoesTheLastChange
<1> DEFINE Step == \A c \in Calls : Commits(c) /\ calls[c].kind = "revert" =>
         plan'.content = offered
<1>1. Reviewed /\ [Next]_vars => [Step]_vars
    <2> SUFFICES ASSUME Reviewed, [Next]_vars, NEW c \in Calls, Commits(c),
                        calls[c].kind = "revert"
                 PROVE  plan'.content = offered
        OBVIOUS
    <2>1. Commit(c)
        BY OnlyCommits
    <2>2. /\ Sound(c, calls[c].result) /\ calls[c].from = plan
          /\ plan'.content = calls[c].result
        BY <2>1, CommitEffect
    <2>3. /\ calls[c].result = plan.saved.content
          /\ plan.saved # Nothing /\ plan.revision = plan.saved.revision + 1
        BY <2>2 DEF Sound, Undoes, Revertible
    <2>4. QED
        BY <2>2, <2>3 DEF Reviewed, SavedPlan
<1>2. QED
    BY <1>1, AlwaysReviewed, PTL DEF Spec, RevertUndoesTheLastChange
=============================================================================
