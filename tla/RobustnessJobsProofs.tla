------------------------- MODULE RobustnessJobsProofs -------------------------
(***************************************************************************)
(* Proofs about RobustnessJobs, for every number of analyses, writers,     *)
(* schedules, scenarios and restarts, and for any bounds.                  *)
(***************************************************************************)
EXTENDS RobustnessJobs, TLAPS, FiniteSetTheorems

USE SubmittersAssumption, SizesAssumption, BoundsAssumption, JobsAssumption, ContentsAssumption

-----------------------------------------------------------------------------
(* The type invariant, a part for each group of variables.                 *)

PlanTyped ==
    /\ published \in Seq(Contents) /\ published # <<>> /\ Revision <= MaxRevision + 1
    /\ day \in 0..MaxDay /\ missed \in BOOLEAN
ServerTyped == process \in 1..(MaxProcesses + 1) /\ up \in BOOLEAN /\ closed \in BOOLEAN
RowsTyped ==
    /\ rows \in [Jobs -> Analyses \cup {NoRow}]
    /\ \A j \in Table : rows[j].rev <= Revision /\ rows[j].process <= process
CapturesTyped ==
    /\ snapshots \in [Submitters -> Captures \cup {NoSnapshot}]
    /\ \A s \in Submitters : OnItsWay(s) => snapshots[s].rev \in 1..Revision
    /\ refreshing \in BOOLEAN
    /\ managerLock \in Submitters \cup {Nobody}
    /\ \A s \in Submitters : snapshots[s].at = "rebinding" <=> managerLock = s
ThreadsTyped ==
    /\ step \in [Jobs -> Steps]
    /\ events \subseteq Jobs /\ signalled \subseteq events /\ told \subseteq Jobs
ScopesTyped == depth \in [Writers -> 0..MaxDepth] /\ active \in Nat

Typed == PlanTyped /\ ServerTyped /\ RowsTyped /\ CapturesTyped /\ ThreadsTyped /\ ScopesTyped

(* The rows are numbered as they were created, and one is the newest.      *)
Numbered ==
    /\ \A j \in Table : rows[j].created <= Cardinality(Table)
    /\ \A j, k \in Table : rows[j].created = rows[k].created => j = k
    /\ HasLatest => \E j \in Automatic : \A k \in Automatic : rows[k].created <= rows[j].created

(* A capture on its way is of the plan of its revision.                    *)
Carried ==
    \A s \in Submitters :
        OnItsWay(s) => snapshots[s].content = published[snapshots[s].rev]

(* Between the comparison and the rebinding the newest analysis stays the  *)
(* one that was compared, older than the capture and with its inputs.      *)
Rebinding ==
    \A s \in Submitters : snapshots[s].at = "rebinding" =>
        /\ HasLatest
        /\ rows[Latest].content = snapshots[s].content
        /\ rows[Latest].rev < snapshots[s].rev

Bound ==
    \A j \in Automatic : rows[j].rev \in 1..Revision /\ rows[j].content = published[rows[j].rev]

(* The published revision has its analysis, or a capture of it is on its   *)
(* way, or is known to be lost.                                            *)
Accounted ==
    up /\ ~missed =>
        \/ HasLatest /\ rows[Latest].rev = Revision
        \/ \E s \in Submitters : OnItsWay(s) /\ snapshots[s].rev = Revision

(* Only outermost scopes count, and each one once.                         *)
Counted == active = Cardinality({w \in Writers : depth[w] > 0})

(* A battery that was taken for complete ran all its scenarios.            *)
Batteries ==
    \A j \in Jobs : /\ step[j].at = "completed" => step[j].done = Samples
                    /\ step[j].at = "replaying" => step[j].done < Samples

Ended ==
    \A j \in Jobs : /\ rows[j].status = "completed" => rows[j].whole
                    /\ j \in told => rows[j].status \in {"cancelling", "cancelled"}

-----------------------------------------------------------------------------
(* The rows.                                                               *)

LEMMA TypedParts == TypeOK <=> Typed
BY DEF TypeOK, Typed, PlanTyped, ServerTyped, RowsTyped, CapturesTyped, ThreadsTyped, ScopesTyped

LEMMA RowIsAnalysis ==
    ASSUME RowsTyped, NEW j \in Table
    PROVE  /\ j \in Jobs /\ rows[j] \in Analyses
           /\ rows[j].rev \in Nat /\ rows[j].created \in Nat /\ rows[j].content \in Contents
           /\ rows[j].status \in Active \cup Terminal
BY DEF RowsTyped, Table, Analyses

LEMMA UnusedHasNoStatus ==
    ASSUME RowsTyped, NEW j \in Jobs
    PROVE  /\ rows[j].status = "unused" <=> rows[j] = NoRow
           /\ rows[j].status \in {"unused"} \cup Active \cup Terminal
<1>1. NoRow.status = "unused"
    BY DEF NoRow
<1>2. rows[j] = NoRow \/ rows[j] \in Analyses
    BY DEF RowsTyped
<1>3. \A r \in Analyses : r.status \in Active \cup Terminal
    BY DEF Analyses
<1>4. "unused" \notin Active \cup Terminal
    BY DEF Active, Terminal
<1>5. QED
    BY <1>1, <1>2, <1>3, <1>4

(* The newest analysis is one, and no other.                               *)
LEMMA LatestIsNewest ==
    ASSUME Numbered, HasLatest
    PROVE  Latest \in Automatic /\ \A k \in Automatic : rows[k].created <= rows[Latest].created
BY DEF Numbered, Latest

LEMMA NewestIsLatest ==
    ASSUME RowsTyped, Numbered, NEW j \in Automatic,
           \A k \in Automatic : rows[k].created <= rows[j].created
    PROVE  HasLatest /\ Latest = j
<1>1. HasLatest
    BY DEF HasLatest
<1>2. Latest \in Automatic /\ rows[Latest].created <= rows[j].created
      /\ rows[j].created <= rows[Latest].created
    BY <1>1, LatestIsNewest
<1>3. Latest \in Table /\ j \in Table
    BY <1>2 DEF Automatic
<1>4. rows[Latest].created \in Nat /\ rows[j].created \in Nat
    BY <1>3, RowIsAnalysis
<1>5. Latest = j
    BY <1>2, <1>3, <1>4 DEF Numbered
<1>6. QED
    BY <1>1, <1>5

-----------------------------------------------------------------------------
(* A step of an analysis, or a request to cancel it: only the status and   *)
(* what the battery left change.                                           *)
Touches(after) ==
    /\ after \in [Jobs -> Analyses \cup {NoRow}]
    /\ \A j \in Jobs :
          /\ after[j] = NoRow <=> rows[j] = NoRow
          /\ rows[j] # NoRow =>
                /\ after[j].trigger = rows[j].trigger /\ after[j].rev = rows[j].rev
                /\ after[j].content = rows[j].content /\ after[j].day = rows[j].day
                /\ after[j].process = rows[j].process /\ after[j].created = rows[j].created
Touched == Touches(rows')

(* The transitions of update.                                              *)
Becomes(j, s, whole) ==
    /\ Touched
    /\ \A k \in Jobs \ {j} : rows'[k] = rows[k]
    /\ \/ rows'[j] = rows[j]
       \/ /\ rows[j].status \in (IF s = "running" THEN {"queued"} ELSE Active)
          /\ rows'[j].status = IF s \in {"completed", "failed"} /\ rows[j].status = "cancelling"
                               THEN "cancelled" ELSE s
          /\ rows'[j].whole = whole

LEMMA NothingTouched ==
    ASSUME RowsTyped, rows' = rows
    PROVE  Touched
BY DEF RowsTyped, Touched, Touches

LEMMA UpdatedEffect ==
    ASSUME RowsTyped, NEW j \in Jobs, NEW s \in {"running", "completed", "cancelled", "failed"},
           NEW whole \in BOOLEAN, rows' = Updated(j, s, whole)
    PROVE  Becomes(j, s, whole)
<1>1. CASE rows[j].status \notin (IF s = "running" THEN {"queued"} ELSE Active)
    <2>1. rows' = rows
        BY <1>1 DEF Updated
    <2>2. QED
        BY <2>1, NothingTouched DEF Becomes
<1>2. CASE rows[j].status \in (IF s = "running" THEN {"queued"} ELSE Active)
    <2> PICK v : v = IF s \in {"completed", "failed"} /\ rows[j].status = "cancelling"
                     THEN "cancelled" ELSE s
        OBVIOUS
    <2> PICK q : q = [rows[j] EXCEPT !.status = v, !.whole = whole]
        OBVIOUS
    <2>1. rows[j] # NoRow /\ rows[j] \in Analyses
        BY <1>2, UnusedHasNoStatus DEF RowsTyped, Active
    <2>2. v \in Active \cup Terminal
        BY DEF Active, Terminal
    <2>3. rows' = [rows EXCEPT ![j] = q]
        BY <1>2 DEF Updated, RowsTyped
    <2>4. /\ q \in Analyses /\ q # NoRow /\ q.status = v /\ q.whole = whole
          /\ q.trigger = rows[j].trigger /\ q.rev = rows[j].rev /\ q.content = rows[j].content
          /\ q.day = rows[j].day /\ q.process = rows[j].process /\ q.created = rows[j].created
        <3>1. /\ q \in Analyses /\ q.status = v /\ q.whole = whole
              /\ q.trigger = rows[j].trigger /\ q.rev = rows[j].rev /\ q.content = rows[j].content
              /\ q.day = rows[j].day /\ q.process = rows[j].process /\ q.created = rows[j].created
            BY <2>1, <2>2 DEF Analyses
        <3>2. QED
            BY <2>2, <3>1 DEF NoRow, Active, Terminal
    <2>5. rows'[j] = q /\ \A k \in Jobs \ {j} : rows'[k] = rows[k]
        BY <2>3 DEF RowsTyped
    <2>6. rows' \in [Jobs -> Analyses \cup {NoRow}]
        BY <2>3, <2>4 DEF RowsTyped
    <2>7. Touched
        BY <2>1, <2>4, <2>5, <2>6 DEF Touched, Touches
    <2>8. QED
        BY <1>2, <2>4, <2>5, <2>7 DEF Becomes
<1>3. QED
    BY <1>1, <1>2

LEMMA CancelEffect ==
    ASSUME RowsTyped, NEW J, NEW after, after = CancelRequested(J)
    PROVE  /\ Touches(after)
           /\ \A j \in Jobs : after[j] = rows[j] \/
                (/\ rows[j].status \in {"queued", "running"} /\ after[j].status = "cancelling")
           /\ \A j \in Jobs : rows[j].status \notin {"queued", "running"} => after[j] = rows[j]
<1>1. \A j \in Jobs : after[j] = IF j \in J /\ rows[j].status \in {"queued", "running"}
                                 THEN [rows[j] EXCEPT !.status = "cancelling"] ELSE rows[j]
    BY DEF CancelRequested
<1>2. after = [j \in Jobs |-> after[j]]
    BY DEF CancelRequested
<1>3. ASSUME NEW j \in Jobs, rows[j].status \in {"queued", "running"},
             after[j] = [rows[j] EXCEPT !.status = "cancelling"]
      PROVE  /\ rows[j] # NoRow /\ after[j] \in Analyses /\ after[j] # NoRow
             /\ after[j].status = "cancelling"
             /\ after[j].trigger = rows[j].trigger /\ after[j].rev = rows[j].rev
             /\ after[j].content = rows[j].content /\ after[j].day = rows[j].day
             /\ after[j].process = rows[j].process /\ after[j].created = rows[j].created
    <2>1. rows[j] # NoRow /\ rows[j] \in Analyses
        BY <1>3, UnusedHasNoStatus DEF RowsTyped
    <2>2. after[j].status = "cancelling" /\ after[j] \in Analyses
             /\ after[j].trigger = rows[j].trigger /\ after[j].rev = rows[j].rev
             /\ after[j].content = rows[j].content /\ after[j].day = rows[j].day
             /\ after[j].process = rows[j].process /\ after[j].created = rows[j].created
        BY <1>3, <2>1 DEF Analyses, Active
    <2>3. QED
        BY <2>1, <2>2 DEF NoRow
<1>4. \A j \in Jobs : after[j] \in Analyses \cup {NoRow}
    BY <1>1, <1>3 DEF RowsTyped
<1>5. Touches(after)
    BY <1>1, <1>2, <1>3, <1>4 DEF Touches
<1>6. QED
    BY <1>1, <1>3, <1>5

(* Then the order of the rows and the newest one are as they were.         *)
LEMMA TouchedKeeps ==
    ASSUME RowsTyped, Numbered, Touched
    PROVE  /\ Table' = Table /\ Automatic' = Automatic /\ HasLatest' = HasLatest
           /\ Latest' = Latest /\ Numbered'
<1>1. Table' = Table
    BY DEF Table, Touched, Touches
<1>2. Table \subseteq Jobs
    BY DEF Table
<1>3. \A j \in Table : rows'[j].trigger = rows[j].trigger /\ rows'[j].created = rows[j].created
    BY DEF Table, Touched, Touches
<1>4. Automatic' = Automatic /\ Automatic \subseteq Table
    BY <1>1, <1>3 DEF Automatic
<1>5. \A j \in Automatic : (\A k \in Automatic : rows'[k].created <= rows'[j].created)
                            <=> (\A k \in Automatic : rows[k].created <= rows[j].created)
    BY <1>3, <1>4
<1>6. HasLatest' = HasLatest
    BY <1>4 DEF HasLatest
<1>7. Latest' = Latest
    BY <1>4, <1>5 DEF Latest
<1>8. Numbered'
    BY <1>1, <1>3, <1>4, <1>5, <1>6 DEF Numbered
<1>9. QED
    BY <1>1, <1>4, <1>6, <1>7, <1>8

LEMMA TableIsFinite == IsFiniteSet(Table)
BY FS_Subset DEF Table

(* The start of an analysis.                                               *)
StartedRows(j, trigger, i) ==
    /\ rows' \in [Jobs -> Analyses \cup {NoRow}]
    /\ j \notin Table /\ Table' = Table \cup {j}
    /\ \A k \in Table :
          /\ rows'[k].trigger = rows[k].trigger /\ rows'[k].rev = rows[k].rev
          /\ rows'[k].content = rows[k].content /\ rows'[k].day = rows[k].day
          /\ rows'[k].process = rows[k].process /\ rows'[k].created = rows[k].created
    /\ \A k \in Jobs \ {j} : rows'[k] = rows[k] \/
          (/\ rows[k].status \in {"queued", "running"} /\ rows'[k].status = "cancelling")
    /\ rows'[j].trigger = trigger /\ rows'[j].rev = i.rev /\ rows'[j].content = i.content
    /\ rows'[j].process = process /\ rows'[j].created = Cardinality(Table) + 1
    /\ rows'[j].status \in {"failed", "queued"}

LEMMA StartedEffect ==
    ASSUME RowsTyped, ServerTyped, NEW j \in Jobs, NEW trigger \in Triggers, NEW i,
           i.rev \in Nat, i.content \in Contents, i.day \in 0..MaxDay, Started(j, trigger, i)
    PROVE  StartedRows(j, trigger, i)
<1> PICK cancelled : cancelled = IF trigger = "auto" THEN ActiveIds ELSE {}
    OBVIOUS
<1> PICK after : after = CancelRequested(cancelled)
    OBVIOUS
<1> DEFINE row == [status |-> IF closed THEN "failed" ELSE "queued", trigger |-> trigger,
                   rev |-> i.rev, content |-> i.content, day |-> i.day,
                   process |-> process, whole |-> FALSE, created |-> Cardinality(Table) + 1]
<1>1. rows[j] = NoRow /\ rows' = [after EXCEPT ![j] = row]
    BY DEF Started
<1>2. Cardinality(Table) + 1 \in Nat
    BY TableIsFinite, FS_CardinalityType
<1>3. /\ row \in Analyses /\ row.status \in {"failed", "queued"} /\ row.trigger = trigger
      /\ row.rev = i.rev /\ row.content = i.content
      /\ row.process = process /\ row.created = Cardinality(Table) + 1
    BY <1>2 DEF Analyses, ServerTyped, Active, Terminal
<1> HIDE DEF row
<1>4. row # NoRow
    BY <1>3 DEF NoRow
<1>5. /\ Touches(after)
      /\ \A k \in Jobs : after[k] = rows[k] \/
            (/\ rows[k].status \in {"queued", "running"} /\ after[k].status = "cancelling")
    BY CancelEffect
<1>6. rows'[j] = row /\ \A k \in Jobs \ {j} : rows'[k] = after[k]
    BY <1>1, <1>5 DEF Touches
<1>7. rows' \in [Jobs -> Analyses \cup {NoRow}]
    BY <1>1, <1>3, <1>5 DEF Touches
<1>8. j \notin Table /\ Table' = Table \cup {j}
    BY <1>1, <1>4, <1>5, <1>6 DEF Table, Touches
<1>9. \A k \in Table :
          /\ rows'[k].trigger = rows[k].trigger /\ rows'[k].rev = rows[k].rev
          /\ rows'[k].content = rows[k].content /\ rows'[k].day = rows[k].day
          /\ rows'[k].process = rows[k].process /\ rows'[k].created = rows[k].created
    BY <1>5, <1>6, <1>8 DEF Table, Touches
<1>10. QED
    BY <1>3, <1>5, <1>6, <1>7, <1>8, <1>9 DEF StartedRows

(* An automatic analysis becomes the newest; another leaves the newest one.*)
LEMMA StartedOrder ==
    ASSUME RowsTyped, RowsTyped', Numbered, NEW j \in Jobs, NEW trigger \in Triggers, NEW i,
           StartedRows(j, trigger, i)
    PROVE  /\ Numbered'
           /\ Automatic' = IF trigger = "auto" THEN Automatic \cup {j} ELSE Automatic
           /\ trigger = "auto" => HasLatest' /\ Latest' = j
           /\ trigger = "manual" => HasLatest' = HasLatest /\ Latest' = Latest
<1>1. /\ j \notin Table /\ Table' = Table \cup {j}
      /\ \A k \in Table : rows'[k].trigger = rows[k].trigger /\ rows'[k].created = rows[k].created
      /\ rows'[j].trigger = trigger /\ rows'[j].created = Cardinality(Table) + 1
    BY DEF StartedRows
<1>2. Cardinality(Table') = Cardinality(Table) + 1 /\ Cardinality(Table) \in Nat
    BY <1>1, TableIsFinite, FS_AddElement, FS_CardinalityType
<1>3. \A k \in Table : rows[k].created \in Nat /\ rows[k].created <= Cardinality(Table)
    BY RowIsAnalysis DEF Numbered
<1>4. Automatic' = IF trigger = "auto" THEN Automatic \cup {j} ELSE Automatic
    BY <1>1 DEF Automatic, Triggers
<1>5. \A k \in Table' : rows'[k].created <= Cardinality(Table')
    BY <1>1, <1>2, <1>3
<1>6. \A k, m \in Table' : rows'[k].created = rows'[m].created => k = m
    BY <1>1, <1>2, <1>3 DEF Numbered
<1>7. CASE trigger = "auto"
    <2>1. \A k \in Automatic' : rows'[k].created <= rows'[j].created
        BY <1>1, <1>2, <1>3, <1>4, <1>7 DEF Automatic
    <2>2. j \in Automatic'
        BY <1>4, <1>7
    <2>3. Numbered'
        BY <1>5, <1>6, <2>1, <2>2 DEF Numbered
    <2>4. HasLatest' /\ Latest' \in Automatic' /\ \A k \in Automatic' : rows'[k].created <= rows'[Latest'].created
        BY <2>1, <2>2 DEF HasLatest, Latest
    <2>5. Latest' \in Table' /\ j \in Table' /\ Automatic' \subseteq Table'
        BY <2>2, <2>4 DEF Automatic
    <2>6. rows'[Latest'].created \in Nat /\ rows'[j].created \in Nat
        BY <1>1, <1>2, <1>3, <2>5
    <2>7. Latest' = j
        BY <1>6, <2>1, <2>2, <2>4, <2>5, <2>6
    <2>8. QED
        BY <1>4, <1>7, <2>3, <2>4, <2>7
<1>8. CASE trigger = "manual"
    <2>1. Automatic' = Automatic /\ Automatic \subseteq Table
        BY <1>4, <1>8 DEF Automatic
    <2>2. \A k \in Automatic : (\A m \in Automatic : rows'[m].created <= rows'[k].created)
                               <=> (\A m \in Automatic : rows[m].created <= rows[k].created)
        BY <1>1, <2>1
    <2>3. HasLatest' = HasLatest
        BY <2>1 DEF HasLatest
    <2>4. Latest' = Latest
        BY <2>1, <2>2 DEF Latest
    <2>5. Numbered'
        BY <1>5, <1>6, <2>1, <2>2, <2>3 DEF Numbered
    <2>6. QED
        BY <1>4, <1>8, <2>3, <2>4, <2>5
<1>9. QED
    BY <1>7, <1>8 DEF Triggers

-----------------------------------------------------------------------------
(* The captures.                                                           *)

Sound == Numbered /\ Carried /\ Rebinding /\ Bound /\ Accounted

LEMMA RevisionIsPositive ==
    ASSUME PlanTyped
    PROVE  Revision \in Nat /\ Revision >= 1 /\ \A i \in 1..Revision : published[i] \in Contents
BY DEF PlanTyped, Revision

LEMMA CaptureIsTyped ==
    ASSUME CapturesTyped, NEW s \in Submitters, OnItsWay(s)
    PROVE  /\ snapshots[s] \in Captures /\ snapshots[s].rev \in 1..Revision
           /\ snapshots[s].rev \in Nat /\ snapshots[s].content \in Contents
           /\ snapshots[s].day \in 0..MaxDay /\ snapshots[s].at \in {"captured", "rebinding"}
BY DEF CapturesTyped, OnItsWay, Captures

LEMMA CapturedIsOnItsWay ==
    ASSUME NEW s \in Submitters, snapshots[s].at \in {"captured", "rebinding"}
    PROVE  OnItsWay(s)
BY DEF OnItsWay, NoSnapshot

LEMMA CapturedEffect ==
    ASSUME NEW i, i.rev \in Nat, i.content \in Contents, i.day \in 0..MaxDay,
           NEW q, q = Captured(i)
    PROVE  /\ q \in Captures /\ q # NoSnapshot /\ q.at = "captured"
           /\ q.rev = i.rev /\ q.content = i.content /\ q.day = i.day
BY DEF Captured, Captures, NoSnapshot

LEMMA ImageIsTyped ==
    ASSUME PlanTyped
    PROVE  /\ Image.rev = Revision /\ Image.rev \in Nat /\ Image.content = published[Revision]
           /\ Image.content \in Contents /\ Image.day \in 0..MaxDay
BY RevisionIsPositive DEF Image, PlanTyped

(* The end of a submission.                                                *)
LEMMA DoneEffect ==
    ASSUME CapturesTyped, NEW s \in Submitters, managerLock \in {Nobody, s}, Done(s),
           published' = published
    PROVE  /\ CapturesTyped'
           /\ snapshots'[s] = NoSnapshot /\ \A t \in Submitters \ {s} : snapshots'[t] = snapshots[t]
           /\ \A t \in Submitters : snapshots'[t].at # "rebinding"
<1>1. /\ snapshots' = [snapshots EXCEPT ![s] = NoSnapshot]
      /\ managerLock' = Nobody /\ refreshing' \in BOOLEAN
    BY DEF Done, CapturesTyped
<1>2. snapshots'[s] = NoSnapshot /\ \A t \in Submitters \ {s} : snapshots'[t] = snapshots[t]
    BY <1>1 DEF CapturesTyped
<1>3. \A t \in Submitters : snapshots'[t].at # "rebinding"
    BY <1>2 DEF CapturesTyped, NoSnapshot
<1>4. snapshots' \in [Submitters -> Captures \cup {NoSnapshot}]
    BY <1>1 DEF CapturesTyped
<1>5. \A t \in Submitters : OnItsWay(t)' => snapshots'[t].rev \in 1..Revision'
    BY <1>2 DEF CapturesTyped, OnItsWay, Revision
<1>6. CapturesTyped'
    BY <1>1, <1>3, <1>4, <1>5 DEF CapturesTyped
<1>7. QED
    BY <1>2, <1>3, <1>6

(* The other submissions carry what they carried.                          *)
LEMMA DoneCarried ==
    ASSUME CapturesTyped, Carried, NEW s \in Submitters, managerLock \in {Nobody, s}, Done(s),
           published' = published
    PROVE  Carried' /\ Rebinding'
<1>1. snapshots'[s] = NoSnapshot /\ \A t \in Submitters \ {s} : snapshots'[t] = snapshots[t]
    BY DoneEffect
<1>2. \A t \in Submitters : snapshots'[t].at # "rebinding"
    BY DoneEffect
<1>3. Carried'
    BY <1>1 DEF Carried, OnItsWay
<1>4. QED
    BY <1>2, <1>3 DEF Rebinding

-----------------------------------------------------------------------------
(* The steps that leave the plan and the captures.                         *)

LEMMA TouchedTyped ==
    ASSUME RowsTyped, Touched, Revision \in Nat, Revision' \in Nat, Revision <= Revision',
           process \in Nat, process' \in Nat, process <= process'
    PROVE  RowsTyped'
<1>1. rows' \in [Jobs -> Analyses \cup {NoRow}] /\ Table' = Table
    BY DEF Touched, Touches, Table
<1>2. \A j \in Table : /\ rows'[j].rev = rows[j].rev /\ rows'[j].process = rows[j].process
                        /\ rows[j].rev \in Nat /\ rows[j].process \in Nat
    BY DEF Touched, Touches, Table, RowsTyped, Analyses
<1>3. QED
    BY <1>1, <1>2 DEF RowsTyped

LEMMA SteadySound ==
    ASSUME PlanTyped, ServerTyped, RowsTyped, CapturesTyped, Sound, Touched,
           UNCHANGED <<published, missed, snapshots, managerLock, process, up>>
    PROVE  RowsTyped' /\ Sound'
<1>1. Revision' = Revision /\ Revision \in Nat /\ process \in Nat
    BY RevisionIsPositive DEF Revision, ServerTyped
<1>2. RowsTyped'
    BY <1>1, TouchedTyped
<1>3. /\ Table' = Table /\ Automatic' = Automatic /\ HasLatest' = HasLatest
      /\ Latest' = Latest /\ Numbered'
    BY TouchedKeeps DEF Sound
<1>4. \A j \in Automatic : rows'[j].rev = rows[j].rev /\ rows'[j].content = rows[j].content
    BY DEF Touched, Touches, Automatic, Table
<1>5. HasLatest => Latest \in Automatic
    BY LatestIsNewest DEF Sound
<1>6. Carried'
    BY <1>1 DEF Sound, Carried, OnItsWay
<1>7. Rebinding'
    BY <1>3, <1>4, <1>5 DEF Sound, Rebinding
<1>8. Bound'
    BY <1>1, <1>3, <1>4 DEF Sound, Bound
<1>9. Accounted'
    BY <1>1, <1>3, <1>4, <1>5 DEF Sound, Accounted, OnItsWay
<1>10. QED
    BY <1>2, <1>3, <1>6, <1>7, <1>8, <1>9 DEF Sound

-----------------------------------------------------------------------------
(* A capture of the published plan, at a commit, a refresh or a start.     *)

LEMMA CommitSound ==
    ASSUME PlanTyped, ServerTyped, RowsTyped, CapturesTyped, Sound,
           NEW w \in Writers, NEW k \in Contents, Commit(w, k)
    PROVE  PlanTyped' /\ RowsTyped' /\ CapturesTyped' /\ Sound'
<1> DEFINE i == [rev |-> Revision + 1, content |-> k, day |-> day]
<1>1. /\ ~OnItsWay(w) /\ Revision < MaxRevision /\ published' = Append(published, k)
      /\ UNCHANGED <<day, rows, process, up, closed, refreshing, managerLock>>
      /\ w \in Submitters
    BY DEF Commit, OnItsWay, server, Submitters
<1>2. Revision \in Nat /\ Revision >= 1
    BY RevisionIsPositive
<1>3. /\ published' \in Seq(Contents) /\ published' # <<>> /\ Revision' = Revision + 1
      /\ published'[Revision + 1] = k
      /\ \A n \in 1..Revision : published'[n] = published[n]
    BY <1>1 DEF PlanTyped, Revision
<1>4. missed' \in BOOLEAN
    BY DEF Commit
<1>5. PlanTyped'
    BY <1>1, <1>2, <1>3, <1>4 DEF PlanTyped
<1>6. Touched
    BY <1>1, NothingTouched
<1>7. RowsTyped'
    BY <1>1, <1>2, <1>3, <1>6, TouchedTyped DEF ServerTyped
<1>8. /\ Table' = Table /\ Automatic' = Automatic /\ HasLatest' = HasLatest
      /\ Latest' = Latest /\ Numbered'
    BY <1>6, TouchedKeeps DEF Sound
<1>9. Bound'
    <2>1. SUFFICES ASSUME NEW j \in Automatic'
                   PROVE  rows'[j].rev \in 1..Revision' /\ rows'[j].content = published'[rows'[j].rev]
        BY DEF Bound
    <2>2. rows'[j] = rows[j] /\ rows[j].rev \in 1..Revision /\ rows[j].content = published[rows[j].rev]
        BY <1>1, <1>8 DEF Sound, Bound
    <2>3. QED
        BY <1>2, <1>3, <2>2
<1>10. \A s \in Submitters : OnItsWay(s) =>
          snapshots[s].rev \in 1..Revision /\ snapshots[s].content = published[snapshots[s].rev]
    BY CaptureIsTyped DEF Sound, Carried
<1>11. CASE snapshots' = snapshots /\ missed'
    <2>1. CapturesTyped'
        BY <1>1, <1>2, <1>3, <1>10, <1>11 DEF CapturesTyped, OnItsWay
    <2>2. Carried'
        BY <1>3, <1>10, <1>11 DEF Carried, OnItsWay
    <2>3. Rebinding'
        BY <1>1, <1>8, <1>11 DEF Sound, Rebinding
    <2>4. Accounted'
        BY <1>11 DEF Accounted
    <2>5. QED
        BY <1>5, <1>7, <1>8, <1>9, <2>1, <2>2, <2>3, <2>4 DEF Sound
<1>12. CASE snapshots' = [snapshots EXCEPT ![w] = Captured(i)]
    <2> PICK q : q = Captured(i)
        OBVIOUS
    <2>1. i.rev = Revision + 1 /\ i.content = k /\ i.day = day /\ i.rev \in Nat /\ i.day \in 0..MaxDay
        BY <1>2 DEF PlanTyped
    <2>2. /\ q \in Captures /\ q # NoSnapshot /\ q.at = "captured"
          /\ q.rev = Revision + 1 /\ q.content = k
        BY <2>1, CapturedEffect
    <2>3. /\ snapshots' \in [Submitters -> Captures \cup {NoSnapshot}]
          /\ snapshots'[w] = q /\ \A s \in Submitters \ {w} : snapshots'[s] = snapshots[s]
        BY <1>1, <1>12, <2>2 DEF CapturesTyped
    <2>4. snapshots[w].at # "rebinding"
        BY <1>1 DEF OnItsWay, NoSnapshot
    <2>5. CapturesTyped'
        BY <1>1, <1>2, <1>3, <1>10, <2>2, <2>3, <2>4 DEF CapturesTyped, OnItsWay
    <2>6. Carried'
        BY <1>3, <1>10, <2>2, <2>3 DEF Carried, OnItsWay
    <2>7. Rebinding'
        BY <1>1, <1>8, <2>2, <2>3 DEF Sound, Rebinding
    <2>8. Accounted'
        BY <1>1, <1>3, <2>2, <2>3 DEF Accounted, OnItsWay
    <2>9. QED
        BY <1>5, <1>7, <1>8, <1>9, <2>5, <2>6, <2>7, <2>8 DEF Sound
<1>13. QED
    BY <1>11, <1>12 DEF Commit

(* A refresh and a start capture the plan as it is.                        *)
LEMMA ImageSound ==
    ASSUME PlanTyped, ServerTyped, RowsTyped, CapturesTyped, Sound, NEW t \in Submitters,
           ~OnItsWay(t), snapshots' = [snapshots EXCEPT ![t] = Captured(Image)],
           UNCHANGED <<published, rows, managerLock>>, refreshing' \in BOOLEAN
    PROVE  CapturesTyped' /\ Sound'
<1> PICK q : q = Captured(Image)
    OBVIOUS
<1>1. /\ q \in Captures /\ q # NoSnapshot /\ q.at = "captured"
      /\ q.rev = Revision /\ q.content = published[Revision]
    BY ImageIsTyped, CapturedEffect
<1>2. Revision \in Nat /\ Revision >= 1 /\ Revision' = Revision
    BY RevisionIsPositive DEF Revision
<1>3. /\ snapshots' \in [Submitters -> Captures \cup {NoSnapshot}]
      /\ snapshots'[t] = q /\ \A s \in Submitters \ {t} : snapshots'[s] = snapshots[s]
    BY <1>1 DEF CapturesTyped
<1>4. snapshots[t].at # "rebinding"
    BY DEF OnItsWay, NoSnapshot
<1>5. CapturesTyped'
    BY <1>1, <1>2, <1>3, <1>4 DEF CapturesTyped, OnItsWay
<1>6. /\ Table' = Table /\ Automatic' = Automatic /\ HasLatest' = HasLatest
      /\ Latest' = Latest /\ Numbered'
    BY NothingTouched, TouchedKeeps DEF Sound
<1>7. Carried'
    BY <1>1, <1>3 DEF Sound, Carried, OnItsWay
<1>8. Rebinding'
    BY <1>1, <1>3, <1>6 DEF Sound, Rebinding
<1>9. Bound'
    BY <1>2, <1>6 DEF Sound, Bound
<1>10. Accounted'
    BY <1>1, <1>2, <1>3 DEF Accounted, OnItsWay
<1>11. QED
    BY <1>5, <1>6, <1>7, <1>8, <1>9, <1>10 DEF Sound

-----------------------------------------------------------------------------
(* The submissions.                                                        *)

(* One that leaves the rows gives up its capture; it may, when a newer     *)
(* analysis is there, or when the loss of the capture is known.            *)
LEMMA GivenUpSound ==
    ASSUME PlanTyped, ServerTyped, RowsTyped, CapturesTyped, Sound,
           NEW s \in Submitters, OnItsWay(s), managerLock \in {Nobody, s}, Done(s),
           UNCHANGED <<published, rows, process, up>>,
           \/ missed' = missed /\ HasLatest /\ rows[Latest].rev >= snapshots[s].rev
           \/ missed' = (missed \/ snapshots[s].rev = Revision)
    PROVE  RowsTyped' /\ CapturesTyped' /\ Sound'
<1>1. snapshots'[s] = NoSnapshot /\ \A t \in Submitters \ {s} : snapshots'[t] = snapshots[t]
    BY DoneEffect
<1>2. CapturesTyped' /\ Carried' /\ Rebinding'
    BY DoneEffect, DoneCarried DEF Sound
<1>3. Revision' = Revision /\ Revision \in Nat /\ process \in Nat
    BY RevisionIsPositive DEF Revision, ServerTyped
<1>4. RowsTyped'
    BY <1>3, NothingTouched, TouchedTyped
<1>5. /\ Table' = Table /\ Automatic' = Automatic /\ HasLatest' = HasLatest
      /\ Latest' = Latest /\ Numbered'
    BY NothingTouched, TouchedKeeps DEF Sound
<1>6. Bound'
    BY <1>3, <1>5 DEF Sound, Bound
<1>7. HasLatest => rows[Latest].rev \in 1..Revision
    BY LatestIsNewest DEF Sound, Bound
<1>8. snapshots[s].rev \in 1..Revision
    BY CaptureIsTyped
<1>9. Accounted'
    <2>1. SUFFICES ASSUME up, ~missed'
                   PROVE  \/ HasLatest /\ rows[Latest].rev = Revision
                          \/ \E t \in Submitters : OnItsWay(t)' /\ snapshots'[t].rev = Revision
        BY <1>3, <1>5 DEF Accounted
    <2>2. ~missed
        BY <2>1
    <2>3. CASE HasLatest /\ rows[Latest].rev = Revision
        BY <2>3
    <2>4. CASE \E t \in Submitters : OnItsWay(t) /\ snapshots[t].rev = Revision
        <3>1. PICK t \in Submitters : OnItsWay(t) /\ snapshots[t].rev = Revision
            BY <2>4
        <3>2. CASE t = s
            <4>1. snapshots[s].rev = Revision
                BY <3>1, <3>2
            <4>2. HasLatest /\ rows[Latest].rev >= snapshots[s].rev
                BY <2>1, <2>2, <4>1
            <4>3. QED
                BY <1>3, <1>7, <4>1, <4>2
        <3>3. CASE t # s
            BY <1>1, <3>1, <3>3 DEF OnItsWay
        <3>4. QED
            BY <3>2, <3>3
    <2>5. QED
        BY <2>1, <2>2, <2>3, <2>4 DEF Sound, Accounted
<1>10. QED
    BY <1>2, <1>4, <1>5, <1>6, <1>9 DEF Sound

(* The lock is taken, the newest analysis compared.                        *)
LEMMA RebindingSound ==
    ASSUME PlanTyped, ServerTyped, RowsTyped, CapturesTyped, Sound,
           NEW s \in Submitters, SubmitRebinding(s)
    PROVE  RowsTyped' /\ CapturesTyped' /\ Sound'
<1>1. /\ managerLock = Nobody /\ snapshots[s].at = "captured"
      /\ HasLatest /\ rows[Latest].content = snapshots[s].content
      /\ ~(rows[Latest].rev > snapshots[s].rev) /\ rows[Latest].rev # snapshots[s].rev
      /\ snapshots' = [snapshots EXCEPT ![s].at = "rebinding"] /\ managerLock' = s
      /\ UNCHANGED <<published, missed, rows, process, up, refreshing>>
    BY DEF SubmitRebinding, Superseded, Reusable, plan, server
<1>2. OnItsWay(s)
    BY <1>1, CapturedIsOnItsWay
<1>3. snapshots[s] \in Captures
    BY <1>2, CaptureIsTyped
<1> PICK q : q = [snapshots[s] EXCEPT !.at = "rebinding"]
    OBVIOUS
<1>4. /\ q \in Captures /\ q.at = "rebinding" /\ q.rev = snapshots[s].rev
      /\ q.content = snapshots[s].content
    BY <1>3 DEF Captures
<1>5. q # NoSnapshot
    BY <1>4 DEF NoSnapshot
<1>6. /\ snapshots' \in [Submitters -> Captures \cup {NoSnapshot}]
      /\ snapshots'[s] = q /\ \A t \in Submitters \ {s} : snapshots'[t] = snapshots[t]
    BY <1>1, <1>4 DEF CapturesTyped
<1>7. Revision' = Revision /\ Revision \in Nat /\ process \in Nat
    BY <1>1, RevisionIsPositive DEF Revision, ServerTyped
<1>8. CapturesTyped'
    BY <1>1, <1>2, <1>4, <1>5, <1>6, <1>7 DEF CapturesTyped, OnItsWay
<1>9. RowsTyped'
    BY <1>1, <1>7, NothingTouched, TouchedTyped
<1>10. /\ Table' = Table /\ Automatic' = Automatic /\ HasLatest' = HasLatest
       /\ Latest' = Latest /\ Numbered'
    BY <1>1, NothingTouched, TouchedKeeps DEF Sound
<1>11. Carried'
    BY <1>1, <1>2, <1>4, <1>5, <1>6 DEF Sound, Carried, OnItsWay
<1>12. Rebinding'
    <2>1. \A t \in Submitters \ {s} : snapshots'[t].at # "rebinding"
        BY <1>1, <1>6 DEF CapturesTyped
    <2>2. rows[Latest].rev \in Nat /\ snapshots[s].rev \in Nat
        BY <1>1, <1>2, LatestIsNewest, RowIsAnalysis, CaptureIsTyped DEF Sound, Automatic
    <2>3. QED
        BY <1>1, <1>4, <1>6, <1>10, <2>1, <2>2 DEF Rebinding
<1>13. Bound'
    BY <1>1, <1>7, <1>10 DEF Sound, Bound
<1>14. Accounted'
    BY <1>1, <1>2, <1>4, <1>5, <1>6, <1>7, <1>10 DEF Sound, Accounted, OnItsWay
<1>15. QED
    BY <1>8, <1>9, <1>10, <1>11, <1>12, <1>13, <1>14 DEF Sound

(* The analysis that was compared is the one that is rebound.              *)
LEMMA ReboundSound ==
    ASSUME PlanTyped, ServerTyped, RowsTyped, CapturesTyped, Sound,
           NEW s \in Submitters, SubmitRebinds(s)
    PROVE  RowsTyped' /\ CapturesTyped' /\ Sound'
<1>1. /\ snapshots[s].at = "rebinding"
      /\ rows' = [rows EXCEPT ![Latest].rev = snapshots[s].rev] /\ Done(s)
      /\ UNCHANGED <<published, missed, process, up>>
    BY DEF SubmitRebinds, plan, server
<1>2. OnItsWay(s) /\ managerLock = s
    BY <1>1, CapturedIsOnItsWay DEF CapturesTyped
<1>3. /\ HasLatest /\ rows[Latest].content = snapshots[s].content
      /\ rows[Latest].rev < snapshots[s].rev
    BY <1>1 DEF Sound, Rebinding
<1>4. /\ Latest \in Automatic /\ Latest \in Table /\ Latest \in Jobs
      /\ rows[Latest] \in Analyses /\ rows[Latest] # NoRow
    BY <1>3, LatestIsNewest, RowIsAnalysis DEF Sound, Automatic, Table
<1>5. snapshots[s].rev \in 1..Revision /\ snapshots[s].rev \in Nat
      /\ snapshots[s].content = published[snapshots[s].rev]
    BY <1>2, CaptureIsTyped DEF Sound, Carried
<1> PICK q : q = [rows[Latest] EXCEPT !.rev = snapshots[s].rev]
    OBVIOUS
<1>6. /\ q \in Analyses /\ q.rev = snapshots[s].rev /\ q.status = rows[Latest].status
      /\ q.content = rows[Latest].content /\ q.trigger = rows[Latest].trigger
      /\ q.process = rows[Latest].process /\ q.created = rows[Latest].created
    BY <1>4, <1>5 DEF Analyses
<1>7. q # NoRow
    BY <1>4, <1>6, UnusedHasNoStatus DEF NoRow
<1>8. /\ rows' \in [Jobs -> Analyses \cup {NoRow}]
      /\ rows'[Latest] = q /\ \A k \in Jobs \ {Latest} : rows'[k] = rows[k]
    BY <1>1, <1>4, <1>6 DEF RowsTyped
<1>9. Revision' = Revision /\ Revision \in Nat /\ process \in Nat
    BY <1>1, RevisionIsPositive DEF Revision, ServerTyped
<1>10. Table' = Table
    BY <1>4, <1>7, <1>8 DEF Table
<1>11. \A k \in Table : rows'[k].trigger = rows[k].trigger /\ rows'[k].created = rows[k].created
                        /\ rows'[k].content = rows[k].content /\ rows'[k].process = rows[k].process
    BY <1>6, <1>8 DEF Table
<1>12. Automatic' = Automatic /\ Automatic \subseteq Table
    BY <1>10, <1>11 DEF Automatic
<1>13. RowsTyped'
    <2>1. ASSUME NEW k \in Table
          PROVE  rows'[k].rev <= Revision /\ rows'[k].process <= process
        <3>1. rows[k].rev <= Revision /\ rows[k].process <= process
            BY <2>1 DEF RowsTyped
        <3>2. rows'[k].process = rows[k].process
            BY <1>11, <2>1
        <3>3. CASE k = Latest
            <4>1. rows'[k].rev = snapshots[s].rev
                BY <1>6, <1>8, <3>3
            <4>2. rows'[k].rev <= Revision
                BY <1>5, <1>9, <4>1
            <4>3. QED
                BY <3>1, <3>2, <4>2
        <3>4. CASE k # Latest
            BY <1>8, <2>1, <3>1, <3>4 DEF Table
        <3>5. QED
            BY <3>3, <3>4
    <2>2. QED
        BY <1>1, <1>8, <1>9, <1>10, <2>1 DEF RowsTyped
<1>14. \A j \in Automatic : (\A k \in Automatic : rows'[k].created <= rows'[j].created)
                             <=> (\A k \in Automatic : rows[k].created <= rows[j].created)
    BY <1>11, <1>12
<1>15. HasLatest' /\ Latest' = Latest
    BY <1>3, <1>12, <1>14 DEF HasLatest, Latest
<1>16. Numbered'
    BY <1>10, <1>11, <1>12, <1>14 DEF Sound, Numbered, HasLatest
<1>17. CapturesTyped' /\ Carried' /\ Rebinding'
    BY <1>1, <1>2, DoneEffect, DoneCarried DEF Sound
<1>18. Bound'
    <2>1. SUFFICES ASSUME NEW j \in Automatic
                   PROVE  rows'[j].rev \in 1..Revision /\ rows'[j].content = published[rows'[j].rev]
        BY <1>1, <1>9, <1>12 DEF Bound
    <2>2. CASE j = Latest
        BY <1>3, <1>5, <1>6, <1>8, <2>2
    <2>3. CASE j # Latest
        <3>1. j \in Jobs
            BY <1>12 DEF Table
        <3>2. QED
            BY <1>8, <2>3, <3>1 DEF Sound, Bound
    <2>4. QED
        BY <2>2, <2>3
<1>19. Accounted'
    <2>1. SUFFICES ASSUME up, ~missed
                   PROVE  \/ rows'[Latest].rev = Revision
                          \/ \E t \in Submitters : OnItsWay(t)' /\ snapshots'[t].rev = Revision
        BY <1>1, <1>9, <1>15 DEF Accounted
    <2>2. rows[Latest].rev # Revision
        BY <1>3, <1>4, <1>5, <1>9, RowIsAnalysis
    <2>3. PICK t \in Submitters : OnItsWay(t) /\ snapshots[t].rev = Revision
        BY <2>1, <2>2 DEF Sound, Accounted
    <2>4. CASE t = s
        BY <1>6, <1>8, <2>3, <2>4
    <2>5. CASE t # s
        <3>1. snapshots'[t] = snapshots[t]
            BY <1>1, <1>2, <2>5, DoneEffect
        <3>2. QED
            BY <2>3, <3>1 DEF OnItsWay
    <2>6. QED
        BY <2>4, <2>5
<1>20. QED
    BY <1>13, <1>16, <1>17, <1>18, <1>19 DEF Sound

(* What a started analysis says it is of is typed.                         *)
LEMMA StartedTyped ==
    ASSUME PlanTyped, ServerTyped, RowsTyped, NEW j \in Jobs, NEW trigger \in Triggers, NEW i,
           i.rev \in 0..Revision, StartedRows(j, trigger, i), published' = published,
           process' = process
    PROVE  RowsTyped'
<1>1. /\ rows' \in [Jobs -> Analyses \cup {NoRow}] /\ Table' = Table \cup {j}
      /\ rows'[j].rev = i.rev /\ rows'[j].process = process
      /\ \A k \in Table : rows'[k].rev = rows[k].rev /\ rows'[k].process = rows[k].process
    BY DEF StartedRows
<1>2. Revision' = Revision /\ Revision \in Nat /\ process \in Nat
    BY RevisionIsPositive DEF Revision, ServerTyped
<1>3. \A k \in Table' : rows'[k].rev <= Revision /\ rows'[k].process <= process
    BY <1>1, <1>2 DEF RowsTyped
<1>4. QED
    BY <1>1, <1>2, <1>3 DEF RowsTyped

LEMMA StartsSound ==
    ASSUME PlanTyped, ServerTyped, RowsTyped, CapturesTyped, Sound,
           NEW s \in Submitters, NEW j \in Jobs, SubmitStarts(s, j)
    PROVE  RowsTyped' /\ CapturesTyped' /\ Sound'
<1>1. /\ Started(j, "auto", snapshots[s]) /\ Done(s)
      /\ UNCHANGED <<published, missed, process, up>>
    BY DEF SubmitStarts, plan, server
<1>2. OnItsWay(s) /\ managerLock \in {Nobody, s}
    BY CapturedIsOnItsWay DEF SubmitStarts, CapturesTyped
<1>3. /\ snapshots[s].rev \in 1..Revision /\ snapshots[s].rev \in Nat
      /\ snapshots[s].content \in Contents /\ snapshots[s].day \in 0..MaxDay
      /\ snapshots[s].content = published[snapshots[s].rev]
    BY <1>2, CaptureIsTyped DEF Sound, Carried
<1>4. HasLatest => rows[Latest].rev \in Nat
    BY LatestIsNewest, RowIsAnalysis DEF Sound, Automatic
<1>5. HasLatest => rows[Latest].rev <= snapshots[s].rev
    BY <1>3, <1>4 DEF SubmitStarts, Superseded, Sound, Rebinding
<1>6. "auto" \in Triggers
    BY DEF Triggers
<1>7. StartedRows(j, "auto", snapshots[s])
    BY <1>1, <1>3, <1>6, StartedEffect
<1>8. Revision' = Revision /\ Revision \in Nat /\ Revision >= 1
    BY <1>1, RevisionIsPositive DEF Revision
<1>9. RowsTyped'
    BY <1>1, <1>3, <1>6, <1>7, <1>8, StartedTyped
<1>10. Numbered' /\ Automatic' = Automatic \cup {j} /\ HasLatest' /\ Latest' = j
    BY <1>6, <1>7, <1>9, StartedOrder DEF Sound
<1>11. CapturesTyped' /\ Carried' /\ Rebinding'
    BY <1>1, <1>2, DoneEffect, DoneCarried DEF Sound
<1>12. /\ rows'[j].rev = snapshots[s].rev /\ rows'[j].content = snapshots[s].content
       /\ \A k \in Automatic : rows'[k].rev = rows[k].rev /\ rows'[k].content = rows[k].content
    BY <1>7 DEF StartedRows, Automatic
<1>13. Bound'
    BY <1>1, <1>3, <1>8, <1>10, <1>12 DEF Sound, Bound
<1>14. Accounted'
    <2>1. SUFFICES ASSUME up, ~missed
                   PROVE  \/ snapshots[s].rev = Revision
                          \/ \E t \in Submitters : OnItsWay(t)' /\ snapshots'[t].rev = Revision
        BY <1>1, <1>8, <1>10, <1>12 DEF Accounted
    <2>2. CASE HasLatest /\ rows[Latest].rev = Revision
        BY <1>3, <1>5, <1>8, <2>2
    <2>3. CASE \E t \in Submitters : OnItsWay(t) /\ snapshots[t].rev = Revision
        <3>1. PICK t \in Submitters : OnItsWay(t) /\ snapshots[t].rev = Revision
            BY <2>3
        <3>2. t = s \/ snapshots'[t] = snapshots[t]
            BY <1>1, <1>2, DoneEffect
        <3>3. QED
            BY <3>1, <3>2 DEF OnItsWay
    <2>4. QED
        BY <2>1, <2>2, <2>3 DEF Sound, Accounted
<1>15. QED
    BY <1>9, <1>10, <1>11, <1>13, <1>14 DEF Sound

LEMMA ManualSound ==
    ASSUME PlanTyped, ServerTyped, RowsTyped, CapturesTyped, Sound,
           NEW j \in Jobs, StartManual(j)
    PROVE  RowsTyped' /\ CapturesTyped' /\ Sound'
<1>1. /\ managerLock = Nobody /\ Started(j, "manual", Unread)
      /\ UNCHANGED <<published, missed, process, up, snapshots, refreshing, managerLock>>
    BY DEF StartManual, plan, server
<1>2. Revision' = Revision /\ Revision \in Nat /\ Revision >= 1
    BY <1>1, RevisionIsPositive DEF Revision
<1> PICK i : i = Unread
    OBVIOUS
<1>3. i.rev = 0 /\ i.content \in Contents /\ i.day \in 0..MaxDay /\ i.rev \in Nat /\ i.rev \in 0..Revision
    BY <1>2, RevisionIsPositive DEF Unread
<1>4. "manual" \in Triggers
    BY DEF Triggers
<1>5. StartedRows(j, "manual", i)
    BY <1>1, <1>3, <1>4, StartedEffect
<1>6. RowsTyped'
    BY <1>1, <1>3, <1>4, <1>5, StartedTyped
<1>7. Numbered' /\ Automatic' = Automatic /\ HasLatest' = HasLatest /\ Latest' = Latest
    BY <1>4, <1>5, <1>6, StartedOrder DEF Sound
<1>8. CapturesTyped'
    BY <1>1, <1>2 DEF CapturesTyped, OnItsWay
<1>9. Carried'
    BY <1>1 DEF Sound, Carried, OnItsWay
<1>10. Rebinding'
    BY <1>1 DEF CapturesTyped, Rebinding
<1>11. \A k \in Automatic : rows'[k].rev = rows[k].rev /\ rows'[k].content = rows[k].content
    BY <1>5 DEF StartedRows, Automatic
<1>12. Bound'
    BY <1>1, <1>2, <1>7, <1>11 DEF Sound, Bound
<1>13. Accounted'
    BY <1>1, <1>2, <1>7, <1>11, LatestIsNewest DEF Sound, Accounted, OnItsWay
<1>14. QED
    BY <1>6, <1>7, <1>8, <1>9, <1>10, <1>12, <1>13 DEF Sound

-----------------------------------------------------------------------------
(* The end of a process and the start of the next.                         *)

LEMMA CrashSound ==
    ASSUME PlanTyped, ServerTyped, RowsTyped, CapturesTyped, Sound, Crash
    PROVE  RowsTyped' /\ CapturesTyped' /\ Sound'
<1>1. /\ up' = FALSE /\ snapshots' = [s \in Submitters |-> NoSnapshot] /\ refreshing' = FALSE
      /\ managerLock' = Nobody /\ UNCHANGED <<published, missed, rows, process>>
    BY DEF Crash, plan
<1>2. Revision' = Revision /\ Revision \in Nat /\ process \in Nat
    BY <1>1, RevisionIsPositive DEF Revision, ServerTyped
<1>3. RowsTyped'
    BY <1>1, <1>2, NothingTouched, TouchedTyped
<1>4. /\ Table' = Table /\ Automatic' = Automatic /\ HasLatest' = HasLatest
      /\ Latest' = Latest /\ Numbered'
    BY <1>1, NothingTouched, TouchedKeeps DEF Sound
<1>5. \A s \in Submitters : snapshots'[s] = NoSnapshot /\ snapshots'[s].at # "rebinding"
    BY <1>1 DEF NoSnapshot
<1>6. CapturesTyped'
    BY <1>1, <1>5 DEF CapturesTyped, OnItsWay
<1>7. Carried' /\ Rebinding'
    BY <1>5 DEF Carried, Rebinding, OnItsWay
<1>8. Bound'
    BY <1>1, <1>2, <1>4 DEF Sound, Bound
<1>9. Accounted'
    BY <1>1 DEF Accounted
<1>10. QED
    BY <1>3, <1>4, <1>6, <1>7, <1>8, <1>9 DEF Sound

(* When the server is down no capture is on its way, and it will start.    *)
Down == ~up => process < MaxProcesses /\ \A s \in Submitters : ~OnItsWay(s)

LEMMA RestartSound ==
    ASSUME PlanTyped, ServerTyped, RowsTyped, CapturesTyped, Sound, Down, Restart
    PROVE  RowsTyped' /\ CapturesTyped' /\ Sound'
<1>1. /\ process' = process + 1 /\ UNCHANGED <<published, rows, refreshing, managerLock>>
      /\ Startup \in Submitters /\ ~OnItsWay(Startup)
    BY DEF Restart, Down, Submitters
<1>2. Revision' = Revision /\ Revision \in Nat /\ process \in Nat /\ process' \in Nat
    BY <1>1, RevisionIsPositive DEF Revision, ServerTyped
<1>3. RowsTyped'
    BY <1>1, <1>2, NothingTouched, TouchedTyped
<1>4. CASE snapshots' = [snapshots EXCEPT ![Startup] = Captured(Image)]
    BY <1>1, <1>3, <1>4, ImageSound DEF CapturesTyped
<1>5. CASE snapshots' = snapshots /\ missed' = TRUE
    <2>1. /\ Table' = Table /\ Automatic' = Automatic /\ HasLatest' = HasLatest
          /\ Latest' = Latest /\ Numbered'
        BY <1>1, NothingTouched, TouchedKeeps DEF Sound
    <2>2. CapturesTyped'
        BY <1>1, <1>2, <1>5 DEF CapturesTyped, OnItsWay
    <2>3. Carried' /\ Rebinding' /\ Bound'
        BY <1>1, <1>2, <1>5, <2>1 DEF Sound, Carried, Rebinding, Bound, OnItsWay
    <2>4. Accounted'
        BY <1>5 DEF Accounted
    <2>5. QED
        BY <1>3, <2>1, <2>2, <2>3, <2>4 DEF Sound
<1>6. QED
    BY <1>4, <1>5 DEF Restart

LEMMA RefreshSound ==
    ASSUME PlanTyped, ServerTyped, RowsTyped, CapturesTyped, Sound, RefreshCaptures
    PROVE  RowsTyped' /\ CapturesTyped' /\ Sound'
<1>1. /\ UNCHANGED <<published, rows, managerLock, process, up>> /\ Refresh \in Submitters
      /\ ~OnItsWay(Refresh) /\ refreshing' \in BOOLEAN
    BY DEF RefreshCaptures, CapturesTyped, OnItsWay, server, Submitters
<1>2. Revision' = Revision /\ Revision \in Nat /\ process \in Nat
    BY <1>1, RevisionIsPositive DEF Revision, ServerTyped
<1>3. RowsTyped'
    BY <1>1, <1>2, NothingTouched, TouchedTyped
<1>4. CASE snapshots' = [snapshots EXCEPT ![Refresh] = Captured(Image)]
    BY <1>1, <1>3, <1>4, ImageSound
<1>5. CASE UNCHANGED <<snapshots, missed>>
    <2>1. Sound'
        BY <1>1, <1>5, NothingTouched, SteadySound
    <2>2. CapturesTyped'
        BY <1>1, <1>2, <1>5 DEF CapturesTyped, OnItsWay
    <2>3. QED
        BY <1>3, <2>1, <2>2
<1>6. QED
    BY <1>4, <1>5 DEF RefreshCaptures

-----------------------------------------------------------------------------
(* The threads, and how the analyses end.                                  *)

LEMMA StepAtEffect ==
    ASSUME ThreadsTyped, NEW j \in Jobs,
           NEW at \in {"idle", "queued", "polling", "replaying", "completed", "cancelled"},
           step' = [step EXCEPT ![j].at = at]
    PROVE  /\ step' \in [Jobs -> Steps]
           /\ step'[j].at = at /\ step'[j].done = step[j].done
           /\ \A k \in Jobs \ {j} : step'[k] = step[k]
<1> PICK q : q = [step[j] EXCEPT !.at = at]
    OBVIOUS
<1>1. q \in Steps /\ q.at = at /\ q.done = step[j].done
    BY DEF ThreadsTyped, Steps
<1>2. step' = [step EXCEPT ![j] = q]
    BY DEF ThreadsTyped
<1>3. QED
    BY <1>1, <1>2 DEF ThreadsTyped

LEMMA LeaveEffect ==
    ASSUME ThreadsTyped, Batteries, NEW j \in Jobs, Leave(j), told' = told
    PROVE  ThreadsTyped' /\ Batteries'
<1>1. NoWork \in Steps /\ NoWork.at = "idle"
    BY DEF NoWork, Steps
<1>2. step' = [step EXCEPT ![j] = NoWork] /\ events' = events \ {j} /\ signalled' = signalled \ {j}
    BY DEF Leave
<1>3. QED
    BY <1>1, <1>2 DEF ThreadsTyped, Batteries

(* Only a whole battery is written down as completed, and a cancellation   *)
(* is never written over.                                                  *)
LEMMA EndedEffect ==
    ASSUME RowsTyped, Ended, NEW j \in Jobs, NEW s \in {"running", "completed", "cancelled", "failed"},
           NEW whole \in BOOLEAN, Becomes(j, s, whole), s = "completed" => whole, told' = told
    PROVE  Ended'
<1>1. \A k \in Jobs \ {j} : rows'[k] = rows[k]
    BY DEF Becomes
<1>2. CASE rows'[j] = rows[j]
    BY <1>1, <1>2 DEF Ended
<1>3. CASE /\ rows[j].status \in (IF s = "running" THEN {"queued"} ELSE Active)
           /\ rows'[j].status = IF s \in {"completed", "failed"} /\ rows[j].status = "cancelling"
                                THEN "cancelled" ELSE s
           /\ rows'[j].whole = whole
    <2>1. rows'[j].status = "completed" => rows'[j].whole
        BY <1>3
    <2>2. j \in told => rows'[j].status \in {"cancelling", "cancelled"}
        BY <1>3 DEF Ended, Active
    <2>3. QED
        BY <1>1, <2>1, <2>2 DEF Ended
<1>4. QED
    BY <1>2, <1>3 DEF Becomes

LEMMA StartedThreads ==
    ASSUME RowsTyped, ServerTyped, ThreadsTyped, Batteries, Ended, NEW j \in Jobs,
           NEW trigger \in Triggers, NEW i, i.rev \in Nat, i.content \in Contents,
           i.day \in 0..MaxDay, Started(j, trigger, i), told' = told
    PROVE  ThreadsTyped' /\ Batteries' /\ Ended'
<1>1. StartedRows(j, trigger, i)
    BY StartedEffect
<1>2. \/ UNCHANGED <<step, events>>
      \/ step' = [step EXCEPT ![j].at = "queued"] /\ events' = events \cup {j}
    BY DEF Started
<1>3. PICK K : signalled' = signalled \cup (events \cap K)
    BY DEF Started
<1>4. ThreadsTyped' /\ Batteries'
    <2>1. CASE UNCHANGED <<step, events>>
        BY <1>3, <2>1 DEF ThreadsTyped, Batteries
    <2>2. CASE step' = [step EXCEPT ![j].at = "queued"] /\ events' = events \cup {j}
        <3>1. /\ step' \in [Jobs -> Steps] /\ step'[j].at = "queued"
              /\ \A k \in Jobs \ {j} : step'[k] = step[k]
            BY <2>2, StepAtEffect
        <3>2. QED
            BY <1>3, <2>2, <3>1 DEF ThreadsTyped, Batteries
    <2>3. QED
        BY <1>2, <2>1, <2>2
<1>5. rows[j].status = "unused"
    BY <1>1, UnusedHasNoStatus DEF StartedRows, Table
<1>6. Ended'
    BY <1>1, <1>5 DEF Ended, StartedRows
<1>7. QED
    BY <1>4, <1>6

LEMMA CancelThreads ==
    ASSUME RowsTyped, ThreadsTyped, Batteries, Ended, NEW j \in Jobs, Cancel(j)
    PROVE  Touched /\ ThreadsTyped' /\ Batteries' /\ Ended'
<1>1. rows' = CancelRequested({j}) /\ UNCHANGED <<step, events>>
    BY DEF Cancel
<1>2. /\ Touched
      /\ \A k \in Jobs : rows'[k] = rows[k] \/
            (/\ rows[k].status \in {"queued", "running"} /\ rows'[k].status = "cancelling")
    BY <1>1, CancelEffect DEF Touched
<1>3. /\ told' = told \/ (told' = told \cup {j} /\ rows'[j].status = "cancelling")
      /\ signalled' = signalled \/ signalled' = signalled \cup (events \cap {j})
    BY DEF Cancel
<1>4. ThreadsTyped' /\ Batteries'
    BY <1>1, <1>3 DEF ThreadsTyped, Batteries
<1>5. Ended'
    BY <1>2, <1>3 DEF Ended
<1>6. QED
    BY <1>2, <1>4, <1>5

(* The steps of a thread that write the row.                               *)
LEMMA RunThreads ==
    ASSUME RowsTyped, ThreadsTyped, Batteries, Ended, NEW j \in Jobs,
           RunMarks(j) \/ RunEnds(j) \/ RunFails(j)
    PROVE  Touched /\ ThreadsTyped' /\ Batteries' /\ Ended'
<1>1. told' = told
    BY DEF RunMarks, RunEnds, RunFails
<1>2. CASE RunMarks(j)
    <2>1. PICK s \in {"running", "cancelled"} : rows' = Updated(j, s, FALSE)
        BY <1>2 DEF RunMarks
    <2>2. Becomes(j, s, FALSE)
        BY <2>1, UpdatedEffect
    <2>3. Touched /\ Ended'
        BY <1>1, <2>2, EndedEffect DEF Becomes
    <2>4. CASE Leave(j)
        BY <1>1, <2>3, <2>4, LeaveEffect
    <2>5. CASE step' = [step EXCEPT ![j].at = "polling"] /\ UNCHANGED <<events, signalled>>
        <3>1. /\ step' \in [Jobs -> Steps] /\ step'[j].at = "polling"
              /\ \A k \in Jobs \ {j} : step'[k] = step[k]
            BY <2>5, StepAtEffect
        <3>2. QED
            BY <1>1, <2>3, <2>5, <3>1 DEF ThreadsTyped, Batteries
    <2>6. QED
        BY <1>2, <2>4, <2>5 DEF RunMarks
<1>3. CASE RunEnds(j)
    <2>1. /\ rows' = Updated(j, step[j].at, step[j].done = Samples) /\ Leave(j)
          /\ step[j].at \in {"cancelled", "completed"}
        BY <1>3 DEF RunEnds
    <2> PICK s : s = step[j].at
        OBVIOUS
    <2> DEFINE whole == (step[j].done = Samples)
    <2>2. whole \in BOOLEAN /\ (s = "completed" => whole) /\ rows' = Updated(j, s, whole)
        BY <2>1 DEF Batteries
    <2> HIDE DEF whole
    <2>3. Becomes(j, s, whole)
        BY <2>1, <2>2, UpdatedEffect
    <2>4. Touched /\ Ended'
        BY <1>1, <2>1, <2>2, <2>3, EndedEffect DEF Becomes
    <2>5. QED
        BY <1>1, <2>1, <2>4, LeaveEffect
<1>4. CASE RunFails(j)
    <2>1. rows' = Updated(j, "failed", FALSE) /\ Leave(j)
        BY <1>4 DEF RunFails
    <2>2. Becomes(j, "failed", FALSE)
        BY <2>1, UpdatedEffect
    <2>3. Touched /\ Ended'
        BY <1>1, <2>2, EndedEffect DEF Becomes
    <2>4. QED
        BY <1>1, <2>1, <2>3, LeaveEffect
<1>5. QED
    BY <1>2, <1>3, <1>4

(* Those that do not.                                                      *)
LEMMA ScenarioThreads ==
    ASSUME ThreadsTyped, Batteries, NEW j \in Jobs,
           ScenarioCleared(j) \/ ScenarioReplayed(j) \/ RunDecides(j)
    PROVE  ThreadsTyped' /\ Batteries'
<1>1. UNCHANGED <<events, signalled, told>>
    BY DEF ScenarioCleared, ScenarioReplayed, RunDecides
<1>2. step[j].done \in 0..Samples /\ Samples \in Nat
    BY DEF ThreadsTyped, Steps
<1>3. CASE ScenarioCleared(j)
    <2>1. step' = [step EXCEPT ![j].at = "replaying"] /\ step[j].done < Samples
        BY <1>3 DEF ScenarioCleared
    <2>2. /\ step' \in [Jobs -> Steps] /\ step'[j].at = "replaying" /\ step'[j].done = step[j].done
          /\ \A k \in Jobs \ {j} : step'[k] = step[k]
        BY <2>1, StepAtEffect
    <2>3. QED
        BY <1>1, <2>1, <2>2 DEF ThreadsTyped, Batteries
<1>4. CASE ScenarioReplayed(j)
    <2> PICK q : q = [at |-> "polling", done |-> step[j].done + 1]
        OBVIOUS
    <2>1. step' = [step EXCEPT ![j] = q] /\ step[j].at = "replaying"
        BY <1>4 DEF ScenarioReplayed
    <2>2. step[j].done < Samples
        BY <2>1 DEF Batteries
    <2>3. q \in Steps /\ q.at = "polling"
        BY <1>2, <2>2 DEF Steps
    <2>4. QED
        BY <1>1, <2>1, <2>3 DEF ThreadsTyped, Batteries
<1>5. CASE RunDecides(j)
    <2>1. PICK at \in {"cancelled", "completed"} :
             /\ step' = [step EXCEPT ![j].at = at]
             /\ at = "completed" => step[j].done = Samples
        BY <1>5 DEF RunDecides, BatteryReturns
    <2>2. /\ step' \in [Jobs -> Steps] /\ step'[j].at = at /\ step'[j].done = step[j].done
          /\ \A k \in Jobs \ {j} : step'[k] = step[k]
        BY <2>1, StepAtEffect
    <2>3. QED
        BY <1>1, <2>1, <2>2 DEF ThreadsTyped, Batteries
<1>6. QED
    BY <1>3, <1>4, <1>5

LEMMA StoppedThreads ==
    ASSUME ThreadsTyped, Batteries, Shutdown \/ Crash
    PROVE  ThreadsTyped' /\ Batteries'
<1>1. NoWork \in Steps /\ NoWork.at = "idle"
    BY DEF NoWork, Steps
<1>2. CASE Shutdown
    <2>1. /\ signalled' = events /\ UNCHANGED <<events, told>>
          /\ step' \in [Jobs -> Steps]
          /\ \A j \in Jobs : step'[j] = NoWork \/ step'[j] = step[j]
        BY <1>1, <1>2 DEF Shutdown, ThreadsTyped
    <2>2. QED
        BY <1>1, <2>1 DEF ThreadsTyped, Batteries
<1>3. CASE Crash
    <2>1. /\ step' = [j \in Jobs |-> NoWork] /\ events' = {} /\ signalled' = {} /\ told' = told
        BY <1>3 DEF Crash
    <2>2. QED
        BY <1>1, <2>1 DEF ThreadsTyped, Batteries
<1>4. QED
    BY <1>2, <1>3

-----------------------------------------------------------------------------
(* The planning scopes.                                                    *)

Planning == {w \in Writers : depth[w] > 0}

LEMMA PlanningIsFinite == IsFiniteSet(Planning) /\ Cardinality(Planning) \in Nat
BY FS_Subset, FS_CardinalityType DEF Planning

LEMMA ScopeOpensEffect ==
    ASSUME ScopesTyped, Counted, NEW w \in Writers, ScopeOpens(w)
    PROVE  ScopesTyped' /\ Counted'
<1>1. /\ depth' = [depth EXCEPT ![w] = @ + 1] /\ depth[w] < MaxDepth
      /\ active' = IF depth[w] = 0 THEN active + 1 ELSE active
    BY DEF ScopeOpens, CountOpened
<1>2. depth[w] \in 0..MaxDepth /\ MaxDepth \in Nat /\ active = Cardinality(Planning)
    BY DEF ScopesTyped, Counted, Planning
<1>3. /\ depth' \in [Writers -> 0..MaxDepth] /\ depth'[w] = depth[w] + 1
      /\ \A v \in Writers \ {w} : depth'[v] = depth[v]
    BY <1>1, <1>2 DEF ScopesTyped
<1>4. Planning' = Planning \cup {w} /\ (depth[w] = 0 <=> w \notin Planning)
    BY <1>2, <1>3 DEF Planning
<1>5. Cardinality(Planning') = IF depth[w] = 0 THEN active + 1 ELSE active
    <2>1. CASE depth[w] = 0
        BY <1>2, <1>4, <2>1, PlanningIsFinite, FS_AddElement
    <2>2. CASE depth[w] # 0
        <3>1. Planning' = Planning
            BY <1>4, <2>2
        <3>2. QED
            BY <1>2, <2>2, <3>1
    <2>3. QED
        BY <2>1, <2>2
<1>6. QED
    BY <1>1, <1>3, <1>5 DEF ScopesTyped, Counted, Planning

LEMMA ScopeClosesEffect ==
    ASSUME ScopesTyped, Counted, NEW w \in Writers, ScopeCloses(w)
    PROVE  ScopesTyped' /\ Counted'
<1>1. /\ depth' = [depth EXCEPT ![w] = @ - 1] /\ depth[w] > 0
      /\ active' = IF depth[w] = 1 THEN (IF active > 0 THEN active - 1 ELSE 0) ELSE active
    BY DEF ScopeCloses, CountClosed
<1>2. depth[w] \in 0..MaxDepth /\ MaxDepth \in Nat /\ active = Cardinality(Planning)
    BY DEF ScopesTyped, Counted, Planning
<1>3. /\ depth' \in [Writers -> 0..MaxDepth] /\ depth'[w] = depth[w] - 1
      /\ \A v \in Writers \ {w} : depth'[v] = depth[v]
    BY <1>1, <1>2 DEF ScopesTyped
<1>4. w \in Planning /\ Planning' = IF depth[w] = 1 THEN Planning \ {w} ELSE Planning
    BY <1>1, <1>2, <1>3 DEF Planning
<1>5. Cardinality(Planning \ {w}) = active - 1 /\ Cardinality(Planning \ {w}) \in Nat
    <2>1. Cardinality(Planning \ {w}) = Cardinality(Planning) - 1
        BY <1>4, PlanningIsFinite, FS_RemoveElement
    <2>2. IsFiniteSet(Planning \ {w})
        BY PlanningIsFinite, FS_Subset
    <2>3. QED
        BY <1>2, <2>1, <2>2, FS_CardinalityType
<1>6. active > 0 /\ active \in Nat
    BY <1>2, <1>5, PlanningIsFinite
<1>7. Cardinality(Planning') = active'
    <2>1. CASE depth[w] = 1
        BY <1>1, <1>4, <1>5, <1>6, <2>1
    <2>2. CASE depth[w] # 1
        BY <1>1, <1>2, <1>4, <2>2
    <2>3. QED
        BY <2>1, <2>2
<1>8. active' \in Nat
    BY <1>1, <1>5, <1>6
<1>9. QED
    BY <1>3, <1>7, <1>8 DEF ScopesTyped, Counted, Planning

-----------------------------------------------------------------------------
(* The inductive invariant.                                                *)

Threads == ThreadsTyped /\ Batteries /\ Ended
Scopes == ScopesTyped /\ Counted
Analysed == PlanTyped /\ ServerTyped /\ RowsTyped /\ CapturesTyped /\ Sound /\ Down
            /\ Threads /\ Scopes

LEMMA InitAnalysed == Init => Analysed
<1> SUFFICES ASSUME Init
             PROVE  Analysed
    OBVIOUS
<1>1. (CHOOSE k \in Contents : TRUE) \in Contents
    OBVIOUS
<1>2. PICK k \in Contents : published = <<k>>
    BY <1>1 DEF Init
<1>3. Revision = 1 /\ published[1] = k /\ published \in Seq(Contents) /\ published # <<>>
    BY <1>2 DEF Revision
<1>4. PlanTyped
    <2>1. day = 0 /\ missed \in BOOLEAN
        BY DEF Init
    <2>2. QED
        BY <1>3, <2>1 DEF PlanTyped
<1>5. ServerTyped
    <2>1. process = 1 /\ up \in BOOLEAN /\ closed \in BOOLEAN
        BY DEF Init
    <2>2. QED
        BY <2>1 DEF ServerTyped
<1>6. Table = {} /\ Automatic = {}
    BY DEF Init, Table, Automatic
<1>7. RowsTyped
    BY <1>6 DEF Init, RowsTyped
<1> PICK q : q = Captured(Image)
    OBVIOUS
<1>8. /\ q \in Captures /\ q # NoSnapshot /\ q.at = "captured"
      /\ q.rev = Revision /\ q.content = published[Revision]
    BY <1>4, ImageIsTyped, CapturedEffect
<1>9. /\ snapshots = [s \in Submitters |-> IF s = Startup THEN q ELSE NoSnapshot]
      /\ Startup \in Submitters /\ managerLock = Nobody /\ refreshing = FALSE
    BY DEF Init, Submitters
<1>10. \A s \in Submitters : snapshots[s].at # "rebinding"
    BY <1>8, <1>9 DEF NoSnapshot
<1>11. CapturesTyped
    <2>1. snapshots \in [Submitters -> Captures \cup {NoSnapshot}]
        BY <1>8, <1>9
    <2>2. \A s \in Submitters : OnItsWay(s) => snapshots[s].rev \in 1..Revision
        BY <1>3, <1>8, <1>9 DEF OnItsWay
    <2>3. \A s \in Submitters : snapshots[s].at = "rebinding" <=> managerLock = s
        BY <1>9, <1>10
    <2>4. managerLock \in Submitters \cup {Nobody} /\ refreshing \in BOOLEAN
        BY <1>9
    <2>5. QED
        BY <2>1, <2>2, <2>3, <2>4 DEF CapturesTyped
<1>12. Sound
    <2>1. Numbered /\ Bound
        BY <1>6 DEF Numbered, Bound, HasLatest
    <2>2. Carried /\ Rebinding
        BY <1>8, <1>9, <1>10 DEF Carried, Rebinding, OnItsWay
    <2>3. Accounted
        BY <1>8, <1>9 DEF Accounted, OnItsWay
    <2>4. QED
        BY <2>1, <2>2, <2>3 DEF Sound
<1>13. Down
    BY DEF Init, Down
<1>14. Threads
    <2>1. ThreadsTyped /\ Batteries
        BY DEF Init, ThreadsTyped, Batteries, NoWork, Steps
    <2>2. Ended
        BY DEF Init, Ended, NoRow
    <2>3. QED
        BY <2>1, <2>2 DEF Threads
<1>15. Scopes
    <2>1. ScopesTyped
        BY DEF Init, ScopesTyped
    <2>2. {w \in Writers : depth[w] > 0} = {}
        BY DEF Init
    <2>3. QED
        BY <2>1, <2>2, FS_EmptySet DEF Scopes, Counted, Init
<1>16. QED
    BY <1>4, <1>5, <1>7, <1>11, <1>12, <1>13, <1>14, <1>15 DEF Analysed

LEMMA SteadyAnalysed ==
    ASSUME Analysed, Touched, UNCHANGED <<plan, server, snapshots, refreshing, managerLock>>
    PROVE  PlanTyped' /\ ServerTyped' /\ RowsTyped' /\ CapturesTyped' /\ Sound' /\ Down'
<1>1. UNCHANGED <<published, day, missed, process, up, closed, snapshots, refreshing, managerLock>>
    BY DEF plan, server
<1>2. Revision' = Revision
    BY <1>1 DEF Revision
<1>3. PlanTyped' /\ ServerTyped'
    BY <1>1, <1>2 DEF Analysed, PlanTyped, ServerTyped
<1>4. RowsTyped' /\ Sound'
    BY <1>1, SteadySound DEF Analysed
<1>5. CapturesTyped' /\ Down'
    BY <1>1, <1>2 DEF Analysed, CapturesTyped, Down, OnItsWay
<1>6. QED
    BY <1>3, <1>4, <1>5

LEMMA SameThreads ==
    ASSUME Analysed, UNCHANGED <<threads, told, rows>>
    PROVE  Threads'
BY DEF Analysed, Threads, ThreadsTyped, Batteries, Ended, threads

LEMMA SameScopes ==
    ASSUME Analysed, UNCHANGED planning
    PROVE  Scopes'
BY DEF Analysed, Scopes, ScopesTyped, Counted, planning

LEMMA PlanStays ==
    ASSUME Analysed, UNCHANGED <<published, day>>, missed' \in BOOLEAN
    PROVE  PlanTyped'
BY DEF Analysed, PlanTyped, Revision

(* The writers' commits and scopes.                                        *)
LEMMA WriterStep ==
    ASSUME Analysed, NEW w \in Writers,
           ScopeOpens(w) \/ ScopeCloses(w) \/ \E k \in Contents : Commit(w, k)
    PROVE  Analysed'
<1>1. CASE ScopeOpens(w) \/ ScopeCloses(w)
    <2>1. UNCHANGED <<plan, rows, server, snapshots, refreshing, managerLock, threads, told>>
        BY <1>1 DEF ScopeOpens, ScopeCloses
    <2>2. PlanTyped' /\ ServerTyped' /\ RowsTyped' /\ CapturesTyped' /\ Sound' /\ Down'
        BY <2>1, NothingTouched, SteadyAnalysed DEF Analysed
    <2>3. Threads'
        BY <2>1, SameThreads
    <2>4. Scopes'
        BY <1>1, ScopeOpensEffect, ScopeClosesEffect DEF Analysed, Scopes
    <2>5. QED
        BY <2>2, <2>3, <2>4 DEF Analysed
<1>2. ASSUME NEW k \in Contents, Commit(w, k)
      PROVE  Analysed'
    <2>1. PlanTyped' /\ RowsTyped' /\ CapturesTyped' /\ Sound'
        BY <1>2, CommitSound DEF Analysed
    <2>2. /\ UNCHANGED <<rows, server, threads, planning, told>> /\ up
        BY <1>2 DEF Commit, Serving
    <2>3. ServerTyped' /\ Down'
        BY <2>2 DEF Analysed, ServerTyped, Down, server
    <2>4. Threads' /\ Scopes'
        BY <2>2, SameThreads, SameScopes
    <2>5. QED
        BY <2>1, <2>3, <2>4 DEF Analysed
<1>3. QED
    BY <1>1, <1>2

(* The submissions.                                                        *)
LEMMA SubmitStep ==
    ASSUME Analysed, NEW s \in Submitters, Submit(s)
    PROVE  Analysed'
<1>1. /\ UNCHANGED <<published, day, server, planning, told>> /\ missed' \in BOOLEAN /\ up
    BY DEF Submit, SubmitSkips, SubmitReuses, SubmitRebinding, SubmitRebinds, SubmitFails,
           SubmitStarts, plan, Analysed, PlanTyped
<1>2. PlanTyped' /\ Scopes'
    BY <1>1, PlanStays, SameScopes
<1>3. ServerTyped' /\ Down'
    BY <1>1 DEF Analysed, ServerTyped, Down, server
<1>4. RowsTyped' /\ CapturesTyped' /\ Sound'
    <2>1. CASE SubmitSkips(s) \/ SubmitReuses(s)
        <3>1. /\ managerLock = Nobody /\ snapshots[s].at = "captured" /\ Done(s)
              /\ HasLatest /\ (rows[Latest].rev > snapshots[s].rev \/ rows[Latest].rev = snapshots[s].rev)
              /\ UNCHANGED <<published, missed, rows, process, up>>
            BY <2>1 DEF SubmitSkips, SubmitReuses, Superseded, Reusable, plan, server
        <3>2. OnItsWay(s)
            BY <3>1, CapturedIsOnItsWay
        <3>3. rows[Latest].rev \in Nat /\ snapshots[s].rev \in Nat
            BY <3>1, <3>2, LatestIsNewest, RowIsAnalysis, CaptureIsTyped DEF Analysed, Sound, Automatic
        <3>4. rows[Latest].rev >= snapshots[s].rev
            BY <3>1, <3>3
        <3>5. QED
            BY <3>1, <3>2, <3>4, GivenUpSound DEF Analysed
    <2>2. CASE SubmitFails(s)
        <3>1. /\ OnItsWay(s) /\ managerLock \in {Nobody, s} /\ Done(s)
              /\ missed' = (missed \/ snapshots[s].rev = Revision)
              /\ UNCHANGED <<published, rows, process, up>>
            BY <2>2 DEF SubmitFails, OnItsWay, server
        <3>2. QED
            BY <3>1, GivenUpSound DEF Analysed
    <2>3. CASE SubmitRebinding(s)
        BY <2>3, RebindingSound DEF Analysed
    <2>4. CASE SubmitRebinds(s)
        BY <2>4, ReboundSound DEF Analysed
    <2>5. CASE \E j \in Jobs : SubmitStarts(s, j)
        BY <2>5, StartsSound DEF Analysed
    <2>6. QED
        BY <2>1, <2>2, <2>3, <2>4, <2>5 DEF Submit
<1>5. Threads'
    <2>1. CASE SubmitSkips(s) \/ SubmitReuses(s) \/ SubmitFails(s) \/ SubmitRebinding(s)
        <3>1. UNCHANGED <<threads, told, rows>>
            BY <2>1 DEF SubmitSkips, SubmitReuses, SubmitFails, SubmitRebinding
        <3>2. QED
            BY <3>1, SameThreads
    <2>2. CASE SubmitRebinds(s)
        <3>1. rows' = [rows EXCEPT ![Latest].rev = snapshots[s].rev] /\ UNCHANGED <<threads, told>>
            BY <2>2 DEF SubmitRebinds
        <3>2. \A j \in Jobs : rows'[j].status = rows[j].status /\ (rows'[j] = rows[j] \/ j = Latest)
            BY <3>1 DEF Analysed, RowsTyped
        <3>3. HasLatest /\ Latest \in Automatic /\ Latest \in Jobs /\ rows[Latest] \in Analyses
            BY <2>2, LatestIsNewest, RowIsAnalysis
               DEF SubmitRebinds, Analysed, Sound, Rebinding, Automatic, Table
        <3>4. rows'[Latest].whole = rows[Latest].whole
            BY <3>1, <3>3 DEF Analysed, RowsTyped, Analyses
        <3>5. Ended'
            BY <3>1, <3>2, <3>4 DEF Analysed, Threads, Ended
        <3>6. QED
            BY <3>1, <3>5 DEF Analysed, Threads, ThreadsTyped, Batteries, threads
    <2>3. ASSUME NEW j \in Jobs, SubmitStarts(s, j)
          PROVE  Threads'
        <3>1. Started(j, "auto", snapshots[s]) /\ told' = told /\ OnItsWay(s)
            BY <2>3, CapturedIsOnItsWay DEF SubmitStarts
        <3>2. /\ snapshots[s].rev \in Nat /\ snapshots[s].content \in Contents
              /\ snapshots[s].day \in 0..MaxDay
            BY <3>1, CaptureIsTyped DEF Analysed
        <3>3. "auto" \in Triggers
            BY DEF Triggers
        <3>4. QED
            BY <3>1, <3>2, <3>3, StartedThreads DEF Analysed, Threads
    <2>4. QED
        BY <2>1, <2>2, <2>3 DEF Submit
<1>6. QED
    BY <1>2, <1>3, <1>4, <1>5 DEF Analysed

(* The clients and the threads of the analyses.                            *)
LEMMA JobStep ==
    ASSUME Analysed, NEW j \in Jobs, StartManual(j) \/ Cancel(j) \/ Work(j) \/ RunFails(j)
    PROVE  Analysed'
<1>1. UNCHANGED <<plan, server, snapshots, refreshing, managerLock, planning>>
    BY DEF StartManual, Cancel, Work, RunFails, RunMarks, ScenarioCleared, ScenarioReplayed,
           RunDecides, RunEnds
<1>2. Scopes'
    BY <1>1, SameScopes
<1>3. CASE StartManual(j)
    <2>1. RowsTyped' /\ CapturesTyped' /\ Sound'
        BY <1>3, ManualSound DEF Analysed
    <2>2. PlanTyped' /\ ServerTyped' /\ Down'
        BY <1>1 DEF Analysed, PlanTyped, ServerTyped, Down, OnItsWay, Revision, plan, server
    <2>3. Started(j, "manual", Unread) /\ told' = told
        BY <1>3 DEF StartManual
    <2> PICK i : i = Unread
        OBVIOUS
    <2>4. i.rev \in Nat /\ i.content \in Contents /\ i.day \in 0..MaxDay
        BY RevisionIsPositive DEF Unread, Analysed
    <2>5. "manual" \in Triggers
        BY DEF Triggers
    <2>6. Threads'
        BY <2>3, <2>4, <2>5, StartedThreads DEF Analysed, Threads
    <2>7. QED
        BY <1>2, <2>1, <2>2, <2>6 DEF Analysed
<1>4. CASE Cancel(j) \/ RunMarks(j) \/ RunEnds(j) \/ RunFails(j)
    <2>1. Touched /\ ThreadsTyped' /\ Batteries' /\ Ended'
        BY <1>4, CancelThreads, RunThreads DEF Analysed, Threads
    <2>2. PlanTyped' /\ ServerTyped' /\ RowsTyped' /\ CapturesTyped' /\ Sound' /\ Down'
        BY <1>1, <2>1, SteadyAnalysed
    <2>3. QED
        BY <1>2, <2>1, <2>2 DEF Analysed, Threads
<1>5. CASE ScenarioCleared(j) \/ ScenarioReplayed(j) \/ RunDecides(j)
    <2>1. rows' = rows /\ told' = told
        BY <1>5 DEF ScenarioCleared, ScenarioReplayed, RunDecides
    <2>2. PlanTyped' /\ ServerTyped' /\ RowsTyped' /\ CapturesTyped' /\ Sound' /\ Down'
        BY <1>1, <2>1, NothingTouched, SteadyAnalysed DEF Analysed
    <2>3. ThreadsTyped' /\ Batteries'
        BY <1>5, ScenarioThreads DEF Analysed, Threads
    <2>4. Ended'
        BY <2>1 DEF Analysed, Threads, Ended
    <2>5. QED
        BY <1>2, <2>2, <2>3, <2>4 DEF Analysed, Threads
<1>6. QED
    BY <1>3, <1>4, <1>5 DEF Work

(* Time, the refresh, the end and the start of a process.                  *)
LEMMA ServerStep ==
    ASSUME Analysed, RequestRefresh \/ RefreshCaptures \/ NewDay \/ Shutdown \/ Crash \/ Restart
    PROVE  Analysed'
<1>1. CASE RequestRefresh
    <2>1. /\ refreshing' = TRUE /\ UNCHANGED <<plan, rows, server, snapshots, managerLock, threads, planning, told>>
        BY <1>1 DEF RequestRefresh
    <2>2. PlanTyped' /\ ServerTyped' /\ CapturesTyped' /\ Down'
        BY <2>1 DEF Analysed, PlanTyped, ServerTyped, CapturesTyped, Down, OnItsWay, Revision, plan, server
    <2>3. RowsTyped' /\ Sound'
        <3>1. UNCHANGED <<published, missed, process, up>>
            BY <2>1 DEF plan, server
        <3>2. QED
            BY <2>1, <3>1, NothingTouched, SteadySound DEF Analysed
    <2>4. Threads' /\ Scopes'
        BY <2>1, SameThreads, SameScopes
    <2>5. QED
        BY <2>2, <2>3, <2>4 DEF Analysed
<1>2. CASE RefreshCaptures
    <2>1. /\ UNCHANGED <<published, day, rows, server, threads, planning, told>> /\ up
          /\ missed' \in BOOLEAN
        BY <1>2 DEF RefreshCaptures, Analysed, PlanTyped
    <2>2. RowsTyped' /\ CapturesTyped' /\ Sound'
        BY <1>2, RefreshSound DEF Analysed
    <2>3. PlanTyped' /\ Threads' /\ Scopes'
        BY <2>1, PlanStays, SameThreads, SameScopes
    <2>4. ServerTyped' /\ Down'
        BY <2>1 DEF Analysed, ServerTyped, Down, server
    <2>5. QED
        BY <2>2, <2>3, <2>4 DEF Analysed
<1>3. CASE NewDay
    <2>1. /\ UNCHANGED <<published, missed, rows, server, snapshots, refreshing, managerLock, threads,
                         planning, told>>
          /\ day' = day + 1 /\ day < MaxDay
        BY <1>3 DEF NewDay
    <2>2. PlanTyped'
        BY <2>1 DEF Analysed, PlanTyped, Revision
    <2>3. ServerTyped' /\ CapturesTyped' /\ Down'
        BY <2>1 DEF Analysed, ServerTyped, CapturesTyped, Down, OnItsWay, Revision, server
    <2>4. RowsTyped' /\ Sound'
        <3>1. UNCHANGED <<process, up>>
            BY <2>1 DEF server
        <3>2. QED
            BY <2>1, <3>1, NothingTouched, SteadySound DEF Analysed
    <2>5. Threads' /\ Scopes'
        BY <2>1, SameThreads, SameScopes
    <2>6. QED
        BY <2>2, <2>3, <2>4, <2>5 DEF Analysed
<1>4. CASE Shutdown
    <2>1. /\ UNCHANGED <<plan, rows, process, up, snapshots, refreshing, managerLock, planning, told>>
          /\ closed' = TRUE
        BY <1>4 DEF Shutdown
    <2>2. PlanTyped' /\ ServerTyped' /\ CapturesTyped' /\ Down'
        BY <2>1 DEF Analysed, PlanTyped, ServerTyped, CapturesTyped, Down, OnItsWay, Revision, plan
    <2>3. RowsTyped' /\ Sound'
        <3>1. UNCHANGED <<published, missed>>
            BY <2>1 DEF plan
        <3>2. QED
            BY <2>1, <3>1, NothingTouched, SteadySound DEF Analysed
    <2>4. ThreadsTyped' /\ Batteries'
        BY <1>4, StoppedThreads DEF Analysed, Threads
    <2>5. Ended'
        BY <2>1 DEF Analysed, Threads, Ended
    <2>6. QED
        BY <2>1, <2>2, <2>3, <2>4, <2>5, SameScopes DEF Analysed, Threads
<1>5. CASE Crash
    <2>1. /\ UNCHANGED <<plan, rows, process, closed, told>> /\ up' = FALSE
          /\ depth' = [w \in Writers |-> 0] /\ active' = 0 /\ process < MaxProcesses
          /\ snapshots' = [s \in Submitters |-> NoSnapshot]
        BY <1>5 DEF Crash
    <2>2. RowsTyped' /\ CapturesTyped' /\ Sound'
        BY <1>5, CrashSound DEF Analysed
    <2>3. PlanTyped' /\ ServerTyped' /\ Down'
        BY <2>1 DEF Analysed, PlanTyped, ServerTyped, Down, OnItsWay, Revision, plan
    <2>4. ThreadsTyped' /\ Batteries'
        BY <1>5, StoppedThreads DEF Analysed, Threads
    <2>5. Ended'
        BY <2>1 DEF Analysed, Threads, Ended
    <2>6. Scopes'
        <3>1. {w \in Writers : depth'[w] > 0} = {}
            BY <2>1
        <3>2. ScopesTyped'
            BY <2>1 DEF ScopesTyped
        <3>3. Counted'
            BY <2>1, <3>1, FS_EmptySet DEF Counted
        <3>4. QED
            BY <3>2, <3>3 DEF Scopes
    <2>7. QED
        BY <2>2, <2>3, <2>4, <2>5, <2>6 DEF Analysed, Threads
<1>6. CASE Restart
    <2>1. /\ UNCHANGED <<published, day, rows, threads, planning, told>> /\ up' = TRUE
          /\ closed' = FALSE /\ missed' \in BOOLEAN
        BY <1>6 DEF Restart
    <2>2. RowsTyped' /\ CapturesTyped' /\ Sound'
        BY <1>6, RestartSound DEF Analysed
    <2>3. PlanTyped' /\ Threads' /\ Scopes'
        BY <2>1, PlanStays, SameThreads, SameScopes
    <2>4. Down'
        BY <2>1 DEF Down
    <2>5. ServerTyped'
        <3>1. ~up /\ process' = process + 1
            BY <1>6 DEF Restart
        <3>2. process \in 1..(MaxProcesses + 1) /\ process < MaxProcesses
            BY <3>1 DEF Analysed, ServerTyped, Down
        <3>3. process' \in 1..(MaxProcesses + 1)
            BY <3>1, <3>2
        <3>4. QED
            BY <2>1, <3>3 DEF ServerTyped
    <2>6. QED
        BY <2>2, <2>3, <2>4, <2>5 DEF Analysed
<1>7. QED
    BY <1>1, <1>2, <1>3, <1>4, <1>5, <1>6

LEMMA StepAnalysed == Analysed /\ [Next]_vars => Analysed'
<1> SUFFICES ASSUME Analysed, [Next]_vars
             PROVE  Analysed'
    OBVIOUS
<1>1. CASE UNCHANGED vars
    <2>1. UNCHANGED <<plan, rows, server, snapshots, refreshing, managerLock, threads, planning, told>>
        BY <1>1 DEF vars, plan, server, threads, planning
    <2>2. PlanTyped' /\ ServerTyped' /\ RowsTyped' /\ CapturesTyped' /\ Sound' /\ Down'
        BY <2>1, NothingTouched, SteadyAnalysed DEF Analysed
    <2>3. QED
        BY <2>1, <2>2, SameThreads, SameScopes DEF Analysed
<1>2. QED
    BY <1>1, WriterStep, SubmitStep, JobStep, ServerStep DEF Next

(* The invariant holds in every state.                                     *)
THEOREM AlwaysAnalysed == Spec => []Analysed
<1>1. QED
    BY InitAnalysed, StepAnalysed, PTL DEF Spec

(* The table robustness_jobs, the threads and the scopes keep their types. *)
THEOREM AnalysisTypes == Spec => []TypeOK
<1>1. Analysed => TypeOK
    BY TypedParts DEF Analysed, Typed, Threads, Scopes
<1>2. QED
    BY <1>1, AlwaysAnalysed, PTL

(* When nothing is on its way and nothing was lost, the newest automatic   *)
(* analysis is of the published revision, in whatever order the commits,   *)
(* the refresh and the starts of the server submitted theirs.              *)
THEOREM NewestIsCurrent == Spec => []AnalysisIsCurrent
<1>1. Analysed => AnalysisIsCurrent
    BY DEF Analysed, Sound, Accounted, AnalysisIsCurrent
<1>2. QED
    BY <1>1, AlwaysAnalysed, PTL

(* An automatic analysis replays the plan of the revision it says it is    *)
(* of, also after submit_auto_snapshot rebound it to a newer one.          *)
THEOREM AnalysesReplayTheirPlan == Spec => []BoundToItsInputs
<1>1. Analysed => BoundToItsInputs
    BY DEF Analysed, Sound, Bound, BoundToItsInputs
<1>2. QED
    BY <1>1, AlwaysAnalysed, PTL

(* Completed means that the whole battery was replayed (_run), and a       *)
(* cancellation that was promised is kept.                                 *)
THEOREM AnalysesEndAsTold == Spec => []EndsAreTrue
<1>1. Analysed => EndsAreTrue
    BY DEF Analysed, Threads, Ended, EndsAreTrue, Table
<1>2. QED
    BY <1>1, AlwaysAnalysed, PTL
=============================================================================
