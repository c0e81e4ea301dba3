----------------------------- MODULE ContextProofs -----------------------------
(***************************************************************************)
(* Proofs about the contexts of a Space, with the forges: a turn is only   *)
(* appended to the history its prompt was made from, the answer of a       *)
(* completed API run is never forgotten, and a session is forged from all  *)
(* that was said in its source, for every number of seats, posts, sessions *)
(* and generations and every positive number of carried turns.             *)
(***************************************************************************)
EXTENDS ContextForges, FiniteSetTheorems, TLAPS

-----------------------------------------------------------------------------
(* The inductive invariant *)

Contexts == SpaceSessions \X Seats
Said     == Range(log)
Used(p)  == runs[p] # NoRun
Turns(x) == history[x].turns

RunRows ==
    [status : {"pending", "running", "completed", "failed"}, seat : Seats,
     session : SpaceSessions, generation : Nat, prepared : BOOLEAN, base : Nat,
     seen : Seq(Posts), committed : BOOLEAN]

JobRows ==
    [status : {"queued", "running"}, session : SpaceSessions, from : Nat,
     sourceSeq : Nat, included : SUBSET Posts, checkpoint : SUBSET Messages]

TargetStatuses == {"queued", "running", "succeeded", "failed", "cancelled"}
DraftStatuses  == {"generating", "ready", "failed", "cancelled", "stale", "confirmed"}

TargetRows == [Seats -> [status : TargetStatuses, capsule : SUBSET Messages]]

DraftRows ==
    [status : DraftStatuses, session : SpaceSessions, sourceSeq : Nat, version : Nat,
     edited : BOOLEAN, targets : TargetRows]

(* Everything but the queues has its type.                                 *)
ContextTypes ==
    /\ cliSeats \subseteq Seats /\ active \in SpaceSessions
    /\ spaceSession \in [SpaceSessions -> {"none", "active", "archived"}]
    /\ agentSession \in [Contexts -> [status : {"none", "active", "archived"}, generation : Nat]]
    /\ history \in [Contexts -> [version : Nat, turns : Seq(Posts), since : Nat]]
    /\ covered \in [Contexts -> SUBSET Messages]
    /\ log \in Seq(Messages)
    /\ replies \in [Posts -> {"none", "streaming", "completed", "failed"}]
    /\ runs \in [Posts -> RunRows \union {NoRun}]
    /\ compaction \in [Seats -> JobRows \union {NoCompaction}]

DraftTypes == draft \in [Drafts -> DraftRows \union {NoDraft}]

UsedPosts == {q \in Posts : runs[q] # NoRun}
Started   == {t \in SpaceSessions : spaceSession[t] # "none"}

(* Posts and SpaceSessions are numbered without gaps; a started session    *)
(* has seats.                                                              *)
Numbered ==
    /\ UsedPosts = 1 .. Posted /\ Posted \in Nat
    /\ Started = 1 .. Cardinality(Started) /\ Cardinality(Started) \in Nat
    /\ active \in Started
    /\ \A s \in Started, a \in Seats : agentSession[<<s, a>>].status # "none"

(* A message is logged once, and only of a run that exists.                *)
LogSound ==
    /\ \A i, j \in 1 .. Len(log) : log[i] = log[j] => i = j
    /\ \A i \in 1 .. Len(log) :
          Used(log[i][1]) /\ (log[i][2] = "reply" => replies[log[i][1]] # "none")
    /\ \A p \in Posts : replies[p] # "none" => Used(p) /\ <<p, "reply">> \in Said

(* The prompt of a prepared run of the current generation was made from a  *)
(* history that is still the current one if it has the same version.       *)
BaseSound(p) ==
    runs[p].prepared /\ ~runs[p].committed /\ runs[p].generation = agentSession[At(p)].generation
    => /\ runs[p].base <= history[At(p)].version
       /\ runs[p].base = history[At(p)].version => runs[p].seen = Turns(At(p))

(* The turn of a run is in its context, or a checkpoint has its reply.     *)
Remembered(p) ==
    \/ \E i \in 1 .. Len(Turns(At(p))) : Turns(At(p))[i] = p
    \/ p <= history[At(p)].since
    \/ <<p, "reply">> \in covered[At(p)]

RunSound(p) ==
    /\ runs[p].session \in Started
    /\ runs[p].generation <= agentSession[At(p)].generation
    /\ runs[p].status = "running" => runs[p].prepared
    /\ runs[p].prepared => IsActive(p)
    /\ runs[p].committed => replies[p] = "completed"
    /\ runs[p].status = "completed" /\ runs[p].seat \notin cliSeats => runs[p].committed
    /\ BaseSound(p)
    /\ runs[p].committed => Remembered(p)

RunsSound == \A p \in Posts : Used(p) => RunSound(p)

(* The turns of a history are committed runs of its context.               *)
TurnsSound ==
    \A x \in Contexts : \A i \in 1 .. Len(Turns(x)) :
        LET p == Turns(x)[i] IN Used(p) /\ At(p) = x /\ runs[p].committed

(* The reply of p will be in the checkpoint of the job of seat a.          *)
Awaited(a, p) ==
    \/ p \in compaction[a].included
    \/ \E i \in 1 .. Len(log) : log[i] = <<p, "reply">> /\ i <= compaction[a].sourceSeq

(* No run can still extend the history of context x.                       *)
NoExtension(x) ==
    \A p \in Posts :
        /\ Used(p) /\ At(p) = x /\ runs[p].prepared /\ ~runs[p].committed
        /\ runs[p].generation = agentSession[x].generation
        => runs[p].base # history[x].version

(* While the daemon compacts, at most one turn is added: the checkpoint    *)
(* has all the others, and the last turn too until a run has extended the  *)
(* history that all prepared runs have seen.                               *)
CheckpointSound(a) ==
    LET x == Target(a) IN
    /\ covered[x] \subseteq compaction[a].checkpoint
    /\ \A i \in 1 .. Len(Turns(x)) - 1 : <<Turns(x)[i], "reply">> \in compaction[a].checkpoint
    /\ \/ Len(Turns(x)) = 0
       \/ <<Turns(x)[Len(Turns(x))], "reply">> \in compaction[a].checkpoint
       \/ NoExtension(x)

JobSound(a) ==
    /\ compaction[a].session \in Started
    /\ compaction[a].from <= agentSession[Target(a)].generation
    /\ \A p \in Posts : Used(p) /\ At(p) = Target(a) /\ (runs[p].prepared \/ runs[p].committed)
                        => Awaited(a, p)
    /\ /\ compaction[a].status = "running"
       /\ agentSession[Target(a)].generation = compaction[a].from
       => CheckpointSound(a)

JobsSound == \A a \in Seats : compaction[a] # NoCompaction => JobSound(a)

ContextInv ==
    ContextTypes /\ Numbered /\ LogSound /\ RunsSound /\ TurnsSound /\ JobsSound

-----------------------------------------------------------------------------
(* The largest of a set of numbers *)

LessThan == {x \in Nat \X Nat : x[1] < x[2]}

(* The library's order of the natural numbers, as a set of pairs.         *)
LEMMA LessThanWellFounded == IsWellFoundedOn(LessThan, Nat)
BY NatLessThanWellFounded DEF OpToRel, LessThan

(* Max finds the largest member of a bounded set.                          *)
LEMMA LargestNatural ==
    ASSUME NEW n \in Nat, NEW S \in SUBSET (1 .. n), S # {}
    PROVE  Max(S) \in S /\ \A x \in S : x <= Max(S)
<1> DEFINE T == {u \in Nat : \A x \in S : x <= u}
<1>1. n \in T
  OBVIOUS
<1>2. PICK u \in T : \A y \in T : ~(<<y, u>> \in LessThan)
  BY <1>1, LessThanWellFounded, WFMin
<1>3. u \in S
  <2>1. SUFFICES ASSUME u \notin S PROVE FALSE
    OBVIOUS
  <2>2. u \in Nat /\ \A x \in S : x \in Nat /\ x >= 1 /\ x <= u /\ x # u
    BY <1>2, <2>1
  <2>0. PICK w \in S : TRUE
    OBVIOUS
  <2>3. u - 1 \in Nat /\ u - 1 < u /\ \A x \in S : x <= u - 1
    BY <2>0, <2>2
  <2>4. u - 1 \in T /\ <<u - 1, u>> \in LessThan
    BY <2>2, <2>3 DEF LessThan
  <2>5. QED
    BY <1>2, <2>4
<1>4. u \in S /\ \A y \in S : u >= y
  BY <1>2, <1>3
<1>5. QED
  BY <1>4 DEF Max

(* SourceSeq is a number that no message of the session exceeds.           *)
LEMMA SourceSeqBounds ==
    ASSUME ContextTypes, LogSound, NEW s \in SpaceSessions
    PROVE  /\ SourceSeq(s) \in Nat
           /\ \A i \in 1 .. Len(log) : SessionOf(log[i]) = s => i <= SourceSeq(s)
<1> DEFINE S == {Place(m) : m \in In(s)}
<1>1. \A i \in 1 .. Len(log) : Place(log[i]) = i
  BY DEF Place, LogSound
<1>2. Len(log) \in Nat /\ Said = {log[i] : i \in 1 .. Len(log)}
  BY DEF ContextTypes, Said, Range
<1>3. /\ S \in SUBSET (1 .. Len(log))
      /\ \A i \in 1 .. Len(log) : SessionOf(log[i]) = s => i \in S
  BY <1>1, <1>2 DEF In, Said
<1>4. CASE In(s) = {}
  BY <1>2, <1>3, <1>4 DEF SourceSeq
<1>5. CASE In(s) # {}
  <2>1. S # {}
    BY <1>5
  <2>2. Max(S) \in S /\ \A x \in S : x <= Max(S)
    BY <1>2, <1>3, <2>1, LargestNatural
  <2>3. SourceSeq(s) = Max(S)
    BY <1>5 DEF SourceSeq
  <2>4. QED
    BY <1>2, <1>3, <2>2, <2>3
<1>6. QED
  BY <1>4, <1>5

(* So is HighWater.                                                        *)
LEMMA HighWaterIsNatural ==
    ASSUME ContextTypes, LogSound, NEW s \in SpaceSessions
    PROVE  HighWater(s) \in Nat
<1> DEFINE S == {Place(m) : m \in {x \in In(s) : Completed(x)}}
<1>1. \A i \in 1 .. Len(log) : Place(log[i]) = i
  BY DEF Place, LogSound
<1>2. Len(log) \in Nat /\ Said = {log[i] : i \in 1 .. Len(log)}
  BY DEF ContextTypes, Said, Range
<1>3. S \in SUBSET (1 .. Len(log))
  BY <1>1, <1>2 DEF In, Said
<1>4. CASE S = {}
  BY <1>4 DEF HighWater
<1>5. CASE S # {}
  <2>1. Max(S) \in S
    BY <1>2, <1>3, <1>5, LargestNatural
  <2>2. HighWater(s) = Max(S)
    BY <1>5 DEF HighWater
  <2>3. QED
    BY <1>2, <1>3, <2>1, <2>2
<1>6. QED
  BY <1>4, <1>5

-----------------------------------------------------------------------------
(* Steps that only move runs and jobs along *)

USE DEF NoRun, NoCompaction, sessionVars, logVars, contextVars

(* The row of run p stays in its place; if it is prepared anew, its        *)
(* account is not compacting.                                              *)
MildRun(p) ==
    /\ runs'[p] \in RunRows \union {NoRun}
    /\ runs'[p] = NoRun <=> runs[p] = NoRun
    /\ Used(p) =>
         /\ runs'[p].seat = runs[p].seat /\ runs'[p].session = runs[p].session
         /\ runs'[p].generation = runs[p].generation
         /\ runs'[p].committed = runs[p].committed
         /\ runs'[p].status = "running" => runs'[p].prepared
         /\ runs'[p].prepared => runs'[p].status \in {"pending", "running"}
         /\ runs'[p].status = "completed" /\ runs[p].seat \notin cliSeats => runs[p].committed
         /\ runs'[p].prepared =>
               \/ runs[p].prepared /\ runs'[p].base = runs[p].base /\ runs'[p].seen = runs[p].seen
               \/ /\ runs'[p].base = history[At(p)].version /\ runs'[p].seen = Turns(At(p))
                  /\ ~Compacting(runs[p].seat)

Mild ==
    /\ UNCHANGED <<sessionVars, history, covered, log>>
    /\ runs' = [p \in Posts |-> runs'[p]]
    /\ \A p \in Posts : MildRun(p)
    /\ replies' \in [Posts -> {"none", "streaming", "completed", "failed"}]
    /\ \A p \in Posts : /\ replies[p] = "completed" => replies'[p] = "completed"
                        /\ replies'[p] = "none" <=> replies[p] = "none"
    /\ compaction' = [a \in Seats |-> compaction'[a]]
    /\ \A a \in Seats : compaction'[a] \in {compaction[a], NoCompaction}

(* The type of a row, field by field.                                      *)
LEMMA RunType ==
    ASSUME ContextTypes, NEW p \in Posts, Used(p)
    PROVE  /\ runs[p] \in RunRows
           /\ runs[p].status \in {"pending", "running", "completed", "failed"}
           /\ runs[p].seat \in Seats /\ runs[p].session \in SpaceSessions
           /\ runs[p].generation \in Nat /\ runs[p].base \in Nat
           /\ runs[p].prepared \in BOOLEAN /\ runs[p].committed \in BOOLEAN
           /\ runs[p].seen \in Seq(Posts)
           /\ At(p) \in Contexts
BY DEF ContextTypes, Used, RunRows, At, Contexts

LEMMA JobType ==
    ASSUME ContextTypes, NEW a \in Seats, compaction[a] # NoCompaction
    PROVE  /\ compaction[a] \in JobRows
           /\ compaction[a].status \in {"queued", "running"}
           /\ compaction[a].session \in SpaceSessions
           /\ compaction[a].from \in Nat /\ compaction[a].sourceSeq \in Nat
           /\ compaction[a].included \subseteq Posts
           /\ compaction[a].checkpoint \subseteq Messages
           /\ Target(a) \in Contexts
           /\ Compacting(a)
BY DEF ContextTypes, JobRows, Target, Contexts, Compacting

(* A mild step keeps everything.                                           *)
LEMMA MildInv ==
    ASSUME ContextInv, Mild
    PROVE  ContextInv'
<1> USE DEF ContextInv
<1>1. ContextTypes'
  BY DEF ContextTypes, Mild, MildRun, Contexts
<1>2. \A p \in Posts : (Used(p)' <=> Used(p)) /\ (Used(p) => At(p)' = At(p))
  BY DEF Mild, MildRun, Used, At
<1>3. Numbered'
  <2>1. UsedPosts' = UsedPosts
    BY <1>2 DEF UsedPosts, Used
  <2>2. Posted' = Posted
    BY <2>1 DEF Posted, UsedPosts
  <2>3. QED
    BY <2>1, <2>2 DEF Numbered, Mild, Started
<1>4. LogSound'
  <2>1. \A i \in 1 .. Len(log) : log[i] \in Messages
    BY DEF ContextTypes
  <2>2. \A i \in 1 .. Len(log) : log[i][1] \in Posts
    BY <2>1 DEF Messages
  <2>3. QED
    BY <1>2, <2>2 DEF LogSound, Mild, Said
<1>5. RunsSound'
  <2>1. SUFFICES ASSUME NEW p \in Posts, Used(p)
        PROVE  RunSound(p)'
    BY <1>2 DEF RunsSound
  <2>2. RunSound(p) /\ MildRun(p) /\ At(p)' = At(p)
    BY <1>2, <2>1 DEF RunsSound, Mild
  <2>3. BaseSound(p)'
    <3>1. history[At(p)].version \in Nat
      BY <2>1, RunType DEF ContextTypes
    <3>2. QED
      BY <2>1, <2>2, <3>1 DEF RunSound, BaseSound, MildRun, Mild, Turns
  <2>4. Remembered(p)' <=> Remembered(p)
    BY <2>2 DEF Mild, Remembered, Turns
  <2>5. QED
    BY <2>1, <2>2, <2>3, <2>4, <1>1 DEF RunSound, MildRun, Mild, Started, IsActive
<1>6. TurnsSound'
  <2>1. SUFFICES ASSUME NEW x \in Contexts, NEW i \in 1 .. Len(Turns(x))
        PROVE  LET p == Turns(x)[i] IN (Used(p) /\ At(p) = x /\ runs[p].committed)'
    BY DEF TurnsSound, Contexts, Mild, Turns
  <2>2. Turns(x)[i] \in Posts
    BY <2>1 DEF ContextTypes, Turns
  <2>3. QED
    BY <1>2, <2>1, <2>2 DEF TurnsSound, Mild, MildRun, Turns
<1>7. JobsSound'
  <2>1. SUFFICES ASSUME NEW a \in Seats, compaction'[a] # NoCompaction
        PROVE  JobSound(a)'
    BY DEF JobsSound
  <2>2. compaction'[a] = compaction[a] /\ compaction[a] # NoCompaction /\ JobSound(a)
    BY <2>1 DEF Mild, JobsSound
  <2>3. /\ Compacting(a) /\ Target(a)' = Target(a) /\ Target(a) \in Contexts
        /\ Target(a)[2] = a
    BY <2>2, JobType DEF Target
  <2>4. ASSUME NEW p \in Posts, Used(p), At(p) = Target(a)
        PROVE  /\ runs'[p].prepared => /\ runs[p].prepared
                                       /\ runs'[p].base = runs[p].base
               /\ runs'[p].committed = runs[p].committed
               /\ runs'[p].generation = runs[p].generation
    <3>1. runs[p].seat = a
      BY <2>4, <2>3 DEF At
    <3>2. QED
      BY <2>3, <2>4, <3>1 DEF Mild, MildRun
  <2>5. \A p \in Posts : Awaited(a, p)' <=> Awaited(a, p)
    BY <2>2 DEF Mild, Awaited
  <2>6. NoExtension(Target(a)) => NoExtension(Target(a))'
    BY <1>2, <2>3, <2>4 DEF NoExtension, Mild
  <2>7. CheckpointSound(a) => CheckpointSound(a)'
    BY <2>2, <2>3, <2>6 DEF CheckpointSound, Mild, Turns
  <2>8. QED
    BY <1>2, <2>2, <2>3, <2>4, <2>5, <2>7 DEF JobSound, Mild, Started
<1>8. QED
  BY <1>1, <1>3, <1>4, <1>5, <1>6, <1>7

(* Steps that neither prepare a run nor change what is said are mild.      *)
LEMMA QuietInv ==
    ASSUME ContextInv, UNCHANGED <<sessionVars, history, covered, logVars, runs, compaction>>
    PROVE  ContextInv'
<1>1. Mild
  BY DEF Mild, MildRun, ContextInv, ContextTypes, RunsSound, RunSound, Used, IsActive
<1>2. QED
  BY <1>1, MildInv

(* The row of an ended run.                                                *)
LEMMA EndedRow ==
    ASSUME ContextInv, NEW p \in Posts, Used(p), NEW status \in {"completed", "failed"}
    PROVE  /\ Ended(p, status) \in RunRows /\ Ended(p, status) # NoRun
           /\ Ended(p, status).seat = runs[p].seat
           /\ Ended(p, status).session = runs[p].session
           /\ Ended(p, status).generation = runs[p].generation
           /\ Ended(p, status).committed = runs[p].committed
           /\ Ended(p, status).status = status
           /\ ~Ended(p, status).prepared
<1>1. runs[p] \in RunRows
  BY RunType DEF ContextInv
<1>2. << >> \in Seq(Posts)
  OBVIOUS
<1>3. QED
  BY <1>1, <1>2 DEF Ended, RunRows

(* A run that does not change is mild.                                     *)
LEMMA SameRun ==
    ASSUME ContextInv, NEW p \in Posts, runs'[p] = runs[p]
    PROVE  MildRun(p)
  BY DEF MildRun, ContextInv, ContextTypes, RunsSound, RunSound, Used, IsActive

(* Ending runs is mild.                                                    *)
LEMMA EndingInv ==
    ASSUME ContextInv, UNCHANGED <<sessionVars, history, covered, log>>,
           runs' = [p \in Posts |-> runs'[p]],
           \A p \in Posts : \/ runs'[p] = runs[p]
                            \/ IsActive(p) /\ runs'[p] = Ended(p, "failed")
                            \/ /\ Used(p) /\ runs'[p] = Ended(p, "completed")
                               /\ runs[p].seat \in cliSeats \/ runs[p].committed,
           replies' \in [Posts -> {"none", "streaming", "completed", "failed"}],
           \A p \in Posts : /\ replies[p] = "completed" => replies'[p] = "completed"
                            /\ replies'[p] = "none" <=> replies[p] = "none",
           compaction' = [a \in Seats |-> compaction'[a]],
           \A a \in Seats : compaction'[a] \in {compaction[a], NoCompaction}
    PROVE  ContextInv'
<1>1. ASSUME NEW p \in Posts
      PROVE  MildRun(p)
  <2>1. CASE runs'[p] = runs[p]
    BY <2>1, SameRun
  <2>2. CASE IsActive(p) /\ runs'[p] = Ended(p, "failed")
    <3>1. Used(p)
      BY <2>2 DEF IsActive, Used
    <3>2. QED
      BY <2>2, <3>1, EndedRow DEF MildRun, Used
  <2>3. CASE /\ Used(p) /\ runs'[p] = Ended(p, "completed")
             /\ runs[p].seat \in cliSeats \/ runs[p].committed
    <3>1. Used(p) /\ runs'[p] = Ended(p, "completed")
      BY <2>3
    <3>2. /\ runs'[p] \in RunRows /\ runs'[p] # NoRun
          /\ runs'[p].seat = runs[p].seat /\ runs'[p].session = runs[p].session
          /\ runs'[p].generation = runs[p].generation
          /\ runs'[p].committed = runs[p].committed
          /\ runs'[p].status = "completed" /\ ~runs'[p].prepared
      BY <3>1, EndedRow
    <3>3. runs[p].seat \notin cliSeats => runs[p].committed
      BY <2>3
    <3>4. QED
      BY <3>1, <3>2, <3>3 DEF MildRun, Used
  <2>4. QED
    BY <2>1, <2>2, <2>3
<1>2. Mild
  BY <1>1 DEF Mild
<1>3. QED
  BY <1>2, MildInv

LEMMA PrepareInv ==
    ASSUME ContextInv, NEW p \in Posts, Prepare(p)
    PROVE  ContextInv'
<1>1. Used(p) /\ IsActive(p)
  BY DEF Prepare, Used, IsActive
<1>2. CASE FinishRun(p, "failed")
  <2>1. /\ runs' = [q \in Posts |-> runs'[q]]
        /\ \A q \in Posts : runs'[q] = runs[q] \/ (IsActive(q) /\ runs'[q] = Ended(q, "failed"))
    BY <1>1, <1>2 DEF FinishRun, ContextInv, ContextTypes
  <2>2. QED
    BY <2>1, EndingInv DEF Prepare, ContextInv, ContextTypes
<1>3. CASE /\ ~Compacting(runs[p].seat)
           /\ runs' = [runs EXCEPT ![p].prepared = TRUE,
                                   ![p].base = history[At(p)].version,
                                   ![p].seen = history[At(p)].turns]
  <2>1. /\ runs[p] \in RunRows /\ At(p) \in Contexts
        /\ history[At(p)].version \in Nat /\ history[At(p)].turns \in Seq(Posts)
    BY <1>1, RunType DEF ContextInv, ContextTypes
  <2>2. MildRun(p)
    BY <1>1, <1>3, <2>1 DEF MildRun, ContextInv, ContextTypes, RunRows, Prepare, Turns
  <2>3. \A q \in Posts \ {p} : MildRun(q)
    BY <1>3, SameRun DEF ContextInv, ContextTypes
  <2>4. Mild
    BY <1>3, <2>2, <2>3 DEF Mild, Prepare, ContextInv, ContextTypes
  <2>5. QED
    BY <2>4, MildInv
<1>4. QED
  BY <1>2, <1>3 DEF Prepare

LEMMA ClaimInv ==
    ASSUME ContextInv, NEW p \in Posts, Claim(p)
    PROVE  ContextInv'
<1> DEFINE Back == [runs[p] EXCEPT !.prepared = FALSE, !.base = 0, !.seen = << >>]
<1>1. Used(p) /\ runs[p].status = "pending" /\ runs[p].prepared /\ runs[p] \in RunRows
  BY RunType DEF Claim, Used, ContextInv
<1>2. /\ Back \in RunRows
      /\ Back.status = runs[p].status /\ ~Back.prepared
      /\ Back.seat = runs[p].seat /\ Back.session = runs[p].session
      /\ Back.generation = runs[p].generation /\ Back.committed = runs[p].committed
  <2>1. runs[p] \in RunRows /\ << >> \in Seq(Posts)
    BY <1>1
  <2>2. QED
    BY <2>1 DEF RunRows
<1>3. runs'[p] = Back \/ runs'[p] = [runs[p] EXCEPT !.status = "running"]
  BY DEF Claim, SetRun, ContextInv, ContextTypes
<1>4. MildRun(p)
  <2>1. CASE runs'[p] = Back
    <3>1. Back # NoRun
      BY <1>1, <1>2
    <3>2. QED
      BY <1>1, <1>2, <2>1, <3>1 DEF MildRun, Used
  <2>2. CASE runs'[p] = [runs[p] EXCEPT !.status = "running"]
    BY <1>1, <2>2 DEF MildRun, RunRows, Used
  <2>3. QED
    BY <1>3, <2>1, <2>2
<1>5. \A q \in Posts \ {p} : MildRun(q)
  BY SameRun DEF Claim, SetRun, ContextInv, ContextTypes
<1>6. Mild
  BY <1>4, <1>5 DEF Mild, Claim, SetRun, ContextInv, ContextTypes
<1>7. QED
  BY <1>6, MildInv

LEMMA CompleteRunInv ==
    ASSUME ContextInv, NEW p \in Posts, CompleteRun(p)
    PROVE  ContextInv'
<1>1. Used(p)
  BY DEF CompleteRun, Used
<1>2. /\ runs' = [q \in Posts |-> runs'[q]]
      /\ \A q \in Posts \ {p} : runs'[q] = runs[q]
      /\ runs'[p] = Ended(p, "completed")
  BY <1>1 DEF CompleteRun, FinishRun, ContextInv, ContextTypes
<1>3. QED
  BY <1>1, <1>2, EndingInv DEF CompleteRun, ContextInv, ContextTypes

LEMMA EndRunInv ==
    ASSUME ContextInv, NEW p \in Posts, EndRun(p)
    PROVE  ContextInv'
<1>1. /\ runs' = [q \in Posts |-> runs'[q]]
      /\ \A q \in Posts \ {p} : runs'[q] = runs[q]
      /\ runs'[p] = Ended(p, "failed")
  BY DEF EndRun, FinishRun, ContextInv, ContextTypes
<1>2. /\ replies' \in [Posts -> {"none", "streaming", "completed", "failed"}]
      /\ \A q \in Posts : /\ replies[q] = "completed" => replies'[q] = "completed"
                          /\ replies'[q] = "none" <=> replies[q] = "none"
  BY DEF EndRun, Interrupted, ContextInv, ContextTypes
<1>3. QED
  BY <1>1, <1>2, EndingInv DEF EndRun, ContextInv, ContextTypes

(* A restart.                                                              *)
LEMMA InterruptInv ==
    ASSUME ContextInv, Interrupt
    PROVE  ContextInv'
<1>1. /\ runs' = [q \in Posts |-> runs'[q]]
      /\ \A q \in Posts : runs'[q] = runs[q] \/ (IsActive(q) /\ runs'[q] = Ended(q, "failed"))
  BY DEF Interrupt
<1>2. /\ replies' \in [Posts -> {"none", "streaming", "completed", "failed"}]
      /\ \A q \in Posts : /\ replies[q] = "completed" => replies'[q] = "completed"
                          /\ replies'[q] = "none" <=> replies[q] = "none"
  BY DEF Interrupt, Interrupted, ContextInv, ContextTypes
<1>3. /\ compaction' = [a \in Seats |-> compaction'[a]]
      /\ \A a \in Seats : compaction'[a] \in {compaction[a], NoCompaction}
  BY DEF Interrupt
<1>4. QED
  BY <1>1, <1>2, <1>3, EndingInv DEF Interrupt

(* A job is given up.                                                      *)
LEMMA SettleInv ==
    ASSUME ContextInv, NEW a \in Seats, Settle(a),
           UNCHANGED <<sessionVars, history, covered, logVars, runs>>
    PROVE  ContextInv'
<1>1. /\ compaction' = [b \in Seats |-> compaction'[b]]
      /\ \A b \in Seats : compaction'[b] \in {compaction[b], NoCompaction}
  BY DEF Settle, ContextInv, ContextTypes
<1>2. QED
  BY <1>1, EndingInv DEF ContextInv, ContextTypes

-----------------------------------------------------------------------------
(* Steps that say something *)

(* A message is added at the end.                                          *)
LEMMA AppendLog ==
    ASSUME ContextTypes, NEW m \in Messages, log' = Append(log, m)
    PROVE  /\ log' \in Seq(Messages) /\ Len(log) \in Nat /\ Len(log') = Len(log) + 1
           /\ \A i \in 1 .. Len(log) : log'[i] = log[i] /\ log[i] \in Messages
           /\ log'[Len(log) + 1] = m
           /\ Said' = Said \union {m}
<1>1. log \in Seq(Messages)
  BY DEF ContextTypes
<1>2. /\ log' \in Seq(Messages) /\ Len(log) \in Nat /\ Len(log') = Len(log) + 1
      /\ \A i \in 1 .. Len(log) : log'[i] = log[i] /\ log[i] \in Messages
      /\ log'[Len(log) + 1] = m
      /\ DOMAIN log = 1 .. Len(log) /\ DOMAIN log' = 1 .. (Len(log) + 1)
  BY <1>1
<1>3. Said' = Said \union {m}
  BY <1>2 DEF Said, Range
<1>4. QED
  BY <1>2, <1>3

(* What jobs wait for stays said.                                          *)
LEMMA AppendJobs ==
    ASSUME ContextInv, NEW m \in Messages, log' = Append(log, m),
           UNCHANGED <<sessionVars, history, covered, compaction>>,
           \A p \in Posts : \/ runs'[p] = runs[p]
                            \/ ~Used(p) /\ ~runs'[p].prepared /\ ~runs'[p].committed
    PROVE  JobsSound'
<1>1. SUFFICES ASSUME NEW a \in Seats, compaction[a] # NoCompaction
      PROVE  JobSound(a)'
  BY DEF JobsSound
<1>2. JobSound(a) /\ Target(a)' = Target(a)
  BY <1>1 DEF ContextInv, JobsSound, Target
<1>3. ASSUME NEW p \in Posts, Used(p)', runs'[p].prepared \/ runs'[p].committed
      PROVE  Used(p) /\ runs'[p] = runs[p] /\ At(p)' = At(p)
  BY <1>3 DEF Used, At
<1>4. ASSUME NEW p \in Posts, Awaited(a, p)
      PROVE  Awaited(a, p)'
  <2>1. /\ Len(log) \in Nat /\ Len(log') = Len(log) + 1
        /\ \A i \in 1 .. Len(log) : log'[i] = log[i]
    BY AppendLog DEF ContextInv
  <2>2. QED
    BY <1>4, <2>1 DEF Awaited
<1>5. NoExtension(Target(a)) => NoExtension(Target(a))'
  BY <1>2, <1>3 DEF NoExtension
<1>6. CheckpointSound(a) => CheckpointSound(a)'
  BY <1>2, <1>5 DEF CheckpointSound, Turns
<1>7. QED
  BY <1>2, <1>3, <1>4, <1>6 DEF JobSound, Started

LEMMA PostMessageInv ==
    ASSUME ContextInv, NEW p \in Posts, NEW a \in Seats, PostMessage(p, a)
    PROVE  ContextInv'
<1> DEFINE row == [status |-> "pending", seat |-> a, session |-> active,
                   generation |-> agentSession[<<active, a>>].generation,
                   prepared |-> FALSE, base |-> 0, seen |-> << >>, committed |-> FALSE]
<1>1. p = Posted + 1 /\ Posted \in Nat /\ UsedPosts = 1 .. Posted
  BY DEF PostMessage, ContextInv, Numbered
<1>2. ~Used(p)
  <2>1. p \notin UsedPosts
    BY <1>1
  <2>2. QED
    BY <2>1 DEF UsedPosts, Used
<1>3. /\ active \in Started /\ active \in SpaceSessions /\ <<active, a>> \in Contexts
      /\ agentSession[<<active, a>>].generation \in Nat
  BY DEF ContextInv, ContextTypes, Numbered, Contexts
<1>4. row \in RunRows
  <2>1. << >> \in Seq(Posts)
    OBVIOUS
  <2>2. QED
    BY <1>3, <2>1 DEF RunRows
<1>5. /\ runs'[p] = row /\ row # NoRun
      /\ \A q \in Posts \ {p} : runs'[q] = runs[q]
      /\ runs' \in [Posts -> RunRows \union {NoRun}]
  BY <1>4 DEF PostMessage, ContextInv, ContextTypes
<1>6. <<p, "user">> \in Messages /\ log' = Append(log, <<p, "user">>)
  BY DEF PostMessage, Messages
<1>7. /\ log' \in Seq(Messages) /\ Len(log) \in Nat /\ Len(log') = Len(log) + 1
      /\ \A i \in 1 .. Len(log) : log'[i] = log[i] /\ log[i] \in Messages
      /\ log'[Len(log) + 1] = <<p, "user">>
      /\ Said' = Said \union {<<p, "user">>}
  BY <1>6, AppendLog DEF ContextInv
<1>8. ContextTypes'
  BY <1>5, <1>7 DEF PostMessage, ContextInv, ContextTypes, Contexts
<1>9. \A q \in Posts : Used(q)' <=> Used(q) \/ q = p
  BY <1>5 DEF Used
<1>10. Numbered'
  <2>1. UsedPosts' = 1 .. (Posted + 1)
    <3>1. UsedPosts' = UsedPosts \union {p}
      BY <1>9 DEF UsedPosts, Used
    <3>2. QED
      BY <1>1, <3>1
  <2>2. Posted' = Posted + 1
    <3>1. Posted' = Cardinality(UsedPosts')
      BY DEF Posted, UsedPosts
    <3>2. Cardinality(1 .. (Posted + 1)) = Posted + 1
      BY <1>1, FS_Interval
    <3>3. QED
      BY <2>1, <3>1, <3>2
  <2>3. QED
    BY <1>1, <2>1, <2>2 DEF Numbered, PostMessage, ContextInv, Started
<1>11. LogSound'
  <2>1. \A i \in 1 .. Len(log) : log[i][1] \in Posts /\ log[i][1] # p /\ Used(log[i][1])
    BY <1>2, <1>7 DEF ContextInv, LogSound, Messages
  <2>2. \A i, j \in 1 .. Len(log') : log'[i] = log'[j] => i = j
    BY <1>7, <2>1 DEF ContextInv, LogSound
  <2>3. \A i \in 1 .. Len(log') :
            runs'[log'[i][1]] # NoRun /\ (log'[i][2] = "reply" => replies'[log'[i][1]] # "none")
    <3>1. SUFFICES ASSUME NEW i \in 1 .. Len(log')
          PROVE  runs'[log'[i][1]] # NoRun /\ (log'[i][2] = "reply" => replies'[log'[i][1]] # "none")
      OBVIOUS
    <3>2. CASE i = Len(log) + 1
      <4>1. log'[i][1] = p /\ log'[i][2] = "user"
        BY <1>7, <3>2
      <4>2. QED
        BY <1>5, <4>1 DEF Used
    <3>3. CASE i \in 1 .. Len(log)
      <4>1. log'[i] = log[i] /\ runs'[log[i][1]] = runs[log[i][1]] /\ replies' = replies
        BY <1>5, <1>7, <2>1, <3>3 DEF PostMessage
      <4>2. QED
        BY <2>1, <3>3, <4>1 DEF ContextInv, LogSound, Used
    <3>4. QED
      BY <1>7, <3>1, <3>2, <3>3
  <2>4. \A q \in Posts : replies'[q] # "none" => Used(q)' /\ <<q, "reply">> \in Said'
    <3>1. replies' = replies
      BY DEF PostMessage
    <3>2. QED
      BY <1>7, <1>9, <3>1 DEF ContextInv, LogSound
  <2>5. QED
    BY <2>2, <2>3, <2>4 DEF LogSound, Used
<1>12. RunsSound'
  <2>1. SUFFICES ASSUME NEW q \in Posts, Used(q)'
        PROVE  RunSound(q)'
    BY DEF RunsSound
  <2>2. CASE q = p
    BY <1>3, <1>5, <2>2 DEF RunSound, BaseSound, PostMessage, At, Started, IsActive
  <2>3. CASE q # p
    <3>1. runs'[q] = runs[q] /\ RunSound(q) /\ At(q)' = At(q)
      BY <1>5, <1>9, <2>1, <2>3 DEF ContextInv, RunsSound, At
    <3>2. QED
      BY <3>1 DEF RunSound, BaseSound, Remembered, PostMessage, Started, IsActive, Turns
  <2>4. QED
    BY <2>2, <2>3
<1>13. TurnsSound'
  <2>1. SUFFICES ASSUME NEW x \in Contexts, NEW i \in 1 .. Len(Turns(x))
        PROVE  LET q == Turns(x)[i] IN (Used(q) /\ At(q) = x /\ runs[q].committed)'
    BY DEF TurnsSound, Contexts, PostMessage, Turns
  <2>2. Turns(x)[i] \in Posts
    BY <2>1 DEF ContextInv, ContextTypes, Turns
  <2>3. Used(Turns(x)[i]) /\ At(Turns(x)[i]) = x /\ runs[Turns(x)[i]].committed
    BY DEF ContextInv, TurnsSound
  <2>4. Turns(x)[i] # p /\ Turns(x)' = Turns(x)
    BY <1>2, <2>3 DEF PostMessage, Turns
  <2>5. QED
    BY <1>5, <2>2, <2>3, <2>4 DEF Used, At
<1>14. JobsSound'
  <2>1. \A q \in Posts : \/ runs'[q] = runs[q]
                         \/ ~Used(q) /\ ~runs'[q].prepared /\ ~runs'[q].committed
    BY <1>2, <1>5
  <2>2. QED
    BY <1>6, <2>1, AppendJobs DEF PostMessage
<1>15. QED
  BY <1>8, <1>10, <1>11, <1>12, <1>13, <1>14 DEF ContextInv

(* A reply is opened once.                                                 *)
LEMMA ReplyInv ==
    ASSUME ContextInv, NEW p \in Posts, Reply(p)
    PROVE  ContextInv'
<1>1. Used(p)
  BY DEF Reply, Used
<1>2. CASE /\ replies[p] = "streaming"
           /\ replies' = [replies EXCEPT ![p] = "completed"]
           /\ UNCHANGED log
  <2>1. /\ replies' \in [Posts -> {"none", "streaming", "completed", "failed"}]
        /\ \A q \in Posts : /\ replies[q] = "completed" => replies'[q] = "completed"
                            /\ replies'[q] = "none" <=> replies[q] = "none"
    BY <1>2 DEF ContextInv, ContextTypes
  <2>2. /\ runs' = runs /\ runs' = [q \in Posts |-> runs'[q]]
        /\ compaction' = compaction /\ compaction' = [a \in Seats |-> compaction'[a]]
        /\ UNCHANGED <<sessionVars, history, covered>>
    BY DEF Reply, ContextInv, ContextTypes
  <2>3. QED
    BY <1>2, <2>1, <2>2, EndingInv
<1>3. CASE /\ replies[p] = "none"
           /\ log' = Append(log, <<p, "reply">>)
           /\ replies' = [replies EXCEPT ![p] = "streaming"]
  <2>1. <<p, "reply">> \in Messages
    BY DEF Messages
  <2>2. /\ log' \in Seq(Messages) /\ Len(log) \in Nat /\ Len(log') = Len(log) + 1
        /\ \A i \in 1 .. Len(log) : log'[i] = log[i] /\ log[i] \in Messages
        /\ log'[Len(log) + 1] = <<p, "reply">>
        /\ Said' = Said \union {<<p, "reply">>}
    BY <1>3, <2>1, AppendLog DEF ContextInv
  <2>3. UNCHANGED <<sessionVars, history, covered, runs, compaction>>
    BY DEF Reply
  <2>4. /\ replies' \in [Posts -> {"none", "streaming", "completed", "failed"}]
        /\ \A q \in Posts \ {p} : replies'[q] = replies[q]
        /\ replies'[p] = "streaming"
    BY <1>3 DEF ContextInv, ContextTypes
  <2>5. ContextTypes'
    BY <2>2, <2>3, <2>4 DEF ContextInv, ContextTypes, Contexts
  <2>6. Numbered'
    BY <2>3 DEF ContextInv, Numbered, UsedPosts, Posted, Started
  <2>7. LogSound'
    <3>1. \A i \in 1 .. Len(log) : log[i][1] \in Posts /\ log[i] # <<p, "reply">>
                                   /\ Used(log[i][1])
      BY <1>3, <2>2 DEF ContextInv, LogSound, Messages
    <3>2. \A i, j \in 1 .. Len(log') : log'[i] = log'[j] => i = j
      BY <2>2, <3>1 DEF ContextInv, LogSound
    <3>3. \A i \in 1 .. Len(log') :
              runs'[log'[i][1]] # NoRun /\ (log'[i][2] = "reply" => replies'[log'[i][1]] # "none")
      <4>1. SUFFICES ASSUME NEW i \in 1 .. Len(log')
            PROVE  runs'[log'[i][1]] # NoRun
                   /\ (log'[i][2] = "reply" => replies'[log'[i][1]] # "none")
        OBVIOUS
      <4>2. CASE i = Len(log) + 1
        BY <1>1, <2>2, <2>3, <2>4, <4>2 DEF Used
      <4>3. CASE i \in 1 .. Len(log)
        <5>1. log'[i] = log[i] /\ Used(log[i][1]) /\ log[i][1] \in Posts
              /\ (log[i][2] = "reply" => replies[log[i][1]] # "none")
          BY <2>2, <3>1, <4>3 DEF ContextInv, LogSound
        <5>2. QED
          BY <2>3, <2>4, <5>1 DEF Used
      <4>4. QED
        BY <2>2, <4>1, <4>2, <4>3
    <3>4. \A q \in Posts : replies'[q] # "none" => Used(q)' /\ <<q, "reply">> \in Said'
      BY <1>1, <2>2, <2>3, <2>4 DEF ContextInv, LogSound, Used
    <3>5. QED
      BY <3>2, <3>3, <3>4 DEF LogSound, Used
  <2>8. RunsSound'
    <3>1. SUFFICES ASSUME NEW q \in Posts, Used(q)
          PROVE  RunSound(q)'
      BY <2>3 DEF RunsSound, Used
    <3>2. RunSound(q) /\ At(q)' = At(q)
      <4>1. RunSound(q)
        BY <3>1 DEF ContextInv, RunsSound
      <4>2. QED
        BY <2>3, <4>1 DEF At
    <3>3. runs[q].committed => replies'[q] = "completed"
      BY <1>3, <2>4, <3>2 DEF RunSound
    <3>4. BaseSound(q)' /\ (Remembered(q)' <=> Remembered(q))
      BY <2>3, <3>2 DEF RunSound, BaseSound, Remembered, Turns
    <3>5. QED
      BY <2>3, <3>2, <3>3, <3>4 DEF RunSound, Started, IsActive
  <2>9. TurnsSound'
    BY <2>3 DEF ContextInv, TurnsSound, Turns, Used, At, Contexts
  <2>10. JobsSound'
    BY <1>3, <2>1, <2>3, AppendJobs
  <2>11. QED
    BY <2>5, <2>6, <2>7, <2>8, <2>9, <2>10 DEF ContextInv
<1>4. QED
  BY <1>2, <1>3 DEF Reply

-----------------------------------------------------------------------------
(* A turn is appended *)

(* No other run can commit on the version that the commit replaces.        *)
LEMMA SaveApiResultInv ==
    ASSUME ContextInv, NEW p \in Posts, SaveApiResult(p)
    PROVE  ContextInv'
<1>1. /\ Used(p) /\ runs[p] \in RunRows /\ At(p) \in Contexts
      /\ runs[p].status = "running" /\ runs[p].seat \notin cliSeats
      /\ replies[p] = "completed" /\ ~runs[p].committed
      /\ runs[p].generation = agentSession[At(p)].generation
  BY RunType DEF SaveApiResult, Current, Used, ContextInv
<1>2. RunSound(p) /\ runs[p].prepared
  BY <1>1 DEF ContextInv, RunsSound, RunSound
<1>3. CASE FinishRun(p, "failed") /\ UNCHANGED history
  <2>1. /\ runs' = [q \in Posts |-> runs'[q]]
        /\ \A q \in Posts \ {p} : runs'[q] = runs[q]
        /\ runs'[p] = Ended(p, "failed")
    BY <1>3 DEF FinishRun, ContextInv, ContextTypes
  <2>2. IsActive(p)
    BY <1>1 DEF IsActive
  <2>3. QED
    BY <1>3, <2>1, <2>2, EndingInv DEF SaveApiResult, ContextInv, ContextTypes
<1>4. CASE /\ Extends(p)
           /\ history' = [history EXCEPT ![At(p)].version = @ + 1,
                                         ![At(p)].turns = Append(@, p)]
           /\ SetRun(p, "committed", TRUE)
  <2> DEFINE x == At(p)
  <2>1. /\ history[x] \in [version : Nat, turns : Seq(Posts), since : Nat]
        /\ history[x].version \in Nat /\ Turns(x) \in Seq(Posts) /\ Len(Turns(x)) \in Nat
    BY <1>1 DEF ContextInv, ContextTypes, Turns
  <2>2. Append(Turns(x), p) \in Seq(Posts)
    BY <2>1
  <2>3. /\ history' \in [Contexts -> [version : Nat, turns : Seq(Posts), since : Nat]]
        /\ \A y \in Contexts \ {x} : history'[y] = history[y]
        /\ history'[x].version = history[x].version + 1
        /\ history'[x].turns = Append(Turns(x), p)
        /\ history'[x].since = history[x].since
    BY <1>1, <1>4, <2>1, <2>2 DEF ContextInv, ContextTypes, Turns
  <2>4. /\ Len(history'[x].turns) = Len(Turns(x)) + 1
        /\ history'[x].turns[Len(Turns(x)) + 1] = p
        /\ \A i \in 1 .. Len(Turns(x)) : history'[x].turns[i] = Turns(x)[i]
    BY <2>1, <2>3
  <2>5. /\ runs'[p] \in RunRows /\ runs'[p].committed
        /\ runs'[p].seat = runs[p].seat /\ runs'[p].session = runs[p].session
        /\ runs'[p].generation = runs[p].generation
        /\ runs'[p].status = runs[p].status
        /\ runs'[p].prepared = runs[p].prepared
        /\ \A q \in Posts \ {p} : runs'[q] = runs[q]
        /\ runs' \in [Posts -> RunRows \union {NoRun}]
    BY <1>1, <1>4 DEF SetRun, ContextInv, ContextTypes, RunRows
  <2>6. UNCHANGED <<sessionVars, covered, logVars, compaction>>
    BY DEF SaveApiResult
  <2>7. \A q \in Posts : (Used(q)' <=> Used(q)) /\ (Used(q) => At(q)' = At(q))
    <3>1. runs'[p] # NoRun
      BY <1>1, <2>5
    <3>2. QED
      BY <1>1, <2>5, <3>1 DEF Used, At
  <2>8. ContextTypes'
    BY <2>3, <2>5, <2>6 DEF ContextInv, ContextTypes, Contexts
  <2>9. Numbered'
    <3>1. UsedPosts' = UsedPosts
      BY <2>7 DEF UsedPosts, Used
    <3>2. Posted' = Posted
      BY <3>1 DEF Posted, UsedPosts
    <3>3. QED
      BY <2>6, <3>1, <3>2 DEF ContextInv, Numbered, Started
  <2>10. LogSound'
    <3>1. \A i \in 1 .. Len(log) : log[i][1] \in Posts
      BY DEF ContextInv, ContextTypes, Messages
    <3>2. QED
      BY <2>6, <2>7, <3>1 DEF ContextInv, LogSound, Said, Used
  <2>11. RunsSound'
    <3>1. SUFFICES ASSUME NEW q \in Posts, Used(q)
          PROVE  RunSound(q)'
      BY <2>7 DEF RunsSound
    <3>2. RunSound(q) /\ At(q)' = At(q) /\ At(q) \in Contexts
      BY <2>7, <3>1, RunType DEF ContextInv, RunsSound
    <3>3. Remembered(q) => Remembered(q)'
      <4>1. CASE At(q) = x
        <5>1. (\E i \in 1 .. Len(Turns(x)) : Turns(x)[i] = q)
              => \E i \in 1 .. Len(history'[x].turns) : history'[x].turns[i] = q
          BY <2>1, <2>4
        <5>2. QED
          BY <2>3, <2>6, <3>2, <4>1, <5>1 DEF Remembered, Turns
      <4>2. CASE At(q) # x
        BY <2>3, <2>6, <3>2, <4>2 DEF Remembered, Turns
      <4>3. QED
        BY <4>1, <4>2
    <3>4. CASE q = p
      <4>1. Remembered(p)'
        BY <2>1, <2>4, <3>2, <3>4 DEF Remembered, Turns
      <4>2. QED
        BY <1>1, <1>2, <2>5, <2>6, <3>2, <3>4, <4>1 DEF RunSound, BaseSound, Started, IsActive
    <3>5. CASE q # p
      <4>1. runs'[q] = runs[q]
        BY <2>5, <3>5
      <4>2. BaseSound(q)'
        <5>1. CASE At(q) = x
          <6>1. runs[q].base \in Nat
            BY <3>1, RunType DEF ContextInv
          <6>2. QED
            BY <2>1, <2>3, <2>6, <3>2, <4>1, <5>1, <6>1 DEF RunSound, BaseSound, Turns
        <5>2. CASE At(q) # x
          BY <2>3, <2>6, <3>2, <4>1, <5>2 DEF RunSound, BaseSound, Turns
        <5>3. QED
          BY <5>1, <5>2
      <4>3. QED
        BY <2>6, <3>2, <3>3, <4>1, <4>2 DEF RunSound, Started, IsActive
    <3>6. QED
      BY <3>4, <3>5
  <2>12. TurnsSound'
    <3>1. SUFFICES ASSUME NEW y \in Contexts, NEW i \in 1 .. Len(Turns(y)')
          PROVE  /\ runs'[Turns(y)'[i]] # NoRun
                 /\ <<runs'[Turns(y)'[i]].session, runs'[Turns(y)'[i]].seat>> = y
                 /\ runs'[Turns(y)'[i]].committed
      BY DEF TurnsSound, Contexts, Turns, Used, At
    <3>2. CASE y = x /\ i = Len(Turns(x)) + 1
      BY <1>1, <2>4, <2>5, <2>7, <3>2 DEF Turns, Used, At
    <3>3. CASE ~(y = x /\ i = Len(Turns(x)) + 1)
      <4>1. i \in 1 .. Len(Turns(y)) /\ Turns(y)'[i] = Turns(y)[i]
        <5>1. CASE y = x
          <6>1. i \in 1 .. Len(history'[x].turns) /\ i # Len(Turns(x)) + 1
            BY <3>3, <5>1 DEF Turns
          <6>2. i \in 1 .. Len(Turns(x))
            BY <2>1, <2>4, <6>1
          <6>3. QED
            BY <2>4, <5>1, <6>2 DEF Turns
        <5>2. CASE y # x
          BY <2>3, <5>2 DEF Turns
        <5>3. QED
          BY <5>1, <5>2
      <4>2. Turns(y)[i] \in Posts
        BY <4>1 DEF ContextInv, ContextTypes, Turns
      <4>3. Used(Turns(y)[i]) /\ At(Turns(y)[i]) = y /\ runs[Turns(y)[i]].committed
        BY <4>1 DEF ContextInv, TurnsSound
      <4>4. QED
        BY <1>1, <2>5, <4>1, <4>2, <4>3 DEF Used, At
    <3>4. QED
      BY <3>2, <3>3
  <2>13. JobsSound'
    <3>1. SUFFICES ASSUME NEW a \in Seats, compaction[a] # NoCompaction
          PROVE  JobSound(a)'
      BY <2>6 DEF JobsSound
    <3>2. JobSound(a) /\ Target(a)' = Target(a) /\ Target(a) \in Contexts
      BY <2>6, <3>1, JobType DEF ContextInv, JobsSound, Target
    <3>3. \A q \in Posts : Used(q) /\ At(q) = Target(a) /\ (runs'[q].prepared \/ runs'[q].committed)
                           => Awaited(a, q)
      BY <1>2, <2>5, <3>2 DEF JobSound
    <3>4. \A q \in Posts : Awaited(a, q)' <=> Awaited(a, q)
      BY <2>6 DEF Awaited
    <3>5. ASSUME compaction[a].status = "running",
                 agentSession[Target(a)].generation = compaction[a].from
          PROVE  CheckpointSound(a)'
      <4>1. CheckpointSound(a)
        BY <3>2, <3>5 DEF JobSound
      <4>2. CASE Target(a) = x
        <5>1. ~NoExtension(x)
          BY <1>1, <1>2, <1>4 DEF NoExtension, Extends
        <5>2. \A i \in 1 .. Len(Turns(x)) : <<Turns(x)[i], "reply">> \in compaction[a].checkpoint
          <6>1. /\ \A i \in 1 .. Len(Turns(x)) - 1 :
                      <<Turns(x)[i], "reply">> \in compaction[a].checkpoint
                /\ \/ Len(Turns(x)) = 0
                   \/ <<Turns(x)[Len(Turns(x))], "reply">> \in compaction[a].checkpoint
            BY <4>1, <4>2, <5>1 DEF CheckpointSound
          <6>2. QED
            BY <2>1, <6>1
        <5> HIDE DEF x
        <5>3. NoExtension(Target(a))'
          <6>1. SUFFICES ASSUME NEW q \in Posts, Used(q), At(q) = x, q # p,
                                runs[q].prepared, ~runs[q].committed,
                                runs[q].generation = agentSession[x].generation
                PROVE  runs[q].base # history'[x].version
            <7>1. Target(a)' = x
              BY <3>2, <4>2
            <7>2. QED
              BY <2>5, <2>6, <2>7, <7>1 DEF NoExtension
          <6>2. RunSound(q) /\ runs[q].base \in Nat
            BY <6>1, RunType DEF ContextInv, RunsSound
          <6>3. runs[q].base <= history[x].version
            BY <6>1, <6>2 DEF RunSound, BaseSound
          <6>4. QED
            BY <2>1, <2>3, <6>2, <6>3
        <5>4. \A i \in 1 .. Len(history'[x].turns) - 1 :
                  <<history'[x].turns[i], "reply">> \in compaction[a].checkpoint
          BY <2>1, <2>4, <5>2
        <5>5. QED
          <6>1. /\ covered'[Target(a)] = covered[Target(a)] /\ compaction'[a] = compaction[a]
                /\ Target(a)' = x /\ x = Target(a)
            BY <2>6, <3>2, <4>2
          <6>2. covered'[Target(a)'] \subseteq compaction'[a].checkpoint
            BY <4>1, <6>1 DEF CheckpointSound
          <6>3. \A i \in 1 .. Len(history'[Target(a)'].turns) - 1 :
                    <<history'[Target(a)'].turns[i], "reply">> \in compaction'[a].checkpoint
            BY <5>4, <6>1
          <6>4. QED
            BY <5>3, <6>2, <6>3 DEF CheckpointSound, Turns
      <4>3. CASE Target(a) # x
        <5>1. history'[Target(a)] = history[Target(a)]
          BY <2>3, <3>2, <4>3
        <5>2. NoExtension(Target(a)) => NoExtension(Target(a))'
          BY <2>5, <2>6, <2>7, <3>2, <4>3, <5>1 DEF NoExtension
        <5>3. QED
          BY <2>6, <3>2, <4>1, <5>1, <5>2 DEF CheckpointSound, Turns
      <4>4. QED
        BY <4>2, <4>3
    <3>6. QED
      BY <2>6, <2>7, <3>2, <3>3, <3>4, <3>5 DEF JobSound, Started
  <2>14. QED
    BY <2>8, <2>9, <2>10, <2>11, <2>12, <2>13 DEF ContextInv
<1>5. QED
  BY <1>3, <1>4 DEF SaveApiResult

-----------------------------------------------------------------------------
(* Generations rotate *)

(* A checkpoint covers messages.                                           *)
LEMMA CandidatesType ==
    ASSUME ContextTypes, NEW s, NEW upTo, NEW included
    PROVE  Candidates(s, upTo, included) \subseteq Messages
<1>1. \A i \in 1 .. Len(log) : log[i] \in Messages
  BY DEF ContextTypes
<1>2. Said \subseteq Messages
  BY <1>1 DEF ContextTypes, Said, Range
<1>3. QED
  BY <1>2 DEF Candidates, In, Said

(* The generation of context x is left behind by a step that keeps runs,   *)
(* log, sessions and the histories of the other contexts.                  *)
Rotates(x) ==
    /\ UNCHANGED <<cliSeats, active, spaceSession, logVars>>
    /\ agentSession' \in [Contexts -> [status : {"none", "active", "archived"}, generation : Nat]]
    /\ history' \in [Contexts -> [version : Nat, turns : Seq(Posts), since : Nat]]
    /\ covered' \in [Contexts -> SUBSET Messages]
    /\ agentSession'[x].status = agentSession[x].status
    /\ agentSession'[x].generation = agentSession[x].generation + 1
    /\ \A y \in Contexts \ {x} :
          /\ agentSession'[y] = agentSession[y] /\ history'[y] = history[y]
          /\ covered'[y] = covered[y]

(* The numbers and the log do not depend on generations.                   *)
LEMMA RotatesNumbered ==
    ASSUME ContextInv, NEW x \in Contexts, Rotates(x),
           \A q \in Posts : Used(q)' <=> Used(q)
    PROVE  Numbered' /\ LogSound'
<1>1. UsedPosts' = UsedPosts
  BY DEF UsedPosts, Used
<1>2. Posted' = Posted
  BY <1>1 DEF Posted, UsedPosts
<1>3. \A y \in Contexts : agentSession'[y].status = agentSession[y].status
  BY DEF Rotates
<1>4. Started' = Started /\ Started \subseteq SpaceSessions
  BY DEF Rotates, Started
<1>5. \A s \in Started, a \in Seats : agentSession'[<<s, a>>].status # "none"
  BY <1>3, <1>4 DEF ContextInv, Numbered, Contexts
<1>6. Numbered'
  BY <1>1, <1>2, <1>4, <1>5 DEF ContextInv, Numbered, Rotates
<1>7. \A i \in 1 .. Len(log) : log[i][1] \in Posts
  BY DEF ContextInv, ContextTypes, Messages
<1>8. LogSound'
  BY <1>7 DEF ContextInv, LogSound, Rotates, Said
<1>9. QED
  BY <1>6, <1>8

(* A run of another context is not concerned, nor is the job of another    *)
(* seat.                                                                   *)
LEMMA RotatesElsewhere ==
    ASSUME ContextInv, NEW x \in Contexts, Rotates(x)
    PROVE  /\ \A q \in Posts : Used(q) /\ At(q) # x /\ runs'[q] = runs[q] => RunSound(q)'
           /\ \A a \in Seats :
                 /\ compaction[a] # NoCompaction /\ compaction'[a] = compaction[a]
                 /\ Target(a) # x
                 /\ \A q \in Posts : (Used(q)' <=> Used(q)) /\ (Used(q) => At(q)' = At(q))
                 /\ \A q \in Posts : Used(q) /\ At(q) # x => runs'[q] = runs[q]
                 => JobSound(a)'
<1>1. Started' = Started
  BY DEF Rotates, Started
<1>2. ASSUME NEW q \in Posts, Used(q), At(q) # x, runs'[q] = runs[q]
      PROVE  RunSound(q)'
  <2>1. RunSound(q) /\ At(q) \in Contexts
    BY <1>2, RunType DEF ContextInv, RunsSound
  <2>2. /\ At(q)' = At(q) /\ agentSession'[At(q)] = agentSession[At(q)]
        /\ history'[At(q)] = history[At(q)] /\ covered'[At(q)] = covered[At(q)]
    BY <1>2, <2>1 DEF Rotates, At
  <2>3. BaseSound(q)' /\ (Remembered(q)' <=> Remembered(q))
    BY <1>2, <2>1, <2>2 DEF RunSound, BaseSound, Remembered, Turns
  <2>4. QED
    BY <1>1, <1>2, <2>1, <2>2, <2>3 DEF RunSound, Rotates, IsActive
<1>3. ASSUME NEW a \in Seats, compaction[a] # NoCompaction, compaction'[a] = compaction[a],
             Target(a) # x,
             \A q \in Posts : (Used(q)' <=> Used(q)) /\ (Used(q) => At(q)' = At(q)),
             \A q \in Posts : Used(q) /\ At(q) # x => runs'[q] = runs[q]
      PROVE  JobSound(a)'
  <2>1. JobSound(a) /\ Target(a) \in Contexts
    BY <1>3, JobType DEF ContextInv, JobsSound
  <2>2. /\ Target(a)' = Target(a) /\ agentSession'[Target(a)] = agentSession[Target(a)]
        /\ history'[Target(a)] = history[Target(a)] /\ covered'[Target(a)] = covered[Target(a)]
    BY <1>3, <2>1 DEF Rotates, Target
  <2>3. \A q \in Posts : Awaited(a, q)' <=> Awaited(a, q)
    BY <1>3 DEF Rotates, Awaited
  <2>4. NoExtension(Target(a)) => NoExtension(Target(a))'
    BY <1>3, <2>2 DEF NoExtension
  <2>5. CheckpointSound(a) => CheckpointSound(a)'
    BY <1>3, <2>2, <2>4 DEF CheckpointSound, Turns
  <2>6. QED
    BY <1>1, <1>3, <2>1, <2>2, <2>3, <2>5 DEF JobSound
<1>4. QED
  BY <1>2, <1>3

LEMMA RotateProviderBindingInv ==
    ASSUME ContextInv, NEW p \in Posts, RotateProviderBinding(p)
    PROVE  ContextInv'
<1> DEFINE x == At(p)
<1>1. /\ Used(p) /\ runs[p] \in RunRows /\ x \in Contexts
      /\ runs[p].generation = agentSession[x].generation /\ runs[p].generation \in Nat
  BY RunType DEF RotateProviderBinding, Current, Used, ContextInv
<1>2. agentSession[x] \in [status : {"none", "active", "archived"}, generation : Nat]
  BY <1>1 DEF ContextInv, ContextTypes
<1>3. /\ agentSession' = [agentSession EXCEPT ![x].generation = @ + 1]
      /\ covered' = [covered EXCEPT ![x] = @ \cup Candidates(runs[p].session, Len(log), {})]
      /\ runs' = [runs EXCEPT ![p].generation = runs[p].generation + 1]
      /\ UNCHANGED <<cliSeats, active, spaceSession, history, logVars, compaction>>
  BY DEF RotateProviderBinding, SetRun
<1>4. Candidates(runs[p].session, Len(log), {}) \subseteq Messages
  BY CandidatesType DEF ContextInv
<1>5. Rotates(x) /\ covered[x] \subseteq covered'[x] /\ history' = history
  <2>1. covered \in [Contexts -> SUBSET Messages] /\ covered[x] \subseteq Messages
    BY <1>1 DEF ContextInv, ContextTypes
  <2>2. covered[x] \cup Candidates(runs[p].session, Len(log), {}) \in SUBSET Messages
    BY <1>4, <2>1
  <2>3. /\ covered' \in [Contexts -> SUBSET Messages] /\ covered[x] \subseteq covered'[x]
        /\ \A y \in Contexts \ {x} : covered'[y] = covered[y]
    BY <1>1, <1>3, <2>1, <2>2
  <2>4. /\ agentSession' \in [Contexts -> [status : {"none", "active", "archived"},
                                          generation : Nat]]
        /\ agentSession'[x].status = agentSession[x].status
        /\ agentSession'[x].generation = agentSession[x].generation + 1
        /\ \A y \in Contexts \ {x} : agentSession'[y] = agentSession[y]
    BY <1>1, <1>2, <1>3 DEF ContextInv, ContextTypes
  <2>5. QED
    BY <1>3, <2>3, <2>4 DEF Rotates, ContextInv, ContextTypes
<1>6. /\ runs'[p] \in RunRows
      /\ runs'[p].generation = runs[p].generation + 1
      /\ runs'[p].seat = runs[p].seat /\ runs'[p].session = runs[p].session
      /\ runs'[p].status = runs[p].status /\ runs'[p].prepared = runs[p].prepared
      /\ runs'[p].committed = runs[p].committed
      /\ runs'[p].base = runs[p].base /\ runs'[p].seen = runs[p].seen
      /\ \A q \in Posts \ {p} : runs'[q] = runs[q]
      /\ runs' \in [Posts -> RunRows \union {NoRun}]
  <2> DEFINE row == [runs[p] EXCEPT !.generation = runs[p].generation + 1]
  <2>1. /\ row \in RunRows
        /\ row.generation = runs[p].generation + 1
        /\ row.seat = runs[p].seat /\ row.session = runs[p].session
        /\ row.status = runs[p].status /\ row.prepared = runs[p].prepared
        /\ row.committed = runs[p].committed
        /\ row.base = runs[p].base /\ row.seen = runs[p].seen
    <3>1. runs[p] \in RunRows /\ runs[p].generation + 1 \in Nat
      BY <1>1
    <3>2. QED
      BY <3>1 DEF RunRows
  <2>2. /\ runs'[p] = row
        /\ \A q \in Posts \ {p} : runs'[q] = runs[q]
        /\ runs' = [q \in Posts |-> runs'[q]]
    BY <1>3 DEF ContextInv, ContextTypes
  <2>3. runs' \in [Posts -> RunRows \union {NoRun}]
    <3>1. \A q \in Posts : runs[q] \in RunRows \union {NoRun}
      BY DEF ContextInv, ContextTypes
    <3>2. runs'[p] \in RunRows
      BY <2>1, <2>2
    <3> HIDE DEF row
    <3>3. QED
      BY <2>2, <3>1, <3>2
  <2> HIDE DEF row
  <2>4. QED
    BY <2>1, <2>2, <2>3
<1>7. \A q \in Posts : (Used(q)' <=> Used(q)) /\ (Used(q) => At(q)' = At(q))
  <2>1. runs'[p] # NoRun
    BY <1>6 DEF RunRows
  <2>2. QED
    BY <1>1, <1>6, <2>1 DEF Used, At
<1>8. ContextTypes'
  BY <1>3, <1>5, <1>6 DEF ContextInv, ContextTypes, Rotates, Contexts
<1>9. Numbered' /\ LogSound'
  BY <1>1, <1>5, <1>7, RotatesNumbered
<1>10. RunsSound'
  <2>1. SUFFICES ASSUME NEW q \in Posts, Used(q)
        PROVE  RunSound(q)'
    BY <1>7 DEF RunsSound
  <2>2. RunSound(q) /\ At(q)' = At(q) /\ runs[q].generation \in Nat
    BY <1>7, <2>1, RunType DEF ContextInv, RunsSound
  <2>3. CASE At(q) # x
    BY <1>1, <1>5, <1>6, <2>1, <2>3, RotatesElsewhere
  <2>4. CASE At(q) = x
    <3>1. Remembered(q) => Remembered(q)'
      BY <1>5, <2>2, <2>4 DEF Remembered, Turns
    <3>2. agentSession'[x].generation = agentSession[x].generation + 1
      BY <1>5 DEF Rotates
    <3>3. CASE q = p
      <4>1. BaseSound(p)'
        BY <1>1, <1>5, <1>6, <2>2, <3>3 DEF RunSound, BaseSound, Turns
      <4>2. QED
        BY <1>1, <1>3, <1>6, <2>2, <2>4, <3>1, <3>2, <3>3, <4>1
           DEF RunSound, Started, IsActive
    <3>4. CASE q # p
      <4>1. runs'[q] = runs[q] /\ runs[q].generation <= agentSession[x].generation
        BY <1>6, <2>2, <2>4, <3>4 DEF RunSound
      <4>2. BaseSound(q)' /\ runs[q].generation <= agentSession'[x].generation
        BY <1>1, <2>2, <2>4, <3>2, <4>1 DEF BaseSound
      <4>3. replies' = replies /\ Started' = Started /\ cliSeats' = cliSeats
        BY <1>3 DEF Started
      <4>4. QED
        BY <2>2, <2>4, <3>1, <4>1, <4>2, <4>3 DEF RunSound, IsActive
    <3>5. QED
      BY <3>3, <3>4
  <2>5. QED
    BY <2>3, <2>4
<1>11. TurnsSound'
  <2>1. \A y \in Contexts : Turns(y) \in Seq(Posts) /\ Turns(y)' = Turns(y)
    BY <1>3 DEF ContextInv, ContextTypes, Turns
  <2>2. \A q \in Posts : runs'[q].committed = runs[q].committed
    BY <1>6
  <2>3. \A y \in Contexts : \A i \in 1 .. Len(Turns(y)) : Turns(y)[i] \in Posts
    BY <2>1
  <2>4. QED
    BY <1>7, <2>1, <2>2, <2>3 DEF ContextInv, TurnsSound, Contexts, Used, At
<1>12. JobsSound'
  <2>1. SUFFICES ASSUME NEW a \in Seats, compaction[a] # NoCompaction
        PROVE  JobSound(a)'
    BY <1>3 DEF JobsSound
  <2>2. compaction'[a] = compaction[a] /\ JobSound(a) /\ Target(a)' = Target(a)
    BY <1>3, <2>1 DEF ContextInv, JobsSound, Target
  <2>3. CASE Target(a) # x
    BY <1>1, <1>5, <1>6, <1>7, <2>1, <2>2, <2>3, RotatesElsewhere
  <2>4. CASE Target(a) = x
    <3>1. compaction[a].from \in Nat
      BY <2>1, JobType DEF ContextInv
    <3>2. agentSession'[x].generation = agentSession[x].generation + 1
      BY <1>5 DEF Rotates
    <3>3. /\ compaction[a].from <= agentSession'[x].generation
          /\ agentSession'[x].generation # compaction[a].from
      BY <1>1, <2>2, <2>4, <3>1, <3>2 DEF JobSound
    <3>4. \A q \in Posts : Awaited(a, q)' <=> Awaited(a, q)
      BY <1>3 DEF Awaited
    <3>5. \A q \in Posts : /\ runs'[q].prepared = runs[q].prepared
                           /\ runs'[q].committed = runs[q].committed
      BY <1>6
    <3>6. QED
      BY <1>3, <1>7, <2>2, <2>4, <3>3, <3>4, <3>5 DEF JobSound, Started
  <2>5. QED
    BY <2>3, <2>4
<1>13. QED
  BY <1>8, <1>9, <1>10, <1>11, <1>12 DEF ContextInv

(* Nobody is prepared while the owner changes the model.                   *)
LEMMA ChangeModelInv ==
    ASSUME ContextInv, NEW a \in Seats, ChangeModel(a)
    PROVE  ContextInv'
<1> DEFINE x == <<active, a>>
<1>1. /\ x \in Contexts /\ Posted \in Nat /\ UsedPosts = 1 .. Posted
      /\ agentSession[x] \in [status : {"none", "active", "archived"}, generation : Nat]
  BY DEF ContextInv, ContextTypes, Numbered, Contexts
<1>2. /\ agentSession' = [agentSession EXCEPT ![x].generation = @ + 1]
      /\ history' = [history EXCEPT ![x] = [EmptyHistory EXCEPT !.since = Posted]]
      /\ UNCHANGED <<cliSeats, active, spaceSession, covered, logVars, runs, compaction>>
  BY DEF ChangeModel
<1>3. /\ history'[x] \in [version : Nat, turns : Seq(Posts), since : Nat]
      /\ history'[x].turns = << >> /\ history'[x].since = Posted
  <2> DEFINE fresh == [EmptyHistory EXCEPT !.since = Posted]
  <2>1. /\ fresh \in [version : Nat, turns : Seq(Posts), since : Nat]
        /\ fresh.turns = << >> /\ fresh.since = Posted
    <3>1. << >> \in Seq(Posts)
      OBVIOUS
    <3>2. QED
      BY <1>1, <3>1 DEF EmptyHistory
  <2>2. history'[x] = fresh
    BY <1>1, <1>2 DEF ContextInv, ContextTypes
  <2>3. QED
    BY <2>1, <2>2
<1>4. Rotates(x)
  <2>1. /\ history' \in [Contexts -> [version : Nat, turns : Seq(Posts), since : Nat]]
        /\ \A y \in Contexts \ {x} : history'[y] = history[y]
    BY <1>1, <1>2, <1>3 DEF ContextInv, ContextTypes
  <2>2. /\ agentSession' \in [Contexts -> [status : {"none", "active", "archived"},
                                          generation : Nat]]
        /\ agentSession'[x].status = agentSession[x].status
        /\ agentSession'[x].generation = agentSession[x].generation + 1
        /\ \A y \in Contexts \ {x} : agentSession'[y] = agentSession[y]
    <3> HIDE DEF x
    <3>1. QED
      BY <1>1, <1>2 DEF ContextInv, ContextTypes
  <2>3. QED
    BY <1>2, <2>1, <2>2 DEF Rotates, ContextInv, ContextTypes
<1>5. \A q \in Posts : (Used(q)' <=> Used(q)) /\ (Used(q) => At(q)' = At(q))
  BY <1>2 DEF Used, At
<1>6. ContextTypes'
  BY <1>2, <1>4 DEF ContextInv, ContextTypes, Rotates, Contexts
<1>7. Numbered' /\ LogSound'
  BY <1>1, <1>4, <1>5, RotatesNumbered
<1>8. RunsSound'
  <2>1. SUFFICES ASSUME NEW q \in Posts, Used(q)
        PROVE  RunSound(q)'
    BY <1>5 DEF RunsSound
  <2>2. RunSound(q) /\ At(q)' = At(q) /\ runs' = runs /\ runs[q].generation \in Nat
    BY <1>2, <1>5, <2>1, RunType DEF ContextInv, RunsSound
  <2>3. CASE At(q) # x
    BY <1>1, <1>4, <2>1, <2>2, <2>3, RotatesElsewhere
  <2>4. CASE At(q) = x
    <3>1. q <= Posted
      BY <1>1, <2>1 DEF UsedPosts, Used
    <3>2. Remembered(q)'
      BY <1>3, <2>2, <2>4, <3>1 DEF Remembered
    <3>3. ~runs[q].prepared
      BY <2>2, <2>4 DEF ChangeModel, RunSound, At
    <3>4. agentSession'[x].generation = agentSession[x].generation + 1
      BY <1>4 DEF Rotates
    <3>5. runs[q].generation <= agentSession'[x].generation
      BY <1>1, <2>2, <2>4, <3>4 DEF RunSound
    <3>6. QED
      BY <1>2, <2>2, <2>4, <3>2, <3>3, <3>5 DEF RunSound, BaseSound, Started, IsActive
  <2>5. QED
    BY <2>3, <2>4
<1>9. TurnsSound'
  <2>1. SUFFICES ASSUME NEW y \in Contexts, NEW i \in 1 .. Len(Turns(y)')
        PROVE  /\ runs[Turns(y)'[i]] # NoRun
               /\ <<runs[Turns(y)'[i]].session, runs[Turns(y)'[i]].seat>> = y
               /\ runs[Turns(y)'[i]].committed
    BY <1>2 DEF TurnsSound, Contexts, Turns, Used, At
  <2>2. y # x
    BY <1>3, <2>1 DEF Turns
  <2>3. Turns(y)' = Turns(y)
    BY <1>4, <2>2 DEF Rotates, Turns
  <2>4. QED
    BY <2>1, <2>3 DEF ContextInv, TurnsSound, Used, At
<1>10. JobsSound'
  <2>1. SUFFICES ASSUME NEW b \in Seats, compaction[b] # NoCompaction
        PROVE  JobSound(b)'
    BY <1>2 DEF JobsSound
  <2>2. Compacting(b)
    BY <2>1, JobType DEF ContextInv
  <2>3. b # a
    BY <2>2 DEF ChangeModel
  <2>4. Target(b) # x
    BY <2>3 DEF Target
  <2>5. QED
    BY <1>1, <1>2, <1>4, <1>5, <2>1, <2>4, RotatesElsewhere
<1>11. QED
  BY <1>6, <1>7, <1>8, <1>9, <1>10 DEF ContextInv

-----------------------------------------------------------------------------
(* Compactions *)

(* Every run that may still add a turn, and every turn, is in the source   *)
(* of the job or among its runs.                                           *)
LEMMA RequestCompactionInv ==
    ASSUME ContextInv, RequestCompaction
    PROVE  ContextInv'
<1>1. UNCHANGED <<sessionVars, history, covered, logVars, runs>>
  BY DEF RequestCompaction
<1>2. active \in SpaceSessions /\ active \in Started
  BY DEF ContextInv, ContextTypes, Numbered
<1>3. /\ SourceSeq(active) \in Nat
      /\ \A i \in 1 .. Len(log) : SessionOf(log[i]) = active => i <= SourceSeq(active)
  BY <1>2, SourceSeqBounds DEF ContextInv
<1>4. ASSUME NEW a \in Seats
      PROVE  /\ compaction'[a] \in JobRows
             /\ compaction'[a].status = "queued" /\ compaction'[a].session = active
             /\ compaction'[a].from = agentSession[<<active, a>>].generation
             /\ compaction'[a].sourceSeq = SourceSeq(active)
             /\ compaction'[a].included = {p \in Posts : /\ IsActive(p)
                                                         /\ runs[p].session = active
                                                         /\ runs[p].seat = a}
  <2>1. agentSession[<<active, a>>].generation \in Nat
    BY <1>2 DEF ContextInv, ContextTypes, Contexts
  <2>2. {p \in Posts : IsActive(p) /\ runs[p].session = active /\ runs[p].seat = a} \in SUBSET Posts
    OBVIOUS
  <2>3. QED
    BY <1>2, <1>3, <2>1, <2>2 DEF RequestCompaction, JobRows
<1>5. compaction' \in [Seats -> JobRows \union {NoCompaction}]
  BY <1>4 DEF RequestCompaction
<1>6. ContextTypes' /\ Numbered' /\ LogSound' /\ RunsSound' /\ TurnsSound'
  <2>1. ContextTypes'
    BY <1>1, <1>5 DEF ContextInv, ContextTypes, Contexts
  <2>2. Numbered'
    BY <1>1 DEF ContextInv, Numbered, UsedPosts, Posted, Started
  <2>3. LogSound'
    BY <1>1 DEF ContextInv, LogSound, Said, Used
  <2>4. RunsSound'
    BY <1>1 DEF ContextInv, RunsSound, RunSound, Used, BaseSound, Remembered, Turns, At,
                Started, IsActive
  <2>5. TurnsSound'
    BY <1>1 DEF ContextInv, TurnsSound, Turns, Used, At, Contexts
  <2>6. QED
    BY <2>1, <2>2, <2>3, <2>4, <2>5
<1>7. JobsSound'
  <2>1. SUFFICES ASSUME NEW a \in Seats
        PROVE  JobSound(a)'
    BY DEF JobsSound
  <2>2. Target(a)' = <<active, a>>
    BY <1>4 DEF Target
  <2>3. agentSession[<<active, a>>].generation \in Nat
    BY <1>2 DEF ContextInv, ContextTypes, Contexts
  <2>4. ASSUME NEW p \in Posts, Used(p), At(p) = <<active, a>>,
               runs[p].prepared \/ runs[p].committed
        PROVE  Awaited(a, p)'
    <3>1. RunSound(p) /\ runs[p].session = active /\ runs[p].seat = a
      BY <2>4 DEF ContextInv, RunsSound, At
    <3>2. CASE runs[p].prepared
      BY <1>4, <3>1, <3>2 DEF RunSound, Awaited
    <3>3. CASE runs[p].committed
      <4>1. <<p, "reply">> \in Said
        <5>1. replies[p] = "completed"
          BY <3>1, <3>3 DEF RunSound
        <5>2. QED
          BY <5>1 DEF ContextInv, LogSound
      <4>2. PICK i \in 1 .. Len(log) : log[i] = <<p, "reply">>
        <5>1. Said = {log[i] : i \in 1 .. Len(log)}
          BY DEF ContextInv, ContextTypes, Said, Range
        <5>2. QED
          BY <4>1, <5>1
      <4>3. SessionOf(log[i]) = active
        BY <3>1, <4>2 DEF SessionOf
      <4>4. QED
        BY <1>1, <1>3, <1>4, <4>2, <4>3 DEF Awaited
    <3>4. QED
      BY <2>4, <3>2, <3>3
  <2>5. QED
    BY <1>1, <1>2, <1>4, <2>2, <2>3, <2>4 DEF JobSound, Used, At, Started
<1>8. QED
  BY <1>6, <1>7 DEF ContextInv

(* The checkpoint has the turns of the history.                            *)
LEMMA StartCompactionInv ==
    ASSUME ContextInv, NEW a \in Seats, StartCompaction(a)
    PROVE  ContextInv'
<1>1. compaction[a] # NoCompaction /\ compaction[a].status = "queued"
  BY DEF StartCompaction
<1>2. CASE Settle(a)
  BY <1>2, SettleInv DEF StartCompaction
<1>3. CASE /\ agentSession[Target(a)].generation = compaction[a].from
           /\ compaction' = [compaction EXCEPT
                  ![a].status = "running",
                  ![a].checkpoint = covered[Target(a)] \cup
                      Candidates(compaction[a].session, compaction[a].sourceSeq,
                                 compaction[a].included)]
  <2> DEFINE C == Candidates(compaction[a].session, compaction[a].sourceSeq,
                             compaction[a].included)
             row == [compaction[a] EXCEPT !.status = "running",
                                          !.checkpoint = covered[Target(a)] \cup C]
             x == Target(a)
  <2>1. UNCHANGED <<sessionVars, history, covered, logVars, runs>>
    BY DEF StartCompaction
  <2>2. compaction[a] \in JobRows /\ x \in Contexts /\ JobSound(a)
    BY <1>1, JobType DEF ContextInv, JobsSound
  <2>3. covered[x] \cup C \in SUBSET Messages
    BY <2>2, CandidatesType DEF ContextInv, ContextTypes
  <2>4. /\ row \in JobRows /\ row.status = "running"
        /\ row.session = compaction[a].session /\ row.from = compaction[a].from
        /\ row.sourceSeq = compaction[a].sourceSeq /\ row.included = compaction[a].included
        /\ row.checkpoint = covered[x] \cup C
    <3> HIDE DEF C, x
    <3>1. QED
      BY <2>2, <2>3 DEF JobRows, x
  <2>5. /\ compaction'[a] = row
        /\ \A b \in Seats \ {a} : compaction'[b] = compaction[b]
        /\ compaction' = [b \in Seats |-> compaction'[b]]
    BY <1>3 DEF ContextInv, ContextTypes
  <2> HIDE DEF row, C
  <2>6. compaction' \in [Seats -> JobRows \union {NoCompaction}]
    BY <2>4, <2>5 DEF ContextInv, ContextTypes
  <2>7. ContextTypes'
    BY <2>1, <2>6 DEF ContextInv, ContextTypes, Contexts
  <2>8. Numbered'
    BY <2>1 DEF ContextInv, Numbered, UsedPosts, Posted, Started
  <2>9. LogSound'
    BY <2>1 DEF ContextInv, LogSound, Said, Used
  <2>10. RunsSound'
    BY <2>1 DEF ContextInv, RunsSound, RunSound, Used, BaseSound, Remembered, Turns, At,
                Started, IsActive
  <2>11. TurnsSound'
    BY <2>1 DEF ContextInv, TurnsSound, Turns, Used, At, Contexts
  <2>12. JobsSound'
    <3>1. SUFFICES ASSUME NEW b \in Seats, compaction'[b] # NoCompaction
          PROVE  JobSound(b)'
      BY DEF JobsSound
    <3>2. CASE b # a
      <4>1. compaction'[b] = compaction[b] /\ JobSound(b)
        BY <2>5, <3>1, <3>2 DEF ContextInv, JobsSound
      <4>2. Target(b)' = Target(b)
        BY <4>1 DEF Target
      <4>3. \A q \in Posts : Awaited(b, q)' <=> Awaited(b, q)
        BY <2>1, <4>1 DEF Awaited
      <4>4. CheckpointSound(b) => CheckpointSound(b)'
        BY <2>1, <4>1, <4>2 DEF CheckpointSound, NoExtension, Turns, Used, At
      <4>5. QED
        BY <2>1, <4>1, <4>2, <4>3, <4>4 DEF JobSound, Used, At, Started
    <3>3. CASE b = a
      <4>1. Target(a)' = x
        BY <2>4, <2>5 DEF Target
      <4>2. \A q \in Posts : Awaited(a, q)' <=> Awaited(a, q)
        BY <2>1, <2>4, <2>5 DEF Awaited
      <4>3. \A i \in 1 .. Len(Turns(x)) : <<Turns(x)[i], "reply">> \in C
        <5>1. SUFFICES ASSUME NEW i \in 1 .. Len(Turns(x))
              PROVE  <<Turns(x)[i], "reply">> \in C
          OBVIOUS
        <5> DEFINE p == Turns(x)[i]
        <5>2. p \in Posts
          BY <2>2 DEF ContextInv, ContextTypes, Turns
        <5>3. Used(p) /\ At(p) = x /\ runs[p].committed
          BY <2>2 DEF ContextInv, TurnsSound
        <5>4. Awaited(a, p) /\ RunSound(p)
          BY <2>2, <5>2, <5>3 DEF JobSound, ContextInv, RunsSound
        <5>5. replies[p] = "completed" /\ <<p, "reply">> \in Said
          BY <5>2, <5>3, <5>4 DEF RunSound, ContextInv, LogSound
        <5>6. runs[p].session = compaction[a].session
          BY <5>3 DEF At, Target
        <5> HIDE DEF p
        <5>7. ASSUME p \notin compaction[a].included
              PROVE  Place(<<p, "reply">>) <= compaction[a].sourceSeq
          <6>1. PICK j \in 1 .. Len(log) : /\ log[j] = <<p, "reply">>
                                           /\ j <= compaction[a].sourceSeq
            BY <5>4, <5>7 DEF Awaited
          <6>2. Place(<<p, "reply">>) = j
            BY <6>1 DEF Place, ContextInv, LogSound
          <6>3. QED
            BY <6>1, <6>2
        <5>8. <<p, "reply">> \in C
          BY <5>5, <5>6, <5>7 DEF C, Candidates, In, Said, SessionOf, Completed
        <5>9. QED
          BY <5>8 DEF p
      <4>4. CheckpointSound(a)'
        <5>1. /\ covered'[Target(a)'] \subseteq compaction'[a].checkpoint
              /\ \A i \in 1 .. Len(Turns(x)) : <<Turns(x)[i], "reply">> \in compaction'[a].checkpoint
          BY <2>1, <2>4, <2>5, <4>1, <4>3
        <5>2. Turns(x) \in Seq(Posts) /\ history'[Target(a)'].turns = Turns(x)
          BY <2>1, <2>2, <4>1 DEF ContextInv, ContextTypes, Turns
        <5>3. Len(Turns(x)) \in Nat
          BY <5>2
        <5>4. \/ Len(Turns(x)) = 0
              \/ <<Turns(x)[Len(Turns(x))], "reply">> \in compaction'[a].checkpoint
          BY <5>1, <5>3
        <5>5. \A i \in 1 .. Len(Turns(x)) - 1 : <<Turns(x)[i], "reply">> \in compaction'[a].checkpoint
          BY <5>1, <5>3
        <5> HIDE DEF x
        <5>6. QED
          BY <5>1, <5>2, <5>4, <5>5 DEF CheckpointSound, Turns
      <4>5. /\ compaction'[a].session \in Started'
            /\ compaction'[a].from <= agentSession'[x].generation
            /\ \A p \in Posts : Used(p) /\ At(p) = x /\ (runs[p].prepared \/ runs[p].committed)
                                => Awaited(a, p)
        BY <2>1, <2>2, <2>4, <2>5 DEF JobSound, Started
      <4> HIDE DEF x
      <4>6. QED
        BY <2>1, <3>3, <4>1, <4>2, <4>4, <4>5 DEF JobSound, Used, At
    <3>4. QED
      BY <3>2, <3>3
  <2>13. QED
    BY <2>7, <2>8, <2>9, <2>10, <2>11, <2>12 DEF ContextInv
<1>4. QED
  BY <1>2, <1>3 DEF StartCompaction

LEMMA CompactionFailsInv ==
    ASSUME ContextInv, NEW a \in Seats, CompactionFails(a)
    PROVE  ContextInv'
BY SettleInv DEF CompactionFails

(* The larger of two numbers.                                              *)
LEMMA MaxOfTwo ==
    ASSUME NEW m \in Int, NEW n \in Int
    PROVE  Max({m, n}) = IF m >= n THEN m ELSE n
<1> DEFINE k == IF m >= n THEN m ELSE n
<1>1. k \in {m, n} /\ \A y \in {m, n} : k >= y
  OBVIOUS
<1>2. \A x \in {m, n} : (\A y \in {m, n} : x >= y) => x = k
  OBVIOUS
<1>3. QED
  BY <1>1, <1>2 DEF Max

(* At least the last turn is carried, and nothing else.                    *)
LEMMA CarriedTurnsFacts ==
    ASSUME NEW turns \in Seq(Posts)
    PROVE  /\ CarriedTurns(turns) \in Seq(Posts)
           /\ Len(turns) \in Nat /\ Len(CarriedTurns(turns)) \in Nat
           /\ Len(turns) # 0 =>
                 /\ Len(CarriedTurns(turns)) # 0
                 /\ CarriedTurns(turns)[Len(CarriedTurns(turns))] = turns[Len(turns)]
           /\ \A i \in 1 .. Len(CarriedTurns(turns)) :
                 \E j \in 1 .. Len(turns) : CarriedTurns(turns)[i] = turns[j]
<1> DEFINE n == Len(turns)
           from == Max({1, n - RecentTurns + 1})
<1>1. n \in Nat /\ RecentTurns \in Nat /\ RecentTurns >= 1
  BY ContextAssumption
<1>2. from = IF 1 >= n - RecentTurns + 1 THEN 1 ELSE n - RecentTurns + 1
  BY <1>1, MaxOfTwo
<1>3. from \in Nat /\ from >= 1 /\ (n # 0 => from <= n) /\ (n = 0 => from = 1)
  BY <1>1, <1>2
<1>4. CarriedTurns(turns) = SubSeq(turns, from, n)
  BY DEF CarriedTurns
<1> HIDE DEF from
<1>5. CASE n = 0
  <2>1. SubSeq(turns, from, n) = << >>
    BY <1>1, <1>3, <1>5
  <2>2. Len(CarriedTurns(turns)) = 0 /\ CarriedTurns(turns) \in Seq(Posts)
    BY <1>4, <2>1
  <2>3. QED
    BY <1>1, <1>5, <2>2
<1>6. CASE n # 0
  <2>1. /\ SubSeq(turns, from, n) \in Seq(Posts)
        /\ Len(SubSeq(turns, from, n)) = n - from + 1
        /\ \A i \in 1 .. n - from + 1 : SubSeq(turns, from, n)[i] = turns[from + i - 1]
    BY <1>1, <1>3, <1>6
  <2>2. n - from + 1 \in Nat /\ n - from + 1 # 0 /\ from + (n - from + 1) - 1 = n
    BY <1>1, <1>3, <1>6
  <2>3. \A i \in 1 .. n - from + 1 : from + i - 1 \in 1 .. n
    BY <1>1, <1>3, <1>6
  <2>4. SubSeq(turns, from, n)[n - from + 1] = turns[n]
    BY <2>1, <2>2
  <2>5. QED
    BY <1>1, <1>4, <1>6, <2>1, <2>2, <2>3, <2>4
<1>7. QED
  BY <1>5, <1>6

(* What is not carried is in the checkpoint.                               *)
LEMMA CompactionSucceedsInv ==
    ASSUME ContextInv, NEW a \in Seats, CompactionSucceeds(a)
    PROVE  ContextInv'
<1> DEFINE x == Target(a)
           carried == CarriedTurns(Turns(x))
<1>1. compaction[a] # NoCompaction /\ compaction[a].status = "running"
  BY DEF CompactionSucceeds
<1>2. /\ x \in Contexts /\ JobSound(a) /\ compaction[a].checkpoint \in SUBSET Messages
      /\ agentSession[x].generation = compaction[a].from /\ agentSession[x].generation \in Nat
      /\ agentSession[x] \in [status : {"none", "active", "archived"}, generation : Nat]
      /\ history[x] \in [version : Nat, turns : Seq(Posts), since : Nat]
      /\ Turns(x) \in Seq(Posts)
  BY <1>1, JobType DEF CompactionSucceeds, ContextInv, ContextTypes, JobsSound, Turns
<1>3. CheckpointSound(a)
  BY <1>1, <1>2 DEF JobSound
<1>4. /\ carried \in Seq(Posts) /\ Len(Turns(x)) \in Nat /\ Len(carried) \in Nat
      /\ Len(Turns(x)) # 0 => /\ Len(carried) # 0
                              /\ carried[Len(carried)] = Turns(x)[Len(Turns(x))]
      /\ \A i \in 1 .. Len(carried) : \E j \in 1 .. Len(Turns(x)) : carried[i] = Turns(x)[j]
  BY <1>2, CarriedTurnsFacts
<1>5. /\ agentSession' = [agentSession EXCEPT ![x].generation = @ + 1]
      /\ covered' = [covered EXCEPT ![x] = compaction[a].checkpoint]
      /\ history' = [history EXCEPT ![x].version = 0, ![x].turns = CarriedTurns(@)]
      /\ compaction' = [compaction EXCEPT ![a] = NoCompaction]
      /\ UNCHANGED <<cliSeats, active, spaceSession, logVars, runs>>
  BY DEF CompactionSucceeds, Settle
<1>6. /\ history'[x] \in [version : Nat, turns : Seq(Posts), since : Nat]
      /\ history'[x].turns = carried /\ history'[x].since = history[x].since
      /\ history' \in [Contexts -> [version : Nat, turns : Seq(Posts), since : Nat]]
      /\ \A y \in Contexts \ {x} : history'[y] = history[y]
  <2> DEFINE h == [history[x] EXCEPT !.version = 0, !.turns = CarriedTurns(@)]
  <2>1. /\ h \in [version : Nat, turns : Seq(Posts), since : Nat]
        /\ h.turns = carried /\ h.since = history[x].since
    <3> HIDE DEF x
    <3>1. QED
      BY <1>2, <1>4 DEF Turns
  <2>2. history'[x] = h /\ \A y \in Contexts \ {x} : history'[y] = history[y]
    BY <1>2, <1>5 DEF ContextInv, ContextTypes
  <2>3. history' = [y \in Contexts |-> history'[y]]
    BY <1>5 DEF ContextInv, ContextTypes
  <2> HIDE DEF h, x, carried
  <2>4. QED
    BY <1>2, <2>1, <2>2, <2>3 DEF ContextInv, ContextTypes
<1> HIDE DEF x, carried
<1>7. /\ covered' \in [Contexts -> SUBSET Messages]
      /\ covered'[x] = compaction[a].checkpoint
      /\ \A y \in Contexts \ {x} : covered'[y] = covered[y]
  BY <1>2, <1>5 DEF ContextInv, ContextTypes
<1>8. /\ agentSession' \in [Contexts -> [status : {"none", "active", "archived"}, generation : Nat]]
      /\ agentSession'[x].status = agentSession[x].status
      /\ agentSession'[x].generation = agentSession[x].generation + 1
      /\ \A y \in Contexts \ {x} : agentSession'[y] = agentSession[y]
  <2>1. /\ x \in Contexts
        /\ agentSession[x] \in [status : {"none", "active", "archived"}, generation : Nat]
        /\ agentSession \in [Contexts -> [status : {"none", "active", "archived"},
                                          generation : Nat]]
    BY <1>2 DEF ContextInv, ContextTypes
  <2>2. agentSession' = [agentSession EXCEPT ![x].generation = @ + 1]
    BY <1>5
  <2>3. QED
    BY <2>1, <2>2
<1>9. Rotates(x)
  BY <1>5, <1>6, <1>7, <1>8 DEF Rotates
<1>10. \A q \in Posts : (Used(q)' <=> Used(q)) /\ (Used(q) => At(q)' = At(q))
  BY <1>5 DEF Used, At
<1>11. /\ compaction' \in [Seats -> JobRows \union {NoCompaction}]
       /\ compaction'[a] = NoCompaction
       /\ \A b \in Seats \ {a} : compaction'[b] = compaction[b]
  BY <1>5 DEF ContextInv, ContextTypes
<1>12. ContextTypes'
  BY <1>5, <1>9, <1>11 DEF ContextInv, ContextTypes, Rotates, Contexts
<1>13. Numbered' /\ LogSound'
  BY <1>2, <1>9, <1>10, RotatesNumbered
<1>14. RunsSound'
  <2>1. SUFFICES ASSUME NEW q \in Posts, Used(q)
        PROVE  RunSound(q)'
    BY <1>10 DEF RunsSound
  <2>2. RunSound(q) /\ At(q)' = At(q) /\ runs' = runs /\ runs[q].generation \in Nat
    BY <1>5, <1>10, <2>1, RunType DEF ContextInv, RunsSound
  <2>3. CASE At(q) # x
    BY <1>2, <1>9, <2>1, <2>2, <2>3, RotatesElsewhere
  <2>4. CASE At(q) = x
    <3>1. covered[x] \subseteq covered'[x]
      BY <1>3, <1>7 DEF CheckpointSound, x
    <3>2. ASSUME NEW i \in 1 .. Len(Turns(x)), Turns(x)[i] = q
          PROVE  \/ \E j \in 1 .. Len(carried) : carried[j] = q
                 \/ <<q, "reply">> \in covered'[x]
      <4>1. CASE i = Len(Turns(x))
        BY <1>4, <3>2, <4>1
      <4>2. CASE i # Len(Turns(x))
        <5>1. i \in 1 .. Len(Turns(x)) - 1
          BY <1>4, <3>2, <4>2
        <5>2. QED
          BY <1>3, <1>7, <3>2, <5>1 DEF CheckpointSound, x
      <4>3. QED
        BY <4>1, <4>2
    <3>3. Remembered(q) => Remembered(q)'
      BY <1>6, <2>2, <2>4, <3>1, <3>2 DEF Remembered, Turns
    <3>4. /\ runs[q].generation <= agentSession'[x].generation
          /\ runs[q].generation # agentSession'[x].generation
      BY <1>2, <1>8, <2>2, <2>4 DEF RunSound
    <3>5. replies' = replies /\ Started' = Started /\ cliSeats' = cliSeats
      BY <1>5 DEF Started
    <3>6. BaseSound(q)'
      BY <2>2, <2>4, <3>4 DEF BaseSound
    <3>7. QED
      BY <2>2, <2>4, <3>3, <3>4, <3>5, <3>6 DEF RunSound, IsActive
  <2>5. QED
    BY <2>3, <2>4
<1>15. TurnsSound'
  <2>1. SUFFICES ASSUME NEW y \in Contexts, NEW i \in 1 .. Len(Turns(y)')
        PROVE  /\ runs[Turns(y)'[i]] # NoRun
               /\ <<runs[Turns(y)'[i]].session, runs[Turns(y)'[i]].seat>> = y
               /\ runs[Turns(y)'[i]].committed
    BY <1>5 DEF TurnsSound, Contexts, Turns, Used, At
  <2>2. \E j \in 1 .. Len(Turns(y)) : Turns(y)'[i] = Turns(y)[j]
    <3>0. Turns(y)' = history'[y].turns
      BY DEF Turns
    <3>1. CASE y = x
      <4>1. Turns(y)' = carried
        BY <1>6, <3>0, <3>1
      <4>2. QED
        BY <1>4, <2>1, <3>1, <4>1
    <3>2. CASE y # x
      <4>1. Turns(y)' = Turns(y)
        BY <1>6, <2>1, <3>0, <3>2 DEF Turns
      <4>2. QED
        BY <2>1, <4>1
    <3>3. QED
      BY <3>1, <3>2
  <2>3. QED
    BY <2>2 DEF ContextInv, TurnsSound, Used, At
<1>16. JobsSound'
  <2>1. SUFFICES ASSUME NEW b \in Seats, compaction'[b] # NoCompaction
        PROVE  JobSound(b)'
    BY DEF JobsSound
  <2>2. b # a /\ compaction'[b] = compaction[b] /\ compaction[b] # NoCompaction
    BY <1>11, <2>1
  <2>3. Target(b) # x
    BY <2>2 DEF Target, x
  <2>4. QED
    BY <1>2, <1>5, <1>9, <1>10, <2>2, <2>3, RotatesElsewhere
<1>17. QED
  BY <1>12, <1>13, <1>14, <1>15, <1>16 DEF ContextInv

-----------------------------------------------------------------------------
(* SpaceSessions *)

(* Another session becomes active: the contexts of the started sessions    *)
(* keep their generations.                                                 *)
LEMMA SwitchInv ==
    ASSUME ContextInv, NEW s \in SpaceSessions, SwitchTo(s),
           NextSession(s) \/ spaceSession[s] = "archived",
           UNCHANGED <<history, logVars, runs, compaction>>,
           covered' \in [Contexts -> SUBSET Messages],
           \A x \in Contexts : x[1] \in Started => covered'[x] = covered[x]
    PROVE  ContextInv'
<1>1. /\ active \in SpaceSessions /\ active \in Started /\ Started \subseteq SpaceSessions
      /\ Started = 1 .. Cardinality(Started) /\ Cardinality(Started) \in Nat
      /\ \A t \in Started, a \in Seats : agentSession[<<t, a>>].status # "none"
  BY DEF ContextInv, ContextTypes, Numbered, Started
<1>2. Started' = Started \union {s}
  BY <1>1 DEF SwitchTo, Started, ContextInv, ContextTypes
<1>3. ASSUME NEW x \in Contexts
      PROVE  /\ agentSession'[x] \in [status : {"none", "active", "archived"}, generation : Nat]
             /\ x[1] \in Started => agentSession'[x].generation = agentSession[x].generation
             /\ x[1] \in Started \union {s} => agentSession'[x].status # "none"
  <2>2. /\ agentSession[x] \in [status : {"none", "active", "archived"}, generation : Nat]
        /\ x[1] \in SpaceSessions /\ x[2] \in Seats /\ x = <<x[1], x[2]>>
        /\ x[1] \in Started => agentSession[x].status # "none"
    BY <1>1 DEF ContextInv, ContextTypes, Contexts
  <2>3. agentSession'[x] =
           IF x[1] = s THEN IF agentSession[x].status = "none" THEN Fresh("active")
                            ELSE [agentSession[x] EXCEPT !.status = "active"]
           ELSE IF x[1] = active THEN [agentSession[x] EXCEPT !.status = "archived"]
           ELSE agentSession[x]
    BY DEF SwitchTo, Contexts
  <2>4. CASE x[1] = s /\ agentSession[x].status = "none"
    <3>1. agentSession'[x] = [status |-> "active", generation |-> 1]
      BY <2>3, <2>4 DEF Fresh
    <3>2. QED
      BY <2>2, <2>4, <3>1
  <2>5. CASE x[1] = s /\ agentSession[x].status # "none"
    <3>1. agentSession'[x] = [agentSession[x] EXCEPT !.status = "active"]
      BY <2>3, <2>5
    <3>2. QED
      BY <2>2, <3>1
  <2>6. CASE x[1] = active /\ x[1] # s
    <3>1. agentSession'[x] = [agentSession[x] EXCEPT !.status = "archived"]
      BY <2>3, <2>6
    <3>2. QED
      BY <2>2, <3>1
  <2>7. CASE x[1] # s /\ x[1] # active
    <3>1. agentSession'[x] = agentSession[x]
      BY <2>3, <2>7
    <3>2. QED
      BY <2>2, <2>7, <3>1
  <2>8. QED
    BY <2>4, <2>5, <2>6, <2>7
<1>12. agentSession' \in [Contexts -> [status : {"none", "active", "archived"}, generation : Nat]]
  BY <1>3 DEF SwitchTo, Contexts
<1>13. \A t \in Started', a \in Seats : agentSession'[<<t, a>>].status # "none"
  <2>1. TAKE t \in Started', a \in Seats
  <2>2. <<t, a>> \in Contexts /\ <<t, a>>[1] \in Started \union {s}
    BY <1>1, <1>2 DEF Contexts
  <2>3. QED
    BY <1>3, <2>2
<1>4. ContextTypes'
  BY <1>1, <1>12 DEF SwitchTo, ContextInv, ContextTypes, Contexts
<1>5. Numbered'
  <2>1. Started' = 1 .. Cardinality(Started') /\ Cardinality(Started') \in Nat
    <3>1. CASE NextSession(s)
      <4>1. s = Cardinality(Started) + 1
        BY <3>1 DEF NextSession, Started
      <4>2. Started' = 1 .. (Cardinality(Started) + 1)
        BY <1>1, <1>2, <4>1
      <4>3. Cardinality(1 .. (Cardinality(Started) + 1)) = Cardinality(Started) + 1
        BY <1>1, FS_Interval
      <4>4. QED
        BY <1>1, <4>2, <4>3
    <3>2. CASE spaceSession[s] = "archived"
      <4>1. s \in Started
        BY <3>2 DEF Started
      <4>2. Started' = Started
        BY <1>2, <4>1
      <4>3. QED
        BY <1>1, <4>2
    <3>3. QED
      BY <3>1, <3>2
  <2>2. active' \in Started'
    BY <1>2 DEF SwitchTo
  <2>3. UsedPosts' = UsedPosts /\ Posted' = Posted
    BY DEF UsedPosts, Posted
  <2>4. QED
    BY <1>13, <2>1, <2>2, <2>3 DEF ContextInv, Numbered
<1>6. LogSound'
  BY DEF ContextInv, LogSound, Said, Used
<1>7. ASSUME NEW x \in Contexts, x[1] \in Started
      PROVE  /\ agentSession'[x].generation = agentSession[x].generation
             /\ covered'[x] = covered[x] /\ history'[x] = history[x]
  BY <1>3, <1>7
<1>8. RunsSound'
  <2>1. SUFFICES ASSUME NEW q \in Posts, Used(q)
        PROVE  RunSound(q)'
    BY DEF RunsSound, Used
  <2>2. RunSound(q) /\ At(q)' = At(q) /\ At(q) \in Contexts /\ At(q)[1] \in Started
    BY <2>1, RunType DEF ContextInv, RunsSound, RunSound, At
  <2>3. /\ agentSession'[At(q)].generation = agentSession[At(q)].generation
        /\ covered'[At(q)] = covered[At(q)] /\ history'[At(q)] = history[At(q)]
    BY <1>7, <2>2
  <2>4. BaseSound(q)' /\ (Remembered(q)' <=> Remembered(q))
    BY <2>2, <2>3 DEF RunSound, BaseSound, Remembered, Turns
  <2>5. cliSeats' = cliSeats
    BY DEF SwitchTo
  <2>6. QED
    BY <1>2, <2>2, <2>3, <2>4, <2>5 DEF RunSound, IsActive
<1>9. TurnsSound'
  BY DEF ContextInv, TurnsSound, Turns, Used, At, Contexts
<1>10. JobsSound'
  <2>1. SUFFICES ASSUME NEW a \in Seats, compaction[a] # NoCompaction
        PROVE  JobSound(a)'
    BY DEF JobsSound
  <2>2. JobSound(a) /\ Target(a)' = Target(a) /\ Target(a) \in Contexts /\ Target(a)[1] \in Started
    BY <2>1, JobType DEF ContextInv, JobsSound, JobSound, Target
  <2>3. /\ agentSession'[Target(a)].generation = agentSession[Target(a)].generation
        /\ covered'[Target(a)] = covered[Target(a)] /\ history'[Target(a)] = history[Target(a)]
    BY <1>7, <2>2
  <2>4. \A q \in Posts : Awaited(a, q)' <=> Awaited(a, q)
    BY DEF Awaited
  <2>5. CheckpointSound(a) => CheckpointSound(a)'
    BY <2>2, <2>3 DEF CheckpointSound, NoExtension, Turns, Used, At
  <2>6. QED
    BY <1>2, <2>2, <2>3, <2>4, <2>5 DEF JobSound, Used, At
<1>11. QED
  BY <1>4, <1>5, <1>6, <1>8, <1>9, <1>10 DEF ContextInv

LEMMA StartNewSpaceSessionInv ==
    ASSUME ContextInv, NEW s \in SpaceSessions, StartNewSpaceSession(s)
    PROVE  ContextInv'
BY SwitchInv DEF StartNewSpaceSession, ContextInv, ContextTypes

LEMMA ResumeSpaceSessionInv ==
    ASSUME ContextInv, NEW s \in SpaceSessions, ResumeSpaceSession(s)
    PROVE  ContextInv'
BY SwitchInv DEF ResumeSpaceSession, ContextInv, ContextTypes

-----------------------------------------------------------------------------
(* Forges *)

(* The row of a draft and of its targets.                                  *)
LEMMA DraftRow ==
    ASSUME DraftTypes, NEW d \in Drafts, draft[d] # NoDraft
    PROVE  /\ draft[d] \in DraftRows /\ draft[d].targets \in TargetRows
           /\ \A a \in Seats : draft[d].targets[a].capsule \in SUBSET Messages
BY DEF DraftTypes, DraftRows, TargetRows

(* The new session starts with the capsules, and nothing else changes.     *)
LEMMA ConfirmDraftInv ==
    ASSUME ContextInv, DraftTypes, NEW d \in Drafts, NEW s \in SpaceSessions, ConfirmDraft(d, s)
    PROVE  ContextInv'
<1>1. CASE UNCHANGED contextVars
  BY <1>1, QuietInv
<1>2. CASE /\ NextSession(s) /\ SwitchTo(s)
           /\ covered' = [x \in SpaceSessions \X Seats |->
                             IF x[1] = s THEN draft[d].targets[x[2]].capsule ELSE covered[x]]
           /\ UNCHANGED <<history, logVars, runs, compaction>>
  <2>1. draft[d] # NoDraft
    BY DEF ConfirmDraft, NoDraft
  <2>2. covered' \in [Contexts -> SUBSET Messages]
    <3>1. SUFFICES ASSUME NEW x \in Contexts
          PROVE  (IF x[1] = s THEN draft[d].targets[x[2]].capsule ELSE covered[x]) \in SUBSET Messages
      BY <1>2 DEF Contexts
    <3>2. x[2] \in Seats /\ covered[x] \in SUBSET Messages
      BY DEF Contexts, ContextInv, ContextTypes
    <3>3. QED
      BY <2>1, <3>2, DraftRow
  <2>3. s \notin Started
    <3>1. s = Cardinality(Started) + 1
      BY <1>2 DEF NextSession, Started
    <3>2. QED
      BY <3>1 DEF ContextInv, Numbered
  <2>4. \A x \in Contexts : x[1] \in Started => covered'[x] = covered[x]
    BY <1>2, <2>3 DEF Contexts
  <2>5. QED
    BY <1>2, <2>2, <2>4, SwitchInv
<1>3. QED
  BY <1>1, <1>2 DEF ConfirmDraft

(* Drafts that are closed or whose targets are set keep their type.        *)
LEMMA ClosedType ==
    ASSUME DraftTypes, NEW d \in Drafts, draft[d] # NoDraft, NEW status \in DraftStatuses,
           Closed(d, status)
    PROVE  DraftTypes'
<1>1. draft[d] \in DraftRows
  BY DraftRow
<1>2. NoTargets \in TargetRows
  BY DEF NoTargets, TargetRows, TargetStatuses
<1>3. [draft[d] EXCEPT !.status = status, !.targets = NoTargets] \in DraftRows
  BY <1>1, <1>2 DEF DraftRows
<1>4. QED
  BY <1>3 DEF Closed, DraftTypes

LEMMA SetTargetType ==
    ASSUME DraftTypes, NEW d \in Drafts, draft[d] # NoDraft, NEW a \in Seats,
           NEW status \in TargetStatuses, NEW capsule \in SUBSET Messages, SetTarget(d, a, status, capsule)
    PROVE  DraftTypes'
<1> DEFINE targets == [draft[d].targets EXCEPT ![a] = [status |-> status, capsule |-> capsule]]
<1>1. draft[d] \in DraftRows /\ draft[d].targets \in TargetRows
  BY DraftRow
<1>2. targets \in TargetRows
  BY <1>1 DEF TargetRows
<1>3. DraftStatus(targets) \in DraftStatuses
  BY DEF DraftStatus, DraftStatuses
<1>4. draft' = [draft EXCEPT ![d].targets = targets, ![d].status = DraftStatus(targets)]
  BY DEF SetTarget
<1> HIDE DEF targets
<1>5. [draft[d] EXCEPT !.targets = targets, !.status = DraftStatus(targets)] \in DraftRows
  BY <1>1, <1>2, <1>3 DEF DraftRows
<1>6. QED
  BY <1>4, <1>5 DEF DraftTypes

LEMMA CreateDraftType ==
    ASSUME ContextInv, DraftTypes, NEW d \in Drafts, CreateDraft(d)
    PROVE  DraftTypes'
<1> DEFINE targets == [a \in Seats |->
                          [status |-> IF HighWater(active) = 0 THEN "succeeded" ELSE "queued",
                           capsule |-> {}]]
           row == [status |-> DraftStatus(targets), session |-> active,
                   sourceSeq |-> HighWater(active), version |-> 1, edited |-> FALSE,
                   targets |-> targets]
<1>1. active \in SpaceSessions
  BY DEF ContextInv, ContextTypes
<1>2. HighWater(active) \in Nat
  BY <1>1, HighWaterIsNatural DEF ContextInv
<1>3. targets \in TargetRows
  BY DEF TargetRows, TargetStatuses
<1>4. DraftStatus(targets) \in DraftStatuses
  BY DEF DraftStatus, DraftStatuses
<1>5. draft' = [draft EXCEPT ![d] = row]
  BY DEF CreateDraft
<1>6. row \in DraftRows
  <2> HIDE DEF targets
  <2>1. QED
    BY <1>1, <1>2, <1>3, <1>4 DEF DraftRows
<1> HIDE DEF row
<1>7. QED
  BY <1>5, <1>6 DEF DraftTypes

(* Every step of a draft keeps the type of the drafts.                     *)
LEMMA ForgeStepType ==
    ASSUME ContextInv, DraftTypes, NEW d \in Drafts,
           \/ CreateDraft(d) \/ UpdateDraft(d) \/ CancelDraft(d)
           \/ \E a \in Seats : StartTarget(d, a)
                               \/ \E status \in {"succeeded", "failed"} : FinishTarget(d, a, status)
           \/ \E s \in SpaceSessions : ConfirmDraft(d, s)
    PROVE  DraftTypes'
<1>1. CASE CreateDraft(d)
  BY <1>1, CreateDraftType
<1>2. CASE UpdateDraft(d)
  <2>1. draft[d] # NoDraft
    BY <1>2 DEF UpdateDraft, NoDraft
  <2>2. draft[d] \in DraftRows
    BY <2>1, DraftRow
  <2>3. draft[d].version + 1 \in Nat
    BY <2>2 DEF DraftRows
  <2>4. \A v \in Nat : [draft[d] EXCEPT !.version = v, !.edited = TRUE] \in DraftRows
    BY <2>2 DEF DraftRows
  <2>5. QED
    <3>1. draft[d] \in DraftRows
      BY <2>2
    <3>2. draft' = [draft EXCEPT ![d] = [draft[d] EXCEPT !.version = draft[d].version + 1,
                                                         !.edited = TRUE]]
      BY <1>2 DEF UpdateDraft, DraftTypes
    <3>3. [draft[d] EXCEPT !.version = draft[d].version + 1, !.edited = TRUE] \in DraftRows
      BY <2>3, <2>4
    <3>4. QED
      BY <3>2, <3>3 DEF DraftTypes
<1>3. CASE CancelDraft(d)
  <2>1. draft[d] # NoDraft
    BY <1>3 DEF CancelDraft, NoDraft
  <2>2. QED
    BY <1>3, <2>1, ClosedType DEF CancelDraft, DraftStatuses
<1>4. ASSUME NEW a \in Seats, StartTarget(d, a)
      PROVE  DraftTypes'
  <2>1. CASE UNCHANGED draft
    BY <2>1 DEF DraftTypes
  <2>2. CASE /\ draft[d].status = "generating"
             /\ SetTarget(d, a, "running",
                          Candidates(draft[d].session, draft[d].sourceSeq, {}))
    <3>1. draft[d] # NoDraft
      BY <2>2 DEF NoDraft
    <3>2. Candidates(draft[d].session, draft[d].sourceSeq, {}) \in SUBSET Messages
      BY CandidatesType DEF ContextInv
    <3>3. QED
      BY <2>2, <3>1, <3>2, SetTargetType DEF TargetStatuses
  <2>3. QED
    BY <1>4, <2>1, <2>2 DEF StartTarget
<1>5. ASSUME NEW a \in Seats, NEW status \in {"succeeded", "failed"}, FinishTarget(d, a, status)
      PROVE  DraftTypes'
  <2>1. CASE draft[d] # NoDraft
    <3> DEFINE capsule == IF status = "succeeded" THEN draft[d].targets[a].capsule ELSE {}
    <3>1. capsule \in SUBSET Messages
      BY <2>1, DraftRow
    <3>2. SetTarget(d, a, status, capsule)
      BY <1>5 DEF FinishTarget
    <3>3. QED
      BY <2>1, <3>1, <3>2, SetTargetType DEF TargetStatuses
  <2>2. CASE draft[d] = NoDraft
    <3>1. QED
      BY <1>5, <2>2 DEF FinishTarget, NoDraft
  <2>3. QED
    BY <2>1, <2>2
<1>6. ASSUME NEW s \in SpaceSessions, ConfirmDraft(d, s)
      PROVE  DraftTypes'
  <2>1. draft[d] # NoDraft
    BY <1>6 DEF ConfirmDraft, NoDraft
  <2>2. QED
    BY <1>6, <2>1, ClosedType DEF ConfirmDraft, DraftStatuses
<1>7. QED
  BY <1>1, <1>2, <1>3, <1>4, <1>5, <1>6

-----------------------------------------------------------------------------
(* Every behaviour *)

(* A Space begins with one session, which nobody has used.                 *)
LEMMA InitInv ==
    ASSUME ForgeInit
    PROVE  ContextInv /\ DraftTypes
<1> USE DEF ForgeInit, ContextInit
<1>1. 1 \in SpaceSessions
  BY ContextAssumption DEF SpaceSessions
<1>2. ContextTypes
  <2>1. history \in [Contexts -> [version : Nat, turns : Seq(Posts), since : Nat]]
    BY DEF EmptyHistory, Contexts
  <2>2. agentSession \in [Contexts -> [status : {"none", "active", "archived"}, generation : Nat]]
    BY DEF Fresh, Contexts
  <2>3. QED
    BY <1>1, <2>1, <2>2 DEF ContextTypes, Contexts
<1>3. Numbered
  <2>1. UsedPosts = {} /\ Cardinality(UsedPosts) = 0
    BY FS_EmptySet DEF UsedPosts
  <2>2. Posted = 0
    BY <2>1 DEF Posted, UsedPosts
  <2>3. Started = {1}
    BY <1>1 DEF Started
  <2>4. Cardinality(Started) = 1
    BY <2>3, FS_Singleton
  <2>5. \A a \in Seats : agentSession[<<1, a>>].status # "none"
    <3>1. TAKE a \in Seats
    <3>2. <<1, a>> \in SpaceSessions \X Seats /\ <<1, a>>[1] = 1
      BY <1>1
    <3>3. agentSession[<<1, a>>] = [status |-> "active", generation |-> 1]
      BY <3>2 DEF Fresh
    <3>4. QED
      BY <3>3
  <2>6. UsedPosts = 1 .. 0 /\ {1} = 1 .. 1
    BY <2>1
  <2>7. QED
    <3>1. active = 1 /\ 1 \in {1} /\ 0 \in Nat /\ 1 \in Nat
      OBVIOUS
    <3> HIDE DEF ForgeInit, ContextInit
    <3>2. \A t \in {1}, a \in Seats : agentSession[<<t, a>>].status # "none"
      BY <2>5, Zenon
    <3>3. QED
      BY <2>2, <2>3, <2>4, <2>6, <3>1, <3>2, Zenon DEF Numbered
<1>4. LogSound
  BY DEF LogSound, Said
<1>5. RunsSound
  BY DEF RunsSound, Used
<1>6. TurnsSound
  BY DEF TurnsSound, Turns, Contexts, EmptyHistory
<1>7. JobsSound
  BY DEF JobsSound
<1>8. DraftTypes
  BY DEF DraftTypes
<1>9. QED
  BY <1>2, <1>3, <1>4, <1>5, <1>6, <1>7, <1>8 DEF ContextInv

(* Every step of a Space keeps the invariant.                              *)
LEMMA ContextNextInv ==
    ASSUME ContextInv, ContextNext
    PROVE  ContextInv'
<1>1. ASSUME NEW p \in Posts, RunStep(p)
      PROVE  ContextInv'
  BY <1>1, PostMessageInv, PrepareInv, ClaimInv, ReplyInv, SaveApiResultInv, CompleteRunInv,
     EndRunInv, RotateProviderBindingInv DEF RunStep
<1>2. ASSUME NEW s \in SpaceSessions, StartNewSpaceSession(s) \/ ResumeSpaceSession(s)
      PROVE  ContextInv'
  BY <1>2, StartNewSpaceSessionInv, ResumeSpaceSessionInv
<1>3. CASE RequestCompaction
  BY <1>3, RequestCompactionInv
<1>4. ASSUME NEW a \in Seats,
             StartCompaction(a) \/ CompactionSucceeds(a) \/ CompactionFails(a) \/ ChangeModel(a)
      PROVE  ContextInv'
  BY <1>4, StartCompactionInv, CompactionSucceedsInv, CompactionFailsInv, ChangeModelInv
<1>5. QED
  BY <1>1, <1>2, <1>3, <1>4 DEF ContextNext

(* Only a confirmation changes more than the drafts and the queues.        *)
LEMMA ForgeStepInv ==
    ASSUME ContextInv, DraftTypes, NEW d \in Drafts,
           \/ CreateDraft(d) \/ UpdateDraft(d) \/ CancelDraft(d)
           \/ \E a \in Seats : StartTarget(d, a)
                               \/ \E status \in {"succeeded", "failed"} : FinishTarget(d, a, status)
           \/ \E s \in SpaceSessions : ConfirmDraft(d, s)
    PROVE  ContextInv'
<1>1. CASE \E s \in SpaceSessions : ConfirmDraft(d, s)
  BY <1>1, ConfirmDraftInv
<1>2. CASE CreateDraft(d) \/ UpdateDraft(d) \/ CancelDraft(d)
  BY <1>2, QuietInv DEF CreateDraft, UpdateDraft, CancelDraft
<1>3. ASSUME NEW a \in Seats,
             StartTarget(d, a)
             \/ \E status \in {"succeeded", "failed"} : FinishTarget(d, a, status)
      PROVE  ContextInv'
  BY <1>3, QuietInv DEF StartTarget, FinishTarget
<1>4. QED
  BY <1>1, <1>2, <1>3

(* A restart fails the drafts that were being generated.                   *)
LEMMA RestartType ==
    ASSUME DraftTypes, RestartContexts
    PROVE  DraftTypes'
<1>1. ASSUME NEW d \in Drafts
      PROVE  draft'[d] \in DraftRows \union {NoDraft}
  <2>1. CASE draft[d].status # "generating"
    BY <2>1 DEF RestartContexts, DraftTypes
  <2>2. CASE draft[d].status = "generating"
    <3> DEFINE targets == FailPending(draft[d].targets)
    <3>1. draft[d] # NoDraft
      BY <2>2 DEF NoDraft
    <3>2. draft[d] \in DraftRows /\ draft[d].targets \in TargetRows
      BY <3>1, DraftRow
    <3>3. targets \in TargetRows
      BY <3>2 DEF FailPending, TargetRows, TargetStatuses
    <3>4. draft'[d] = [draft[d] EXCEPT !.status = "failed", !.targets = targets]
      BY <2>2 DEF RestartContexts
    <3> HIDE DEF targets
    <3>5. QED
      BY <3>2, <3>3, <3>4 DEF DraftRows, DraftStatuses
  <2>3. QED
    BY <2>1, <2>2
<1>2. draft' = [d \in Drafts |-> draft'[d]]
  BY DEF RestartContexts
<1>3. QED
  BY <1>1, <1>2 DEF DraftTypes

LEMMA ForgeNextInv ==
    ASSUME ContextInv, DraftTypes, ForgeNext
    PROVE  ContextInv' /\ DraftTypes'
<1>1. CASE ContextNext /\ UNCHANGED <<draft, restarts>>
  BY <1>1, ContextNextInv DEF DraftTypes
<1>2. ASSUME NEW d \in Drafts,
             \/ CreateDraft(d) \/ UpdateDraft(d) \/ CancelDraft(d)
             \/ \E a \in Seats : StartTarget(d, a)
                                 \/ \E status \in {"succeeded", "failed"} : FinishTarget(d, a, status)
             \/ \E s \in SpaceSessions : ConfirmDraft(d, s)
      PROVE  ContextInv' /\ DraftTypes'
  BY <1>2, ForgeStepInv, ForgeStepType
<1>3. CASE RestartContexts
  <2>1. Interrupt
    BY <1>3 DEF RestartContexts
  <2>2. QED
    BY <1>3, <2>1, InterruptInv, RestartType
<1>4. QED
  BY <1>1, <1>2, <1>3 DEF ForgeNext

(* The invariant of the contexts of a Space and of its forges.             *)
THEOREM ContextInvInductive == ForgeSpec => [](ContextInv /\ DraftTypes)
<1>1. ForgeInit => ContextInv /\ DraftTypes
  BY InitInv
<1>2. ContextInv /\ DraftTypes /\ [ForgeNext]_forgeVars => (ContextInv /\ DraftTypes)'
  <2>1. CASE ForgeNext
    BY <2>1, ForgeNextInv
  <2>2. CASE UNCHANGED forgeVars
    BY <2>2, QuietInv DEF forgeVars, DraftTypes
  <2>3. QED
    BY <2>1, <2>2
<1>3. QED
  BY <1>1, <1>2, PTL DEF ForgeSpec

-----------------------------------------------------------------------------
(* What it says *)

(* The answer of a completed API run is in its context or in a checkpoint  *)
(* of it, until the owner changes the model: the rotation that a           *)
(* compaction's result makes (context-compactions.js) and the turns that   *)
(* runs append meanwhile (daemon-run-results.js) lose nothing.             *)
THEOREM AnswersAreRemembered == ForgeSpec => []NothingForgotten
<1>1. ContextInv /\ DraftTypes => NothingForgotten
  <2>1. SUFFICES ASSUME ContextInv, NEW p \in Posts,
                        runs[p].status = "completed", runs[p].seat \notin cliSeats
        PROVE  \/ p \in Range(history[At(p)].turns) \/ p <= history[At(p)].since
               \/ <<p, "reply">> \in covered[At(p)]
    BY DEF NothingForgotten
  <2>2. Used(p)
    BY <2>1 DEF Used
  <2>3. Remembered(p)
    BY <2>1, <2>2 DEF ContextInv, RunsSound, RunSound
  <2>4. At(p) \in Contexts
    BY <2>1, <2>2, RunType DEF ContextInv
  <2>5. Turns(At(p)) \in Seq(Posts)
    BY <2>1, <2>4 DEF ContextInv, ContextTypes, Turns
  <2>6. (\E i \in 1 .. Len(Turns(At(p))) : Turns(At(p))[i] = p) => p \in Range(Turns(At(p)))
    BY <2>5 DEF Range
  <2>7. QED
    BY <2>3, <2>6 DEF Remembered, Turns
<1>2. QED
  BY <1>1, ContextInvInductive, PTL

(* Only saveApiResult commits a turn, and it compares the versions.        *)
LEMMA CommitsWhatItSaw ==
    ASSUME ContextInv, ForgeNext, NEW p \in Posts,
           runs[p] # NoRun, ~runs[p].committed, runs'[p].committed
    PROVE  history[At(p)].turns = runs[p].seen
<1>1. runs[p] \in RunRows /\ Used(p) /\ At(p) \in Contexts
  BY RunType DEF ContextInv, Used
<1>2. runs \in [Posts -> RunRows \union {NoRun}]
  BY DEF ContextInv, ContextTypes
<1>3. CASE SaveApiResult(p)
  <2>1. Extends(p) /\ runs[p].status = "running" /\ Current(p)
    <3>1. CASE FinishRun(p, "failed")
      <4>1. runs'[p] = Ended(p, "failed")
        BY <1>2, <3>1 DEF FinishRun
      <4>2. runs'[p].committed = runs[p].committed
        BY <1>1, <4>1 DEF Ended, RunRows
      <4>3. QED
        BY <4>2
    <3>2. QED
      BY <1>3, <3>1 DEF SaveApiResult
  <2>2. BaseSound(p) /\ runs[p].prepared
    BY <1>1, <2>1 DEF ContextInv, RunsSound, RunSound
  <2>3. QED
    BY <2>1, <2>2 DEF BaseSound, Extends, Current, Turns
<1>4. ASSUME ~SaveApiResult(p)
      PROVE  FALSE
  <2>1. SUFFICES ASSUME NEW q \in Posts, RunStep(q) PROVE FALSE
    <3>1. CASE Interrupt
      <4>1. runs'[p] = runs[p] \/ runs'[p] = Ended(p, "failed")
        BY <3>1 DEF Interrupt
      <4>2. runs'[p].committed = runs[p].committed
        BY <1>1, <4>1 DEF Ended, RunRows
      <4>3. QED
        BY <4>2
    <3>2. CASE UNCHANGED runs
      BY <3>2
    <3>3. \/ \E q \in Posts : RunStep(q)
          \/ Interrupt \/ UNCHANGED runs
      <4>1. CASE ContextNext
        BY <4>1 DEF ContextNext, StartNewSpaceSession, ResumeSpaceSession, RequestCompaction,
                    StartCompaction, CompactionSucceeds, CompactionFails, ChangeModel
      <4>2. CASE RestartContexts
        BY <4>2 DEF RestartContexts
      <4>3. ASSUME NEW d \in Drafts,
                   \/ CreateDraft(d) \/ UpdateDraft(d) \/ CancelDraft(d)
                   \/ \E a \in Seats : StartTarget(d, a)
                          \/ \E status \in {"succeeded", "failed"} : FinishTarget(d, a, status)
                   \/ \E s \in SpaceSessions : ConfirmDraft(d, s)
            PROVE  UNCHANGED runs
        BY <4>3 DEF CreateDraft, UpdateDraft, CancelDraft, StartTarget, FinishTarget, ConfirmDraft
      <4>4. QED
        BY <4>1, <4>2, <4>3 DEF ForgeNext
    <3>4. QED
      BY <2>1, <3>1, <3>2, <3>3
  <2>2. CASE \E a \in Seats : PostMessage(q, a)
    <3>1. p # q
      BY <1>1, <2>1, <2>2 DEF PostMessage, ContextInv, Numbered, UsedPosts, Used
    <3>2. QED
      BY <1>2, <2>2, <3>1 DEF PostMessage
  <2>3. CASE Prepare(q) \/ Claim(q)
    <3>1. CASE p # q
      BY <1>2, <2>3, <3>1 DEF Prepare, Claim, SetRun, FinishRun
    <3>2. CASE p = q
      <4>1. \/ runs'[p] = Ended(p, "failed")
            \/ runs'[p] = [runs[p] EXCEPT !.prepared = TRUE, !.base = history[At(p)].version,
                                          !.seen = history[At(p)].turns]
            \/ runs'[p] = [runs[p] EXCEPT !.prepared = FALSE, !.base = 0, !.seen = << >>]
            \/ runs'[p] = [runs[p] EXCEPT !.status = "running"]
        BY <1>1, <1>2, <2>3, <3>2 DEF Prepare, Claim, SetRun, FinishRun
      <4>2. runs'[p].committed = runs[p].committed
        BY <1>1, <4>1 DEF Ended, RunRows
      <4>3. QED
        BY <4>2
    <3>3. QED
      BY <3>1, <3>2
  <2>4. CASE SaveApiResult(q) \/ CompleteRun(q) \/ EndRun(q)
    <3>1. runs'[p].committed = runs[p].committed
      <4>1. CASE p # q
        BY <1>2, <2>4, <4>1 DEF SaveApiResult, CompleteRun, EndRun, SetRun, FinishRun
      <4>2. CASE p = q
        <5>1. runs'[p] = Ended(p, "completed") \/ runs'[p] = Ended(p, "failed")
          BY <1>2, <1>4, <2>4, <4>2 DEF CompleteRun, EndRun, FinishRun
        <5>2. QED
          BY <1>1, <5>1 DEF Ended, RunRows
      <4>3. QED
        BY <4>1, <4>2
    <3>2. QED
      BY <3>1
  <2>5. CASE Reply(q)
    BY <2>5 DEF Reply
  <2>6. CASE RotateProviderBinding(q)
    <3>1. runs'[p].committed = runs[p].committed
      BY <1>1, <1>2, <2>6 DEF RotateProviderBinding, SetRun, RunRows
    <3>2. QED
      BY <3>1
  <2>7. QED
    BY <2>1, <2>2, <2>3, <2>4, <2>5, <2>6 DEF RunStep
<1>5. QED
  BY <1>3, <1>4

(* compareAndSetApiHistory (daemon-run-results.js): the turn of a run is   *)
(* appended only to the history its prompt was made from.                  *)
THEOREM TurnsExtendWhatTheySaw == ForgeSpec => ExtendsWhatItSaw
<1>1. ContextInv /\ DraftTypes /\ [ForgeNext]_forgeVars
      => [\A p \in Posts :
             /\ runs[p] # NoRun /\ ~runs[p].committed /\ runs'[p].committed
             => history[At(p)].turns = runs[p].seen]_contextVars
  <2>1. CASE UNCHANGED forgeVars
    BY <2>1 DEF forgeVars
  <2>2. CASE ForgeNext
    BY <2>2, CommitsWhatItSaw
  <2>3. QED
    BY <2>1, <2>2
<1>2. QED
  BY <1>1, ContextInvInductive, PTL DEF ForgeSpec, ExtendsWhatItSaw

-----------------------------------------------------------------------------
(* Forges *)

(* A reply that is being written belongs to a run that works.              *)
StreamingRuns == \A p \in Posts : replies[p] = "streaming" => runs[p].status = "running"

(* What a draft reads is settled: the log is longer, and no reply in it is *)
(* being written.  Its capsules were compiled from all of it.              *)
DraftSound(d) ==
    /\ draft[d].sourceSeq <= Len(log)
    /\ \A i \in 1 .. draft[d].sourceSeq :
          SessionOf(log[i]) = draft[d].session /\ log[i][2] = "reply"
          => replies[log[i][1]] # "streaming"
    /\ \A a \in Seats : draft[d].targets[a].status \in {"running", "succeeded"} =>
          draft[d].targets[a].capsule = Candidates(draft[d].session, draft[d].sourceSeq, {})
    /\ draft[d].status = "ready" => \A a \in Seats : draft[d].targets[a].status = "succeeded"

DraftsSound == \A d \in Drafts : draft[d] # NoDraft => DraftSound(d)

(* The log grows, and what was said and settled stays.                     *)
Settles ==
    /\ Len(log) <= Len(log') /\ \A i \in 1 .. Len(log) : log'[i] = log[i]
    /\ \A p \in Posts : Used(p) => runs'[p].session = runs[p].session
    /\ \A p \in Posts : replies[p] \notin {"none", "streaming"} => replies'[p] = replies[p]

(* What a draft reads stays the same while the Space goes on.              *)
LEMMA StableCandidates ==
    ASSUME ContextTypes, LogSound, ContextTypes', LogSound', Settles,
           NEW s, NEW n \in Nat, n <= Len(log),
           \A i \in 1 .. n : SessionOf(log[i]) = s /\ log[i][2] = "reply"
                             => replies[log[i][1]] # "streaming"
    PROVE  Candidates(s, n, {})' = Candidates(s, n, {})
<1>1. \A m : \A i \in 1 .. Len(log) : log[i] = m => Place(m) = i
  BY DEF Place, LogSound
<1>2. \A m : \A i \in 1 .. Len(log') : log'[i] = m => Place(m)' = i
  BY DEF Place, LogSound
<1>3. /\ Len(log) \in Nat /\ Len(log') \in Nat
      /\ Said = {log[i] : i \in 1 .. Len(log)} /\ Said' = {log'[i] : i \in 1 .. Len(log')}
  BY DEF ContextTypes, Said, Range
<1>4. SUFFICES ASSUME NEW m
      PROVE  m \in Candidates(s, n, {})' <=> m \in Candidates(s, n, {})
  OBVIOUS
<1>5. m \in Candidates(s, n, {})
      <=> \E i \in 1 .. n : log[i] = m /\ SessionOf(m) = s /\ Completed(m)
  BY <1>1, <1>3 DEF Candidates, In, Said
<1>6. m \in Candidates(s, n, {})'
      <=> \E i \in 1 .. n : log'[i] = m /\ SessionOf(m)' = s /\ Completed(m)'
  <2>1. n <= Len(log')
    BY <1>3 DEF Settles
  <2>2. QED
    BY <1>2, <1>3, <2>1 DEF Candidates, In, Said
<1>7. ASSUME NEW i \in 1 .. n, log[i] = m
      PROVE  /\ SessionOf(m)' = SessionOf(m)
             /\ SessionOf(m) = s => (Completed(m)' <=> Completed(m))
  <2>1. i \in 1 .. Len(log) /\ m \in Messages
    BY <1>3, <1>7 DEF ContextTypes
  <2>2. /\ m[1] \in Posts /\ Used(m[1])
        /\ m[2] = "reply" => replies[m[1]] # "none"
    BY <1>7, <2>1 DEF Messages, LogSound
  <2>3. SessionOf(m)' = SessionOf(m)
    BY <2>2 DEF Settles, SessionOf
  <2>4. ASSUME SessionOf(m) = s, m[2] # "user"
        PROVE  replies'[m[1]] = replies[m[1]]
    <3>1. m[2] = "reply"
      BY <2>1, <2>4 DEF Messages
    <3>2. replies[m[1]] # "streaming" /\ replies[m[1]] # "none"
      BY <1>7, <2>2, <2>4, <3>1
    <3>3. QED
      BY <2>2, <3>2 DEF Settles
  <2>5. QED
    BY <2>3, <2>4 DEF Completed
<1>8. \A i \in 1 .. n : log'[i] = log[i]
  BY <1>3 DEF Settles
<1>9. QED
  BY <1>5, <1>6, <1>7, <1>8

(* A draft that still reads the same, with capsules of all of it.          *)
LEMMA DraftMoves ==
    ASSUME ContextInv, ContextInv', Settles, NEW d \in Drafts,
           draft[d].sourceSeq \in Nat, draft[d].session \in SpaceSessions, DraftSound(d),
           draft'[d].sourceSeq = draft[d].sourceSeq, draft'[d].session = draft[d].session,
           \A a \in Seats : draft'[d].targets[a].status \in {"running", "succeeded"} =>
               draft'[d].targets[a].capsule =
                   Candidates(draft[d].session, draft[d].sourceSeq, {}),
           draft'[d].status = "ready" => \A a \in Seats : draft'[d].targets[a].status = "succeeded"
    PROVE  DraftSound(d)'
<1> DEFINE s == draft[d].session
           n == draft[d].sourceSeq
<1>1. /\ n \in Nat /\ n <= Len(log) /\ Len(log) \in Nat /\ Len(log') \in Nat
      /\ \A i \in 1 .. n : SessionOf(log[i]) = s /\ log[i][2] = "reply"
                           => replies[log[i][1]] # "streaming"
  BY DEF DraftSound, ContextInv, ContextTypes
<1>2. PICK t \in SpaceSessions, k \in Nat : t = s /\ k = n
  BY <1>1
<1>3. Candidates(t, k, {})' = Candidates(t, k, {})
  BY <1>1, <1>2, StableCandidates DEF ContextInv
<1>4. n <= Len(log')
  BY <1>1 DEF Settles
<1>5. ASSUME NEW i \in 1 .. n, runs'[log'[i][1]].session = s, log'[i][2] = "reply"
      PROVE  replies'[log'[i][1]] # "streaming"
  <2>1. i \in 1 .. Len(log) /\ log'[i] = log[i]
    BY <1>1, <1>5 DEF Settles
  <2>2. log[i][1] \in Posts /\ Used(log[i][1]) /\ replies[log[i][1]] # "none"
    <3>1. log[i] \in Messages /\ LogSound
      BY <2>1 DEF ContextInv, ContextTypes
    <3>2. QED
      BY <1>5, <2>1, <3>1 DEF Messages, LogSound
  <2>3. runs'[log[i][1]].session = runs[log[i][1]].session
    BY <2>2 DEF Settles
  <2>4. replies[log[i][1]] # "streaming"
    BY <1>1, <1>5, <2>1, <2>3 DEF SessionOf
  <2>5. QED
    BY <2>1, <2>2, <2>4 DEF Settles
<1>6. \A a \in Seats : draft'[d].targets[a].status \in {"running", "succeeded"} =>
          draft'[d].targets[a].capsule = Candidates(t, k, {})'
  BY <1>2, <1>3
<1>7. draft'[d].session = t /\ draft'[d].sourceSeq = k
  BY <1>2
<1>8. \A i \in 1 .. k : runs'[log'[i][1]].session = t /\ log'[i][2] = "reply"
                        => replies'[log'[i][1]] # "streaming"
  BY <1>2, <1>5
<1>9. k <= Len(log')
  BY <1>2, <1>4
<1> HIDE DEF s, n
<1>10. QED
  BY <1>6, <1>7, <1>8, <1>9 DEF DraftSound, SessionOf

(* Every step lets the log grow, and a run that stops working leaves no    *)
(* reply that is being written.                                            *)
LEMMA RunStepSettles ==
    ASSUME ContextInv, StreamingRuns, NEW p \in Posts, RunStep(p)
    PROVE  Settles /\ StreamingRuns'
<1>1. /\ runs \in [Posts -> RunRows \union {NoRun}] /\ log \in Seq(Messages)
      /\ replies \in [Posts -> {"none", "streaming", "completed", "failed"}]
      /\ Len(log) \in Nat
      /\ \A q \in Posts : replies[q] # "none" => Used(q)
  <2>1. ContextTypes /\ LogSound
    BY DEF ContextInv
  <2>2. \A q \in Posts : replies[q] # "none" => Used(q)
    BY <2>1 DEF LogSound
  <2>3. QED
    BY <2>1, <2>2 DEF ContextTypes
<1>2. \A m \in Messages : /\ Len(Append(log, m)) = Len(log) + 1
                          /\ \A i \in 1 .. Len(log) : Append(log, m)[i] = log[i]
  BY <1>1
<1>3. ASSUME NEW a \in Seats, PostMessage(p, a)
      PROVE  Settles /\ StreamingRuns'
  <2>1. /\ <<p, "user">> \in Messages /\ log' = Append(log, <<p, "user">>)
        /\ replies' = replies /\ \A q \in Posts \ {p} : runs'[q] = runs[q]
    BY <1>1, <1>3 DEF PostMessage, Messages
  <2>2. ~Used(p)
    BY <1>3 DEF PostMessage, ContextInv, Numbered, UsedPosts, Used
  <2>3. replies[p] = "none"
    BY <1>1, <2>2
  <2>4. Settles
    BY <1>1, <1>2, <2>1, <2>2 DEF Settles
  <2>5. StreamingRuns'
    BY <2>1, <2>3 DEF StreamingRuns
  <2>6. QED
    BY <2>4, <2>5
<1>4. CASE Reply(p)
  <2>1. runs' = runs /\ runs[p].status = "running"
    BY <1>4 DEF Reply
  <2>2. CASE replies[p] = "none" /\ log' = Append(log, <<p, "reply">>)
             /\ replies' = [replies EXCEPT ![p] = "streaming"]
    <3>1. <<p, "reply">> \in Messages
      BY DEF Messages
    <3>2. QED
      BY <1>1, <1>2, <2>1, <2>2, <3>1 DEF Settles, StreamingRuns
  <2>3. CASE replies[p] = "streaming" /\ replies' = [replies EXCEPT ![p] = "completed"]
             /\ log' = log
    BY <1>1, <2>1, <2>3 DEF Settles, StreamingRuns
  <2>4. QED
    BY <1>4, <2>2, <2>3 DEF Reply
<1>5. ASSUME log' = log,
             \A q \in Posts \ {p} : runs'[q] = runs[q] /\ replies'[q] = replies[q],
             Used(p) => runs'[p].session = runs[p].session,
             replies[p] \notin {"none", "streaming"} => replies'[p] = replies[p],
             replies'[p] = "streaming" => runs'[p].status = "running"
      PROVE  Settles /\ StreamingRuns'
  BY <1>1, <1>5 DEF Settles, StreamingRuns
<1>6. \A status \in {"completed", "failed"} :
          Used(p) => Ended(p, status).session = runs[p].session
  BY <1>1 DEF Ended, RunRows, Used
<1>7. CASE Prepare(p) \/ Claim(p)
  <2>1. /\ log' = log /\ replies' = replies /\ runs[p].status = "pending"
        /\ \A q \in Posts \ {p} : runs'[q] = runs[q]
    BY <1>1, <1>7 DEF Prepare, Claim, SetRun, FinishRun
  <2>2. \/ runs'[p] = Ended(p, "failed")
        \/ runs'[p] = [runs[p] EXCEPT !.prepared = TRUE, !.base = history[At(p)].version,
                                      !.seen = history[At(p)].turns]
        \/ runs'[p] = [runs[p] EXCEPT !.prepared = FALSE, !.base = 0, !.seen = << >>]
        \/ runs'[p] = [runs[p] EXCEPT !.status = "running"]
    BY <1>1, <1>7 DEF Prepare, Claim, SetRun, FinishRun
  <2>3. Used(p) => runs'[p].session = runs[p].session
    BY <1>1, <1>6, <2>2 DEF RunRows, Used
  <2>4. replies[p] # "streaming"
    BY <2>1 DEF StreamingRuns
  <2>5. QED
    BY <1>5, <2>1, <2>3, <2>4
<1>8. CASE SaveApiResult(p) \/ CompleteRun(p)
  <2>1. /\ log' = log /\ replies' = replies /\ replies[p] = "completed"
        /\ \A q \in Posts \ {p} : runs'[q] = runs[q]
    BY <1>1, <1>8 DEF SaveApiResult, CompleteRun, SetRun, FinishRun
  <2>2. \/ runs'[p] = Ended(p, "failed") \/ runs'[p] = Ended(p, "completed")
        \/ runs'[p] = [runs[p] EXCEPT !.committed = TRUE]
    BY <1>1, <1>8 DEF SaveApiResult, CompleteRun, SetRun, FinishRun
  <2>3. Used(p) => runs'[p].session = runs[p].session
    BY <1>1, <1>6, <2>2 DEF RunRows, Used
  <2>4. QED
    BY <1>5, <2>1, <2>3
<1>9. CASE EndRun(p)
  <2>1. /\ log' = log /\ replies'[p] = Interrupted(replies[p]) /\ runs'[p] = Ended(p, "failed")
        /\ \A q \in Posts \ {p} : runs'[q] = runs[q] /\ replies'[q] = replies[q]
    BY <1>1, <1>9 DEF EndRun, FinishRun
  <2>2. QED
    BY <1>5, <1>6, <2>1 DEF Interrupted
<1>10. CASE RotateProviderBinding(p)
  <2>1. /\ log' = log /\ replies' = replies /\ runs[p].status = "running"
        /\ \A q \in Posts \ {p} : runs'[q] = runs[q]
        /\ runs'[p] = [runs[p] EXCEPT !.generation = runs[p].generation + 1]
    BY <1>1, <1>10 DEF RotateProviderBinding, SetRun
  <2>2. runs'[p].session = runs[p].session /\ runs'[p].status = runs[p].status
    <3>1. runs[p] \in RunRows
      BY <1>1, <2>1
    <3>2. QED
      BY <2>1, <3>1 DEF RunRows
  <2>3. QED
    BY <1>5, <2>1, <2>2
<1>11. QED
  BY <1>3, <1>4, <1>7, <1>8, <1>9, <1>10 DEF RunStep

LEMMA StepSettles ==
    ASSUME ContextInv, StreamingRuns, [ForgeNext]_forgeVars
    PROVE  Settles /\ StreamingRuns'
<1>1. Len(log) \in Nat
  BY DEF ContextInv, ContextTypes
<1>2. CASE UNCHANGED <<log, replies, runs>>
  BY <1>1, <1>2 DEF Settles, StreamingRuns
<1>3. CASE Interrupt
  <2>1. log' = log /\ \A q \in Posts : replies'[q] = Interrupted(replies[q])
                                        /\ runs'[q] \in {runs[q], Ended(q, "failed")}
    BY <1>3 DEF Interrupt
  <2>2. \A q \in Posts : replies'[q] # "streaming"
    BY <2>1 DEF Interrupted
  <2>3. \A q \in Posts : replies[q] \notin {"none", "streaming"} => replies'[q] = replies[q]
    BY <2>1 DEF Interrupted
  <2>4. ASSUME NEW q \in Posts, Used(q)
        PROVE  runs'[q].session = runs[q].session
    <3>1. runs[q] \in RunRows
      BY <2>4, RunType DEF ContextInv
    <3>2. Ended(q, "failed").session = runs[q].session
      BY <3>1 DEF Ended, RunRows
    <3>3. QED
      BY <2>1, <3>2
  <2>5. QED
    BY <1>1, <2>1, <2>2, <2>3, <2>4 DEF Settles, StreamingRuns
<1>4. CASE \E p \in Posts : RunStep(p)
  BY <1>4, RunStepSettles
<1>5. \/ UNCHANGED <<log, replies, runs>> \/ Interrupt \/ \E p \in Posts : RunStep(p)
  <2>1. CASE ContextNext
    BY <2>1 DEF ContextNext, StartNewSpaceSession, ResumeSpaceSession, RequestCompaction,
                StartCompaction, CompactionSucceeds, CompactionFails, ChangeModel
  <2>2. CASE RestartContexts
    BY <2>2, Zenon DEF RestartContexts
  <2>3. ASSUME NEW d \in Drafts,
               \/ CreateDraft(d) \/ UpdateDraft(d) \/ CancelDraft(d)
               \/ \E a \in Seats : StartTarget(d, a)
                      \/ \E status \in {"succeeded", "failed"} : FinishTarget(d, a, status)
               \/ \E s \in SpaceSessions : ConfirmDraft(d, s)
        PROVE  UNCHANGED <<log, replies, runs>>
    BY <2>3 DEF CreateDraft, UpdateDraft, CancelDraft, StartTarget, FinishTarget, ConfirmDraft
  <2>4. CASE UNCHANGED forgeVars
    BY <2>4 DEF forgeVars
  <2>5. QED
    BY <2>1, <2>2, <2>3, <2>4 DEF ForgeNext
<1>6. QED
  BY <1>2, <1>3, <1>4, <1>5

(* HighWater is the largest _seq of a completed message of the session.    *)
LEMMA HighWaterBounds ==
    ASSUME ContextTypes, LogSound, NEW s \in SpaceSessions
    PROVE  /\ HighWater(s) \in Nat /\ HighWater(s) <= Len(log)
           /\ \A m \in In(s) : Completed(m) => Place(m) \in 1 .. HighWater(s)
<1> DEFINE S == {Place(m) : m \in {x \in In(s) : Completed(x)}}
<1>1. \A i \in 1 .. Len(log) : Place(log[i]) = i
  BY DEF Place, LogSound
<1>2. Len(log) \in Nat /\ Said = {log[i] : i \in 1 .. Len(log)}
  BY DEF ContextTypes, Said, Range
<1>3. S \in SUBSET (1 .. Len(log))
  BY <1>1, <1>2 DEF In, Said
<1>4. \A m \in In(s) : Completed(m) => Place(m) \in S
  OBVIOUS
<1>5. CASE S = {}
  BY <1>2, <1>4, <1>5 DEF HighWater
<1>6. CASE S # {}
  <2>1. Max(S) \in S /\ \A x \in S : x <= Max(S)
    BY <1>2, <1>3, <1>6, LargestNatural
  <2>2. HighWater(s) = Max(S)
    BY <1>6 DEF HighWater
  <2> HIDE DEF S
  <2>3. QED
    BY <1>2, <1>3, <1>4, <2>1, <2>2
<1>7. QED
  BY <1>5, <1>6

(* A draft is ready when all of its targets succeeded.                     *)
LEMMA ReadyTargets ==
    ASSUME NEW targets, DraftStatus(targets) = "ready"
    PROVE  \A a \in Seats : targets[a].status = "succeeded"
<1>1. CASE \E a \in Seats : Pending(targets[a])
  <2>1. ~\A a \in Seats : targets[a].status = "succeeded"
    BY <1>1 DEF Pending
  <2>2. CASE \A a \in Seats : targets[a].status = "cancelled"
    BY <1>1, <2>2 DEF Pending
  <2>3. QED
    BY <1>1, <2>1, <2>2 DEF DraftStatus
<1>2. QED
  BY <1>1 DEF DraftStatus


(* A draft that nobody touches.                                            *)
LEMMA DraftStays ==
    ASSUME ContextInv, ContextInv', DraftTypes, Settles, NEW d \in Drafts,
           draft[d] # NoDraft, DraftSound(d), draft'[d] = draft[d]
    PROVE  DraftSound(d)'
<1>1. draft[d] \in DraftRows
  BY DraftRow
<1>2. draft[d].sourceSeq \in Nat /\ draft[d].session \in SpaceSessions
  BY <1>1 DEF DraftRows
<1>3. /\ \A a \in Seats : draft[d].targets[a].status \in {"running", "succeeded"} =>
             draft[d].targets[a].capsule = Candidates(draft[d].session, draft[d].sourceSeq, {})
      /\ draft[d].status = "ready" => \A a \in Seats : draft[d].targets[a].status = "succeeded"
  BY DEF DraftSound
<1>4. QED
  BY <1>2, <1>3, DraftMoves

(* A target is set, to what was read if it is running or has succeeded.    *)
LEMMA SetTargetSound ==
    ASSUME ContextInv, ContextInv', DraftTypes, Settles, NEW d \in Drafts,
           draft[d] # NoDraft, DraftSound(d),
           NEW a \in Seats, NEW status, NEW capsule, SetTarget(d, a, status, capsule),
           status \in {"running", "succeeded"} =>
               capsule = Candidates(draft[d].session, draft[d].sourceSeq, {})
    PROVE  DraftSound(d)'
<1> DEFINE targets == [draft[d].targets EXCEPT ![a] = [status |-> status, capsule |-> capsule]]
<1>1. draft[d] \in DraftRows /\ draft[d].targets \in TargetRows
  BY DraftRow
<1>2. draft[d].sourceSeq \in Nat /\ draft[d].session \in SpaceSessions
  BY <1>1 DEF DraftRows
<1>3. \A b \in Seats : targets[b] = IF b = a THEN [status |-> status, capsule |-> capsule]
                                    ELSE draft[d].targets[b]
  BY <1>1 DEF TargetRows
<1>4. \A b \in Seats : targets[b].status \in {"running", "succeeded"} =>
          targets[b].capsule = Candidates(draft[d].session, draft[d].sourceSeq, {})
  <2>1. TAKE b \in Seats
  <2>2. CASE b = a
    BY <1>3, <2>2
  <2>3. CASE b # a
    BY <1>3, <2>3 DEF DraftSound
  <2>4. QED
    BY <2>2, <2>3
<1>5. DraftStatus(targets) = "ready" => \A b \in Seats : targets[b].status = "succeeded"
  BY ReadyTargets
<1>6. draft' = [draft EXCEPT ![d].targets = targets, ![d].status = DraftStatus(targets)]
  BY DEF SetTarget
<1> HIDE DEF targets
<1>7. draft'[d] = [draft[d] EXCEPT !.targets = targets, !.status = DraftStatus(targets)]
  BY <1>6 DEF DraftTypes
<1>8. /\ draft'[d].sourceSeq = draft[d].sourceSeq /\ draft'[d].session = draft[d].session
      /\ draft'[d].targets = targets /\ draft'[d].status = DraftStatus(targets)
  BY <1>1, <1>7 DEF DraftRows
<1>9. \A b \in Seats : draft'[d].targets[b].status \in {"running", "succeeded"} =>
          draft'[d].targets[b].capsule = Candidates(draft[d].session, draft[d].sourceSeq, {})
  BY <1>4, <1>8
<1>10. draft'[d].status = "ready" => \A b \in Seats : draft'[d].targets[b].status = "succeeded"
  BY <1>5, <1>8
<1>11. QED
  BY <1>2, <1>8, <1>9, <1>10, DraftMoves

(* Nothing is left of a draft that is closed.                              *)
LEMMA ClosedSound ==
    ASSUME ContextInv, ContextInv', DraftTypes, Settles, NEW d \in Drafts,
           draft[d] # NoDraft, DraftSound(d), NEW status, status # "ready", Closed(d, status)
    PROVE  DraftSound(d)'
<1>1. draft[d] \in DraftRows
  BY DraftRow
<1>2. draft[d].sourceSeq \in Nat /\ draft[d].session \in SpaceSessions
  BY <1>1 DEF DraftRows
<1>3. draft'[d] = [draft[d] EXCEPT !.status = status, !.targets = NoTargets]
  BY DEF Closed, DraftTypes
<1>4. /\ draft'[d].sourceSeq = draft[d].sourceSeq /\ draft'[d].session = draft[d].session
      /\ draft'[d].targets = NoTargets /\ draft'[d].status = status
  BY <1>1, <1>3 DEF DraftRows
<1>5. \A a \in Seats : draft'[d].targets[a].status = "cancelled"
  BY <1>4 DEF NoTargets
<1>6. QED
  BY <1>2, <1>4, <1>5, DraftMoves

(* A draft is made while no run of its session works.                      *)
LEMMA CreateDraftSound ==
    ASSUME ContextInv, ContextInv', DraftTypes, Settles, StreamingRuns,
           NEW d \in Drafts, CreateDraft(d)
    PROVE  DraftSound(d)'
<1>1. active \in SpaceSessions /\ ContextTypes /\ LogSound /\ ContextTypes' /\ LogSound'
  BY DEF ContextInv, ContextTypes
<1>2. /\ HighWater(active) \in Nat /\ HighWater(active) <= Len(log) /\ Len(log) \in Nat
      /\ \A m \in In(active) : Completed(m) => Place(m) \in 1 .. HighWater(active)
  BY <1>1, HighWaterBounds DEF ContextTypes
<1>3. PICK t \in SpaceSessions, k \in Nat : t = active /\ k = HighWater(active)
  BY <1>1, <1>2
<1>4. UNCHANGED <<log, replies, runs>> /\ ~Busy({active})
  BY DEF CreateDraft, logVars
<1>5. \A i \in 1 .. k : SessionOf(log[i]) = t /\ log[i][2] = "reply"
                        => replies[log[i][1]] # "streaming"
  <2>1. SUFFICES ASSUME NEW i \in 1 .. k, SessionOf(log[i]) = t,
                        replies[log[i][1]] = "streaming"
        PROVE  FALSE
    OBVIOUS
  <2>2. log[i] \in Messages
    BY <1>1, <1>2, <1>3 DEF ContextTypes
  <2>3. log[i][1] \in Posts
    BY <2>2 DEF Messages
  <2>4. IsActive(log[i][1])
    BY <2>1, <2>3 DEF StreamingRuns, IsActive
  <2>5. runs[log[i][1]].session \in {active}
    BY <1>3, <2>1 DEF SessionOf
  <2>6. QED
    BY <1>4, <2>3, <2>4, <2>5 DEF Busy
<1>6. Candidates(t, k, {})' = Candidates(t, k, {})
  BY <1>1, <1>2, <1>3, <1>5, StableCandidates
<1>7. k = 0 => Candidates(t, k, {}) = {}
  BY <1>2, <1>3 DEF Candidates
<1> DEFINE targets == [a \in Seats |-> [status |-> IF k = 0 THEN "succeeded" ELSE "queued",
                                        capsule |-> {}]]
           row == [status |-> DraftStatus(targets), session |-> t, sourceSeq |-> k,
                   version |-> 1, edited |-> FALSE, targets |-> targets]
<1>8. draft' = [draft EXCEPT ![d] = row]
  BY <1>3 DEF CreateDraft
<1>9. draft'[d] = row
  BY <1>8 DEF DraftTypes
<1>10. \A a \in Seats : targets[a].status \in {"running", "succeeded"} =>
           targets[a].capsule = Candidates(t, k, {})
  BY <1>7
<1>11. DraftStatus(targets) = "ready" => \A a \in Seats : targets[a].status = "succeeded"
  BY ReadyTargets
<1> HIDE DEF targets
<1>12. /\ draft'[d].session = t /\ draft'[d].sourceSeq = k /\ draft'[d].targets = targets
       /\ draft'[d].status = DraftStatus(targets)
  BY <1>9
<1>13. \A a \in Seats : draft'[d].targets[a].status \in {"running", "succeeded"} =>
           draft'[d].targets[a].capsule = Candidates(t, k, {})'
  BY <1>6, <1>10, <1>12
<1>14. draft'[d].status = "ready" => \A a \in Seats : draft'[d].targets[a].status = "succeeded"
  BY <1>11, <1>12
<1>15. \A i \in 1 .. k : runs'[log'[i][1]].session = t /\ log'[i][2] = "reply"
                         => replies'[log'[i][1]] # "streaming"
  BY <1>4, <1>5 DEF SessionOf
<1>16. k <= Len(log')
  BY <1>2, <1>3, <1>4
<1> HIDE DEF row
<1>17. QED
  BY <1>12, <1>13, <1>14, <1>15, <1>16 DEF DraftSound, SessionOf


(* Every step of a draft keeps it sound.                                   *)
LEMMA ForgeStepSound ==
    ASSUME ContextInv, ContextInv', DraftTypes, Settles, StreamingRuns, DraftsSound,
           NEW d \in Drafts, draft'[d] # NoDraft,
           \/ CreateDraft(d) \/ UpdateDraft(d) \/ CancelDraft(d)
           \/ \E a \in Seats : StartTarget(d, a)
                               \/ \E status \in {"succeeded", "failed"} : FinishTarget(d, a, status)
           \/ \E s \in SpaceSessions : ConfirmDraft(d, s)
    PROVE  DraftSound(d)'
<1>1. CASE CreateDraft(d)
  BY <1>1, CreateDraftSound
<1>2. CASE UpdateDraft(d)
  <2>1. draft[d] # NoDraft
    BY <1>2 DEF UpdateDraft, NoDraft
  <2>2. draft[d] \in DraftRows /\ DraftSound(d)
    BY <2>1, DraftRow DEF DraftsSound
  <2>3. draft[d].sourceSeq \in Nat /\ draft[d].session \in SpaceSessions
    BY <2>2 DEF DraftRows
  <2>4. draft'[d] = [draft[d] EXCEPT !.version = draft[d].version + 1, !.edited = TRUE]
    BY <1>2 DEF UpdateDraft, DraftTypes
  <2>5. /\ draft'[d].sourceSeq = draft[d].sourceSeq /\ draft'[d].session = draft[d].session
        /\ draft'[d].targets = draft[d].targets /\ draft'[d].status = draft[d].status
    BY <2>2, <2>4 DEF DraftRows
  <2>6. \A a \in Seats : draft'[d].targets[a].status \in {"running", "succeeded"} =>
            draft'[d].targets[a].capsule = Candidates(draft[d].session, draft[d].sourceSeq, {})
    BY <2>2, <2>5 DEF DraftSound
  <2>7. draft'[d].status = "ready" => \A a \in Seats : draft'[d].targets[a].status = "succeeded"
    BY <2>2, <2>5 DEF DraftSound
  <2>8. QED
    BY <2>2, <2>3, <2>5, <2>6, <2>7, DraftMoves
<1>3. CASE CancelDraft(d)
  <2>1. draft[d] # NoDraft
    BY <1>3 DEF CancelDraft, NoDraft
  <2>2. DraftSound(d) /\ Closed(d, "cancelled")
    BY <1>3, <2>1 DEF DraftsSound, CancelDraft
  <2>3. QED
    BY <2>1, <2>2, ClosedSound
<1>4. ASSUME NEW a \in Seats, StartTarget(d, a)
      PROVE  DraftSound(d)'
  <2>1. CASE UNCHANGED draft
    BY <2>1, DraftStays DEF DraftsSound
  <2>2. CASE /\ draft[d].status = "generating"
             /\ SetTarget(d, a, "running",
                          Candidates(draft[d].session, draft[d].sourceSeq, {}))
    <3>1. draft[d] # NoDraft
      BY <2>2 DEF NoDraft
    <3>2. DraftSound(d)
      BY <3>1 DEF DraftsSound
    <3>3. QED
      BY <2>2, <3>1, <3>2, SetTargetSound
  <2>3. QED
    BY <1>4, <2>1, <2>2 DEF StartTarget
<1>5. ASSUME NEW a \in Seats, NEW status \in {"succeeded", "failed"}, FinishTarget(d, a, status)
      PROVE  DraftSound(d)'
  <2> DEFINE capsule == IF status = "succeeded" THEN draft[d].targets[a].capsule ELSE {}
  <2>1. draft[d] # NoDraft /\ draft[d].targets[a].status = "running"
    BY <1>5 DEF FinishTarget
  <2>2. DraftSound(d)
    BY <2>1 DEF DraftsSound
  <2>3. status \in {"running", "succeeded"} =>
            capsule = Candidates(draft[d].session, draft[d].sourceSeq, {})
    BY <2>1, <2>2 DEF DraftSound
  <2>4. SetTarget(d, a, status, capsule)
    BY <1>5 DEF FinishTarget
  <2> HIDE DEF capsule
  <2>5. QED
    BY <2>1, <2>2, <2>3, <2>4, SetTargetSound
<1>6. ASSUME NEW s \in SpaceSessions, ConfirmDraft(d, s)
      PROVE  DraftSound(d)'
  <2>1. draft[d] # NoDraft
    BY <1>6 DEF ConfirmDraft, NoDraft
  <2>2. DraftSound(d) /\ (Closed(d, "stale") \/ Closed(d, "confirmed"))
    BY <1>6, <2>1 DEF DraftsSound, ConfirmDraft
  <2>3. QED
    BY <2>1, <2>2, ClosedSound
<1>7. QED
  BY <1>1, <1>2, <1>3, <1>4, <1>5, <1>6

(* A restart leaves the capsules that were compiled.                       *)
LEMMA RestartSound ==
    ASSUME ContextInv, ContextInv', DraftTypes, Settles, DraftsSound, RestartContexts,
           NEW d \in Drafts, draft'[d] # NoDraft
    PROVE  DraftSound(d)'
<1>1. CASE draft[d].status # "generating"
  <2>1. draft'[d] = draft[d]
    BY <1>1 DEF RestartContexts
  <2>2. QED
    BY <2>1, DraftStays DEF DraftsSound
<1>2. CASE draft[d].status = "generating"
  <2>1. draft[d] # NoDraft
    BY <1>2 DEF NoDraft
  <2>2. draft[d] \in DraftRows /\ draft[d].targets \in TargetRows /\ DraftSound(d)
    BY <2>1, DraftRow DEF DraftsSound
  <2>3. draft[d].sourceSeq \in Nat /\ draft[d].session \in SpaceSessions
    BY <2>2 DEF DraftRows
  <2>4. draft'[d] = [draft[d] EXCEPT !.status = "failed",
                                     !.targets = FailPending(draft[d].targets)]
    BY <1>2 DEF RestartContexts
  <2>5. /\ draft'[d].sourceSeq = draft[d].sourceSeq /\ draft'[d].session = draft[d].session
        /\ draft'[d].targets = FailPending(draft[d].targets) /\ draft'[d].status = "failed"
    BY <2>2, <2>4 DEF DraftRows
  <2>6. \A a \in Seats : draft'[d].targets[a].status \in {"running", "succeeded"} =>
            draft'[d].targets[a] = draft[d].targets[a]
    BY <2>5 DEF FailPending
  <2>7. \A a \in Seats : draft'[d].targets[a].status \in {"running", "succeeded"} =>
            draft'[d].targets[a].capsule = Candidates(draft[d].session, draft[d].sourceSeq, {})
    BY <2>2, <2>6 DEF DraftSound
  <2>8. QED
    BY <2>2, <2>3, <2>5, <2>7, DraftMoves
<1>3. QED
  BY <1>1, <1>2

LEMMA DraftsInv ==
    ASSUME ContextInv, ContextInv', DraftTypes, DraftTypes', StreamingRuns, DraftsSound,
           [ForgeNext]_forgeVars
    PROVE  StreamingRuns' /\ DraftsSound'
<1>1. Settles /\ StreamingRuns'
  BY StepSettles
<1>2. SUFFICES ASSUME NEW d \in Drafts, draft'[d] # NoDraft
      PROVE  DraftSound(d)'
  BY <1>1 DEF DraftsSound
<1>3. CASE draft'[d] = draft[d]
  BY <1>1, <1>2, <1>3, DraftStays DEF DraftsSound
<1>4. CASE RestartContexts
  BY <1>1, <1>2, <1>4, RestartSound
<1>5. ASSUME NEW e \in Drafts,
             \/ CreateDraft(e) \/ UpdateDraft(e) \/ CancelDraft(e)
             \/ \E a \in Seats : StartTarget(e, a)
                                 \/ \E status \in {"succeeded", "failed"} : FinishTarget(e, a, status)
             \/ \E s \in SpaceSessions : ConfirmDraft(e, s)
      PROVE  DraftSound(d)'
  <2>1. CASE e = d
    BY <1>1, <1>2, <1>5, <2>1, ForgeStepSound
  <2>2. CASE e # d
    <3>1. draft'[d] = draft[d]
      BY <1>5, <2>2 DEF CreateDraft, UpdateDraft, CancelDraft, StartTarget, FinishTarget,
                        ConfirmDraft, SetTarget, Closed, DraftTypes
    <3>2. QED
      BY <1>3, <3>1
  <2>3. QED
    BY <2>1, <2>2
<1>6. QED
  BY <1>3, <1>4, <1>5 DEF ForgeNext, forgeVars

(* The capsules of a draft that is not edited are compiled from all that   *)
(* was said up to its source _seq, however runs, compactions and restarts  *)
(* go on meanwhile (context-forges.js).                                    *)
THEOREM DraftsSoundInductive == ForgeSpec => [](StreamingRuns /\ DraftsSound)
<1>1. ForgeInit => StreamingRuns /\ DraftsSound
  BY DEF ForgeInit, ContextInit, StreamingRuns, DraftsSound
<1>2. /\ ContextInv /\ DraftTypes /\ (ContextInv /\ DraftTypes)'
      /\ StreamingRuns /\ DraftsSound /\ [ForgeNext]_forgeVars
      => (StreamingRuns /\ DraftsSound)'
  BY DraftsInv
<1>3. QED
  BY <1>1, <1>2, ContextInvInductive, PTL DEF ForgeSpec

(* Only a ready draft of the active session is confirmed.                  *)
LEMMA ConfirmsUnchanged ==
    ASSUME DraftTypes, DraftTypes', ForgeNext, NEW d \in Drafts,
           draft[d].status # "confirmed", draft'[d].status = "confirmed"
    PROVE  draft[d] # NoDraft /\ draft[d].status = "ready" /\ SourceUnchanged(d)
<1>1. draft'[d] # draft[d]
  OBVIOUS
<1>2. CASE RestartContexts
  <2>1. draft[d].status = "generating" /\ draft'[d] = [draft[d] EXCEPT !.status = "failed",
                                                    !.targets = FailPending(draft[d].targets)]
    BY <1>1, <1>2 DEF RestartContexts
  <2>2. draft[d] \in DraftRows
    BY <2>1, DraftRow DEF NoDraft
  <2>3. draft'[d].status = "failed"
    BY <2>1, <2>2 DEF DraftRows
  <2>4. QED
    BY <2>3
<1>3. \A targets : DraftStatus(targets) # "confirmed"
  BY DEF DraftStatus
<1>4. ASSUME NEW e \in Drafts,
             \/ CreateDraft(e) \/ UpdateDraft(e) \/ CancelDraft(e)
             \/ \E a \in Seats : StartTarget(e, a)
                                 \/ \E status \in {"succeeded", "failed"} : FinishTarget(e, a, status)
             \/ \E s \in SpaceSessions : ConfirmDraft(e, s)
      PROVE  draft[d] # NoDraft /\ draft[d].status = "ready" /\ SourceUnchanged(d)
  <2>1. e = d
    BY <1>1, <1>4 DEF CreateDraft, UpdateDraft, CancelDraft, StartTarget, FinishTarget,
                      ConfirmDraft, SetTarget, Closed, DraftTypes
  <2>2. ASSUME NEW status, draft[d] # NoDraft, Closed(d, status)
        PROVE  draft'[d].status = status
    <3>1. draft[d] \in DraftRows
      BY <2>2, DraftRow
    <3>2. draft'[d] = [draft[d] EXCEPT !.status = status, !.targets = NoTargets]
      BY <2>2 DEF Closed, DraftTypes
    <3>3. QED
      BY <3>1, <3>2 DEF DraftRows
  <2>3. ASSUME NEW s \in SpaceSessions, ConfirmDraft(d, s)
        PROVE  draft[d] # NoDraft /\ draft[d].status = "ready" /\ SourceUnchanged(d)
    <3>1. draft[d].status = "ready" /\ draft[d] # NoDraft
      BY <2>3 DEF ConfirmDraft, NoDraft
    <3>2. CASE Closed(d, "stale")
      <4>1. draft'[d].status = "stale"
        BY <2>2, <3>1, <3>2
      <4>2. QED
        BY <4>1
    <3>3. QED
      BY <2>3, <3>1, <3>2 DEF ConfirmDraft
  <2>4. CASE UpdateDraft(d)
    <3>1. draft[d] # NoDraft
      BY <2>4 DEF UpdateDraft, NoDraft
    <3>2. draft[d] \in DraftRows
      BY <3>1, DraftRow
    <3>3. draft'[d] = [draft[d] EXCEPT !.version = draft[d].version + 1, !.edited = TRUE]
      BY <2>4 DEF UpdateDraft, DraftTypes
    <3>4. draft'[d].status = draft[d].status
      BY <3>2, <3>3 DEF DraftRows
    <3>5. QED
      BY <3>4
  <2>5. CASE CancelDraft(d)
    <3>1. draft[d] # NoDraft
      BY <2>5 DEF CancelDraft, NoDraft
    <3>2. draft'[d].status = "cancelled"
      BY <2>2, <2>5, <3>1 DEF CancelDraft
    <3>3. QED
      BY <3>2
  <2>6. CASE CreateDraft(d)
    <3>1. PICK targets : draft'[d].status = DraftStatus(targets)
      BY <2>6 DEF CreateDraft, DraftTypes
    <3>2. QED
      BY <1>3, <3>1
  <2>7. ASSUME NEW a \in Seats, NEW status, NEW capsule, draft[d] # NoDraft,
               SetTarget(d, a, status, capsule)
        PROVE  FALSE
    <3> DEFINE targets == [draft[d].targets EXCEPT ![a] = [status |-> status, capsule |-> capsule]]
    <3>1. draft' = [draft EXCEPT ![d].targets = targets, ![d].status = DraftStatus(targets)]
      BY <2>7 DEF SetTarget
    <3> HIDE DEF targets
    <3>2. draft'[d] = [draft[d] EXCEPT !.targets = targets, !.status = DraftStatus(targets)]
      BY <3>1 DEF DraftTypes
    <3>3. draft[d] \in DraftRows
      BY <2>7, DraftRow
    <3>4. draft'[d].status = DraftStatus(targets)
      BY <3>2, <3>3 DEF DraftRows
    <3>5. QED
      BY <1>3, <3>4
  <2>8. ASSUME NEW a \in Seats, StartTarget(d, a)
        PROVE  FALSE
    <3>1. /\ draft[d] # NoDraft
          /\ SetTarget(d, a, "running", Candidates(draft[d].session, draft[d].sourceSeq, {}))
      BY <1>1, <2>8 DEF StartTarget, NoDraft
    <3>2. QED
      BY <2>7, <3>1
  <2>9. ASSUME NEW a \in Seats, NEW status \in {"succeeded", "failed"}, FinishTarget(d, a, status)
        PROVE  FALSE
    BY <2>7, <2>9 DEF FinishTarget
  <2>10. QED
    BY <1>4, <2>1, <2>3, <2>4, <2>5, <2>6, <2>8, <2>9
<1>5. QED
  BY <1>1, <1>2, <1>4 DEF ForgeNext

(* A session is forged from all that was said in its source                *)
(* (confirmDraft, context-forges.js): every capsule of a draft that was    *)
(* not edited is what was completed in the session that it archives.       *)
THEOREM ForgesCoverTheirSource == ForgeSpec => ForgeCoversSource
<1>1. ASSUME ContextInv, DraftTypes, DraftTypes', DraftsSound, [ForgeNext]_forgeVars,
             NEW d \in Drafts, draft[d].status # "confirmed", draft'[d].status = "confirmed",
             NEW a \in Seats
      PROVE  draft[d].targets[a].capsule = {m \in In(draft[d].session) : Completed(m)}
  <2>1. ForgeNext
    BY <1>1 DEF forgeVars
  <2>2. draft[d] # NoDraft /\ draft[d].status = "ready" /\ SourceUnchanged(d)
    BY <1>1, <2>1, ConfirmsUnchanged
  <2>3. DraftSound(d)
    BY <1>1, <2>2 DEF DraftsSound
  <2>4. draft[d].targets[a].capsule = Candidates(draft[d].session, draft[d].sourceSeq, {})
    BY <2>2, <2>3 DEF DraftSound
  <2>5. draft[d].session \in SpaceSessions /\ draft[d].sourceSeq = HighWater(draft[d].session)
    BY <1>1, <2>2 DEF SourceUnchanged, ContextInv, ContextTypes
  <2>6. PICK t \in SpaceSessions : t = draft[d].session
    BY <2>5
  <2>7. /\ HighWater(t) \in Nat
        /\ \A m \in In(t) : Completed(m) => Place(m) \in 1 .. HighWater(t)
    BY <1>1, HighWaterBounds DEF ContextInv
  <2>8. \A m \in In(t) : Completed(m) => Place(m) <= HighWater(t)
    BY <2>7
  <2>9. Candidates(t, HighWater(t), {}) = {m \in In(t) : Completed(m)}
    BY <2>8 DEF Candidates
  <2>10. QED
    BY <2>4, <2>5, <2>6, <2>9
<1>2. /\ ContextInv /\ DraftTypes /\ DraftTypes' /\ DraftsSound /\ [ForgeNext]_forgeVars
      => [\A d \in Drafts :
             draft[d].status # "confirmed" /\ draft'[d].status = "confirmed" /\ ~draft[d].edited
             => \A a \in Seats : draft[d].targets[a].capsule =
                                     {m \in In(draft[d].session) : Completed(m)}]_forgeVars
  BY <1>1
<1>3. QED
  BY <1>2, ContextInvInductive, DraftsSoundInductive, PTL DEF ForgeSpec, ForgeCoversSource
=============================================================================
