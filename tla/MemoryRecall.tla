------------------------------ MODULE MemoryRecall ------------------------------
(***************************************************************************)
(* What an Agent is reminded of.  Each generation of an Agent Session has  *)
(* a recall session, which remembers what was delivered: the resident      *)
(* index, what was injected into prompts, what the Agent's own searches    *)
(* returned.  A search freezes its ranking and hands it out page by page   *)
(* under cursors, each of which answers the same call again with the same  *)
(* page.  Calls to one recall session run one after the other (one that    *)
(* waits has read nothing, so it is made when its turn comes), in steps,   *)
(* between which the owner edits the memories and the generation ends.     *)
(*                                                                         *)
(* Scores are left out: which memories text and vectors find, which of two *)
(* duplicates stands for both and which order weights give is any choice.  *)
(* The embedding sidecar is modelled by the versions it holds vectors of.  *)
(***************************************************************************)
EXTENDS Naturals, Sequences, FiniteSets, TLC

LOCAL INSTANCE SequencesExt

CONSTANTS
    Memories,               \* memories of one Agent
    ResidentLines,          \* memory.injectionBudgetResidentLines
    Links,                  \* pairs of memories of which one names the other
    Takes,                  \* how many memories a page asked for may hold
    MaxRecallCalls,         \* bound: calls that are ever made
    MaxMemoryEdits,         \* bound: edits of the owner
    MaxEmbedFailures        \* bound: failures of the embedding service

VARIABLES
    text,           \* slug -> version of the memory, 0 when there is none
    recall,         \* generation -> recall session
    cursor,         \* cursor id -> what it is good for
    queue,          \* the call that holds the session lock, if any
    sidecar,        \* slug -> version its stored vector was made from, 0 for none
    build,          \* the build of the sidecar under way: slug -> version
    refused,        \* <<slug, version>> that could not be embedded
    seen,           \* history: generation -> what was shown in it
    pages,          \* history: cursor id -> what it showed first
    answer,         \* history: the last answer, with what was seen before it
    calls, edits, embedFailures

recallVars == <<text, recall, cursor, queue, sidecar, build, refused, seen, pages, answer,
                calls, edits, embedFailures>>

Gens     == 1 .. 2
Unknown  == [status |-> "none", delivered |-> {}, resident |-> FALSE]
NoVector == [s \in Memories |-> 0]
NoBuild  == [running |-> FALSE, versions |-> NoVector]
Present  == {s \in Memories : text[s] > 0}
call     == Head(queue)
session  == recall[call.gen]
Doing(kind, at) == queue # << >> /\ call.kind = kind /\ call.at = at
Proceed(next) == queue' = <<next>> \o Tail(queue)
Answered == queue' = Tail(queue)
dataVars == <<text, edits>>
shownVars == <<seen, pages, answer>>
embedVars == <<sidecar, build, refused, embedFailures>>

RecallTypeOK ==
    /\ text \in [Memories -> 0 .. MaxMemoryEdits + 1]
    /\ \A g \in Gens : /\ recall[g].status \in {"none", "active", "frozen"}
                       /\ recall[g].delivered \subseteq Memories
    /\ DOMAIN cursor = 1 .. Cardinality(DOMAIN cursor)
    /\ sidecar \in [Memories -> Nat] /\ calls \in 0 .. MaxRecallCalls

RecallInit ==
    /\ text = [s \in Memories |-> 1]
    /\ recall = [g \in Gens |-> IF g = 1 THEN [Unknown EXCEPT !.status = "active"] ELSE Unknown]
    /\ cursor = << >> /\ queue = << >>
    /\ seen = [g \in Gens |-> {}] /\ pages = << >> /\ answer = [via |-> "none"]
    /\ sidecar = text /\ build = NoBuild /\ refused = {}
    /\ calls = 0 /\ edits = 0 /\ embedFailures = 0

-----------------------------------------------------------------------------
(* The recall session                                                      *)

Changed(g, r) == recall' = [recall EXCEPT ![g] = r]
Delivered(g, slugs) == [recall[g] EXCEPT !.delivered = @ \union slugs]

Shown(via, slugs) ==
    /\ seen' = [seen EXCEPT ![call.gen] = @ \union slugs]
    /\ answer' = [via |-> via, slugs |-> slugs, before |-> seen[call.gen]]
    /\ UNCHANGED pages

ShownSearch(slugs, vectors) ==
    /\ seen' = [seen EXCEPT ![call.gen] = @ \union slugs]
    /\ answer' = [via |-> "search", slugs |-> slugs, before |-> seen[call.gen],
                  outdated |-> {s \in vectors : sidecar[s] # call.read[s]}]
    /\ UNCHANGED pages

ShownPage(slugs) ==
    /\ seen' = [seen EXCEPT ![call.gen] = @ \union slugs]
    /\ pages' = IF call.cursor \in DOMAIN pages THEN pages ELSE pages @@ (call.cursor :> slugs)
    /\ answer' = [via |-> "page", slugs |-> slugs, cursor |-> call.cursor]

(* ensureSession: a new generation freezes the sessions before it.         *)
NextGeneration ==
    /\ recall[1].status = "active" /\ recall[2].status = "none"
    /\ recall' = [g \in Gens |-> [recall[g] EXCEPT !.status = IF g = 1 THEN "frozen" ELSE "active"]]
    /\ answer' = [via |-> "none"]
    /\ UNCHANGED <<dataVars, cursor, queue, embedVars, seen, pages, calls>>

Ask(c) ==
    /\ calls < MaxRecallCalls /\ calls' = calls + 1
    /\ recall[c.gen].status = "active"
    /\ queue = << >> /\ queue' = <<c>>
    /\ answer' = [via |-> "none"]
    /\ UNCHANGED <<dataVars, recall, cursor, embedVars, seen, pages>>

(* The prompt of a run is compiled; the Agent calls a tool of Memory MCP,  *)
(* perhaps again, because it never saw the answer.                         *)
AskResident(g) == Ask([kind |-> "resident", at |-> "list", gen |-> g])
AskSearch(g, kind) == Ask([kind |-> kind, at |-> "begin", gen |-> g])
(* Memories that name each other are neighbours; two hops are followed.    *)
WithNeighbours(found, E) ==
    found \union {t \in E : \E s \in found : {s, t} \in Links}
Linked(seeds, E) == WithNeighbours(WithNeighbours(seeds, E), E)

(* A direction is "all" or what one of the memories found leads to.        *)
Directions == {Memories} \union {Linked({s}, Memories) : s \in Memories}
AskMore(g, id, direction, take) ==
    id \in DOMAIN cursor /\ Ask([kind |-> "more", at |-> "begin", gen |-> g, cursor |-> id,
                                 direction |-> direction, take |-> take])
AskDetail(g, s) == Ask([kind |-> "detail", at |-> "begin", gen |-> g, slug |-> s])

(* findSession: the session is no longer active, or the memory is gone.    *)
Refuse ==
    /\ queue # << >>
    /\ \/ session.status # "active"
       \/ call.kind = "detail" /\ text[call.slug] = 0
       \/ call.kind = "more" /\ cursor[call.cursor].gen # call.gen
    /\ Answered
    /\ UNCHANGED <<dataVars, recall, cursor, embedVars, shownVars, calls>>

-----------------------------------------------------------------------------
(* residentIndexForSession: the block is made once.                        *)

Residents == {r \in SUBSET Present :
                 Cardinality(r) = IF Cardinality(Present) < ResidentLines THEN Cardinality(Present) ELSE ResidentLines}

ListResident ==
    /\ Doing("resident", "list") /\ session.status = "active"
    /\ IF session.resident THEN Answered /\ UNCHANGED <<recall, shownVars>>
       ELSE \E r \in Residents :
               /\ Changed(call.gen, [Delivered(call.gen, r) EXCEPT !.resident = TRUE])
               /\ Shown("resident", r) /\ Answered
    /\ UNCHANGED <<dataVars, cursor, embedVars, calls>>

-----------------------------------------------------------------------------
(* searchForInjection, search                                              *)

(* An injection into a session to which nothing was delivered first notes  *)
(* the resident memories; each memory is then read.                        *)
BeginSearch ==
    /\ queue # << >> /\ call.kind \in {"inject", "search"} /\ call.at = "begin"
    /\ session.status = "active"
    /\ IF call.kind = "inject" /\ session.delivered = {}
       THEN \E r \in Residents : Changed(call.gen, Delivered(call.gen, r))
       ELSE UNCHANGED recall
    /\ Proceed([kind |-> call.kind, at |-> "embed", gen |-> call.gen, read |-> text,
                known |-> recall'[call.gen].delivered])
    /\ UNCHANGED <<dataVars, cursor, embedVars, shownVars, calls>>

(* Mutant of Fits: a vector is taken by the name of its memory.            *)
FitsByName(s, versions) == sidecar[s] > 0 /\ versions[s] > 0

Fits(s, versions) == sidecar[s] > 0 /\ sidecar[s] = versions[s]

(* prepare: a build when a vector is missing and none is under way.        *)
Prepare ==
    LET missing == {s \in Memories : /\ call.read[s] > 0 /\ ~Fits(s, call.read)
                                  /\ <<s, call.read[s]>> \notin refused}
    IN  build' = IF missing # {} /\ ~build.running
                 THEN [running |-> TRUE, versions |-> call.read] ELSE build

(* rankMemoryCandidates: text and vectors find some memories; what they    *)
(* are linked with, in either direction and over two hops, comes along;    *)
(* near duplicates are merged into one of them; what is left is put in     *)
(* some order.  An item is a memory with those that were merged into it.   *)
Eligible == {s \in Memories : call.read[s] > 0} \ call.known

Deduplicated(found) ==
    UNION {{ {<<s, {t \in found \ leaders : into[t] = s}>> : s \in leaders} :
                into \in [found \ leaders -> leaders]} : leaders \in SUBSET found}

Rankings(E) ==
    UNION {SetToSeqs(items) : items \in UNION {Deduplicated(Linked(seeds, E)) : seeds \in SUBSET E}}

SlugsOf(items)   == {item[1] : item \in Range(items)}
CoveredBy(items) == SlugsOf(items) \union UNION {item[2] : item \in Range(items)}

FirstOf(items, n) == SubSeq(items, 1, n)
RestOf(items, n)  == SubSeq(items, n + 1, Len(items))
NewCursor(g, items, dir) ==
    [gen |-> g, items |-> items, direction |-> dir, take |-> 0, page |-> {}, answered |-> FALSE]

(* As many as the budget holds, from none to all of them; the rest waits   *)
(* under a cursor.  Without the embedding service the search goes on       *)
(* without vectors and no build begins.                                    *)
FinishSearch ==
    /\ queue # << >> /\ call.kind \in {"inject", "search"} /\ call.at = "embed"
    /\ session.status = "active"
    /\ \E vectors \in {{s \in Memories : Fits(s, call.read)}, {}} :
       \E items \in Rankings(Eligible) : \E n \in 0 .. Len(items) :
          /\ (vectors = {} /\ UNCHANGED build) \/ Prepare
          /\ cursor' = IF n = Len(items) THEN cursor
                       ELSE Append(cursor, NewCursor(call.gen, RestOf(items, n), {}))
          /\ Changed(call.gen, Delivered(call.gen, CoveredBy(FirstOf(items, n))))
          /\ ShownSearch(SlugsOf(FirstOf(items, n)), vectors)
    /\ Answered
    /\ UNCHANGED <<dataVars, sidecar, refused, embedFailures, calls>>

-----------------------------------------------------------------------------
(* fetchMore: direction and budget are fixed by the first call for a       *)
(* cursor, and its answer is kept.                                         *)

entry == cursor[call.cursor]
Fixed == entry.direction # {}
Along(items, direction) == SelectSeq(items, LAMBDA item : item[1] \in direction)

AnswerAgain ==
    /\ Doing("more", "begin") /\ session.status = "active" /\ entry.gen = call.gen
    /\ Fixed => entry.direction = call.direction /\ entry.take = call.take
    /\ entry.answered
    /\ ShownPage(entry.page)
    /\ Answered
    /\ UNCHANGED <<dataVars, recall, cursor, embedVars, calls>>

OtherTerms ==
    /\ Doing("more", "begin") /\ Fixed /\ (entry.direction # call.direction \/ entry.take # call.take)
    /\ Answered
    /\ UNCHANGED <<dataVars, recall, cursor, embedVars, shownVars, calls>>

SelectCursor ==
    /\ Doing("more", "begin") /\ session.status = "active" /\ entry.gen = call.gen /\ ~entry.answered
    /\ Fixed => entry.direction = call.direction /\ entry.take = call.take
    /\ cursor' = [cursor EXCEPT ![call.cursor].direction = call.direction,
                                ![call.cursor].take = call.take]
    /\ Proceed([call EXCEPT !.at = "save"])
    /\ UNCHANGED <<dataVars, recall, embedVars, shownVars, calls>>

(* Mutant of SavePage: what fetchMore returns does not count as delivered. *)
SavePageUncounted ==
    /\ Doing("more", "save") /\ session.status = "active"
    /\ LET items == Along(entry.items, entry.direction)
           n     == IF entry.take < Len(items) THEN entry.take ELSE Len(items)
           page  == FirstOf(items, n)
           done  == [cursor EXCEPT ![call.cursor].page = SlugsOf(page), ![call.cursor].answered = TRUE]
       IN  /\ cursor' = IF n = Len(items) THEN done
                        ELSE Append(done, NewCursor(call.gen, RestOf(items, n), entry.direction))
           /\ ShownPage(SlugsOf(page))
    /\ Answered
    /\ UNCHANGED <<dataVars, recall, embedVars, calls>>

(* Each memory of the page was looked up: one that is gone is marked.      *)
SavePage ==
    /\ Doing("more", "save") /\ session.status = "active"
    /\ LET items == Along(entry.items, entry.direction)
           n     == IF entry.take < Len(items) THEN entry.take ELSE Len(items)
           page  == FirstOf(items, n)
           done  == [cursor EXCEPT ![call.cursor].page = SlugsOf(page), ![call.cursor].answered = TRUE]
       IN  /\ cursor' = IF n = Len(items) THEN done
                        ELSE Append(done, NewCursor(call.gen, RestOf(items, n), entry.direction))
           /\ Changed(call.gen, Delivered(call.gen, CoveredBy(page)))
           /\ ShownPage(SlugsOf(page))
    /\ Answered
    /\ UNCHANGED <<dataVars, embedVars, calls>>

-----------------------------------------------------------------------------
FetchDetail ==
    /\ Doing("detail", "begin") /\ session.status = "active" /\ text[call.slug] > 0
    /\ Changed(call.gen, Delivered(call.gen, {call.slug}))
    /\ Shown("detail", {call.slug})
    /\ Answered
    /\ UNCHANGED <<dataVars, cursor, embedVars, calls>>

(* The owner, a digest or a Dream changes, removes or restores a memory.   *)
Edit(s) ==
    /\ edits < MaxMemoryEdits /\ edits' = edits + 1
    /\ text' \in {[text EXCEPT ![s] = edits + 2], [text EXCEPT ![s] = 0]}
    /\ UNCHANGED <<recall, cursor, queue, embedVars, shownVars, calls>>

(* buildSidecar: vectors of the same version are kept, the others made     *)
(* from what was read when the build began; some fail, and are not tried   *)
(* again.                                                                  *)
Build ==
    /\ build.running
    /\ \E fail \in SUBSET {s \in Memories : /\ build.versions[s] > 0 /\ sidecar[s] # build.versions[s]
                                  /\ <<s, build.versions[s]>> \notin refused} :
          /\ embedFailures + Cardinality(fail) <= MaxEmbedFailures
          /\ embedFailures' = embedFailures + Cardinality(fail)
          /\ refused' = refused \union {<<s, build.versions[s]>> : s \in fail}
          /\ sidecar' = [s \in Memories |->
                IF s \in fail \/ (<<s, build.versions[s]>> \in refused /\ sidecar[s] # build.versions[s])
                THEN 0 ELSE build.versions[s]]
    /\ build' = NoBuild
    /\ UNCHANGED <<dataVars, recall, cursor, queue, shownVars, calls>>

RecallNext ==
    \/ NextGeneration
    \/ \E g \in Gens : AskResident(g) \/ AskSearch(g, "inject") \/ AskSearch(g, "search")
    \/ \E g \in Gens, id \in DOMAIN cursor, n \in Takes :
          \E d \in Directions : AskMore(g, id, d, n)
    \/ \E g \in Gens, s \in Memories : AskDetail(g, s)
    \/ Refuse \/ ListResident \/ BeginSearch \/ FinishSearch
    \/ AnswerAgain \/ OtherTerms \/ SelectCursor \/ SavePage \/ FetchDetail \/ Build
    \/ \E s \in Memories : Edit(s)
-----------------------------------------------------------------------------
(* What a search or an injection answers was not delivered before in this  *)
(* generation, by whichever call.                                          *)
NeverTwice == answer.via = "search" => answer.slugs \cap answer.before = {}

(* A cursor hands out one page, and that page again however often it is    *)
(* asked and whatever happened to the memories meanwhile.                  *)
PagesStable == answer.via = "page" => answer.slugs = pages[answer.cursor]

(* A memory is compared by the vector of the version that was read.        *)
VectorsOfWhatWasRead == answer.via = "search" => answer.outdated = {}

(* What an Agent is reminded of is new to its context, stable to page      *)
(* through and ranked by what the memories say now, whatever runs beside   *)
(* the calls: edits, a build of the sidecar, the end of the generation.    *)
RecallSound == NeverTwice /\ PagesStable /\ VectorsOfWhatWasRead
==============================================================================
