--------------------------- MODULE SpaceDirectory ---------------------------
(***************************************************************************)
(* Who sits where, and who watches: Accounts, Groups, Projects and Spaces  *)
(* refer to each other by id and are changed by requests of their own; a   *)
(* Group is the one source of the seats of its Spaces.  The owner may      *)
(* watch one private Space, and the daemons that run for it are told       *)
(* whether to report the details of what they do.                          *)
(*                                                                         *)
(* A request that posts a message looks at archivedAt before it awaits its *)
(* body, so that the Space may be archived, restored or gone by the time   *)
(* the message is stored.  Sessions and contexts are those of              *)
(* ContextSessions, the steps of a deletion those of SpaceFiles.           *)
(***************************************************************************)
EXTENDS Naturals, Sequences, FiniteSets

CONSTANTS
    Members, Groups, Rooms, Projects,   \* ids of Accounts, Groups, Spaces, Projects
    Nowhere,                            \* not an id
    MaxWork,                            \* bound: runs at once
    MaxTold                             \* bound: updates under way to the daemon of a run

ASSUME NowhereAssumption == Nowhere \notin Rooms \union Groups \union Projects

VARIABLES
    standing,       \* Account -> "none", "free" (no owner) or "owned"
    group,          \* Group -> its accountIds, {} when there is no such Group
    projects,       \* Projects there are
    room,           \* Space -> its row, or NoRoom
    posting,        \* Spaces with a request past the check of archivedAt
    deleting,       \* the Space that deleteArchivedSpace is busy with, or Nowhere
    purged,         \* Spaces gone whose deletion has not reached reconcileSpace
    compacting,     \* Spaces with a queued or running compaction
    work,           \* <<Space, Account>> -> "none", "pending" or "running"
    watched,        \* observation: observedSpaceId
    told,           \* <<Space, Account>> -> updates under way to its daemon
    seen            \* <<Space, Account>> -> activityVisibility in the daemon of a run

directoryVars == <<standing, group, projects, room, posting, deleting, purged, compacting, work, watched, told, seen>>
watchVars == <<watched, told, seen>>

NoRoom == [seats |-> {}]
Gone   == [seats |-> {}, deleted |-> TRUE]
KnownAccounts == {m \in Members : standing[m] # "none"}
Exists(r) == room[r] \notin {NoRoom, Gone}
AtWork(r)   == r \in compacting \/ \E m \in Members : work[<<r, m>>] # "none"
RoomsOf(g) == {r \in Rooms : Exists(r) /\ room[r].group = g}

(* isObservable and visibilityForSpace, in a directory d with w observed.  *)
IsObservable(d, r) == d[r] \notin {NoRoom, Gone} /\ ~d[r].archived /\ Cardinality(d[r].seats) = 1
Visibility(d, w, r) == IF w = r /\ IsObservable(d, r) THEN "observed" ELSE "status-only"

DirectoryTypeOK ==
    /\ standing \in [Members -> {"none", "free", "owned"}]
    /\ group \in [Groups -> SUBSET Members] /\ projects \subseteq Projects
    /\ \A r \in Rooms : Exists(r) => room[r] \in
        [seats : SUBSET Members, group : Groups \union {Nowhere},
         project : Projects \union {Nowhere}, archived : BOOLEAN]
    /\ posting \subseteq Rooms /\ deleting \in Rooms \union {Nowhere}
    /\ purged \subseteq Rooms /\ compacting \subseteq Rooms
    /\ work \in [Rooms \X Members -> {"none", "pending", "running"}]
    /\ watched \in Rooms \union {Nowhere}
    /\ told \in [Rooms \X Members -> Seq({"status-only", "observed"})]
    /\ seen \in [Rooms \X Members -> {"status-only", "observed"}]

(* All Accounts but one are there and enrolled.                            *)
DirectoryInit ==
    /\ \E n \in Members : standing = [m \in Members |-> IF m = n THEN "none" ELSE "owned"]
    /\ group = [g \in Groups |-> {}] /\ projects = {} /\ room = [r \in Rooms |-> NoRoom]
    /\ posting = {} /\ deleting = Nowhere /\ purged = {} /\ compacting = {}
    /\ work = [x \in Rooms \X Members |-> "none"]
    /\ watched = Nowhere
    /\ told = [x \in Rooms \X Members |-> <<>>]
    /\ seen = [x \in Rooms \X Members |-> "status-only"]

-----------------------------------------------------------------------------
(* Mutant of Affected: the Space observed before is forgotten.             *)
AffectedByNext(x, w) == x[1] = w /\ work[x] = "running"

(* dispatchAffected: the runs in the Spaces observed before and after.     *)
Affected(x, w) == x[1] \in {watched, w} /\ work[x] = "running"

(* commit: another Space, or none, is observed; the daemons are told.      *)
CommitWatch(d, w) ==
    /\ watched' = w
    /\ told' = IF w = watched THEN told
               ELSE [x \in Rooms \X Members |->
                       IF Affected(x, w) THEN Append(told[x], Visibility(d, w, x[1])) ELSE told[x]]
    /\ \A x \in Rooms \X Members : Len(told'[x]) <= MaxTold
    /\ UNCHANGED seen

(* Mutant of Reconcile: what is observed is the owner's business.          *)
ReconcileNothing(d, rs) == UNCHANGED watchVars

(* reconcileSpace: a Space that can be observed no more is not.            *)
Reconcile(d, rs) ==
    IF watched \in rs /\ ~IsObservable(d, watched) THEN CommitWatch(d, Nowhere) ELSE UNCHANGED watchVars

Observe(w) ==
    /\ w # Nowhere => IsObservable(room, w)
    /\ CommitWatch(room, w)
    /\ UNCHANGED <<standing, group, projects, room, posting, deleting, purged, compacting, work>>

(* run.activity-visibility.updated reaches the daemon.                     *)
HearVisibility(x) ==
    /\ told[x] # <<>>
    /\ seen' = [seen EXCEPT ![x] = Head(told[x])]
    /\ told' = [told EXCEPT ![x] = Tail(told[x])]
    /\ UNCHANGED <<standing, group, projects, room, posting, deleting, purged, compacting, work, watched>>

-----------------------------------------------------------------------------
CreateAccount(m) ==
    /\ standing[m] = "none"
    /\ standing' = [standing EXCEPT ![m] = "free"]
    /\ UNCHANGED <<group, projects, room, posting, deleting, purged, compacting, work, watchVars>>

Unreferenced(m) == /\ \A g \in Groups : m \notin group[g]
                   /\ \A r \in Rooms : m \notin room[r].seats

DeleteUnownedAccount(m) ==
    /\ standing[m] = "free" /\ Unreferenced(m)
    /\ standing' = [standing EXCEPT ![m] = "none"]
    /\ UNCHANGED <<group, projects, room, posting, deleting, purged, compacting, work, watchVars>>

(* What AccountControl models in full.                                     *)
EnrolMember(m) ==
    /\ standing[m] = "free"
    /\ standing' = [standing EXCEPT ![m] = "owned"]
    /\ UNCHANGED <<group, projects, room, posting, deleting, purged, compacting, work, watchVars>>

-----------------------------------------------------------------------------
(* normalizeAccountIds *)
MakesGroup(ms) == ms \subseteq KnownAccounts /\ Cardinality(ms) >= 2

CreateGroup(g, ms) ==
    /\ group[g] = {} /\ MakesGroup(ms)
    /\ group' = [group EXCEPT ![g] = ms]
    /\ UNCHANGED <<standing, projects, room, posting, deleting, purged, compacting, work, watchVars>>

(* Mutant of SyncGroupSpaces: only later Spaces have the new members.      *)
SyncGroupSpacesLater(g, ms) == room

(* syncGroupSpaces: the seats of every Space of the Group are replaced.    *)
SyncGroupSpaces(g, ms) == [r \in Rooms |-> IF r \in RoomsOf(g) THEN [room[r] EXCEPT !.seats = ms] ELSE room[r]]

UpdateGroup(g, ms) ==
    /\ group[g] # {} /\ MakesGroup(ms)
    /\ ms # group[g] => \A r \in RoomsOf(g) : ~AtWork(r)
    /\ group' = [group EXCEPT ![g] = ms]
    /\ room' = SyncGroupSpaces(g, ms)
    /\ Reconcile(room', RoomsOf(g))
    /\ UNCHANGED <<standing, projects, posting, deleting, purged, compacting, work>>

DeleteGroup(g) ==
    /\ group[g] # {} /\ RoomsOf(g) = {}
    /\ group' = [group EXCEPT ![g] = {}]
    /\ UNCHANGED <<standing, projects, room, posting, deleting, purged, compacting, work, watchVars>>

CreateProject(p) ==
    /\ projects' = projects \union {p}
    /\ UNCHANGED <<standing, group, room, posting, deleting, purged, compacting, work, watchVars>>

DeleteProject(p) ==
    /\ p \in projects /\ \A r \in Rooms : Exists(r) => room[r].project # p
    /\ projects' = projects \ {p}
    /\ UNCHANGED <<standing, group, room, posting, deleting, purged, compacting, work, watchVars>>

-----------------------------------------------------------------------------
(* normalizeSeats; modes, who is heard or blocked are left out.            *)
Seatable(seats) == seats \subseteq KnownAccounts /\ seats # {}

(* assertSpaceMembership: alone in a private Space, or all of the Group.   *)
SeatsFit(seats, g) ==
    /\ Seatable(seats)
    /\ IF g = Nowhere THEN Cardinality(seats) = 1 ELSE group[g] # {} /\ seats = group[g]

CreateSpace(r, seats, g, p) ==
    /\ room[r] = NoRoom /\ SeatsFit(seats, g) /\ p \in projects \union {Nowhere}
    /\ room' = [room EXCEPT ![r] = [seats |-> seats, group |-> g, project |-> p, archived |-> FALSE]]
    /\ UNCHANGED <<standing, group, projects, posting, deleting, purged, compacting, work, watchVars>>

(* updateSpace: the seats or the Project; runs of the Space do not matter. *)
UpdateSpace(r, seats, p) ==
    /\ Exists(r)
    /\ seats # room[r].seats => SeatsFit(seats, room[r].group)
    /\ p # room[r].project => p \in projects \union {Nowhere}
    /\ room' = [room EXCEPT ![r].seats = seats, ![r].project = p]
    /\ Reconcile(room', {r})
    /\ UNCHANGED <<standing, group, projects, posting, deleting, purged, compacting, work>>

Archive(r) ==
    /\ Exists(r) /\ ~AtWork(r)
    /\ room' = [room EXCEPT ![r].archived = TRUE]
    /\ Reconcile(room', {r})
    /\ UNCHANGED <<standing, group, projects, posting, deleting, purged, compacting, work>>

RestoreArchived(r) ==
    /\ Exists(r) /\ room[r].archived
    /\ room' = [room EXCEPT ![r].archived = FALSE]
    /\ UNCHANGED <<standing, group, projects, posting, deleting, purged, compacting, work, watchVars>>

(* deleteArchivedSpace checks, works on memories and files, and then takes *)
(* the rows of the Space away without another look.                        *)
BeginDeletion(r) ==
    /\ deleting = Nowhere /\ Exists(r) /\ room[r].archived /\ ~AtWork(r)
    /\ deleting' = r
    /\ UNCHANGED <<standing, group, projects, room, posting, purged, compacting, work, watchVars>>

Purge ==
    /\ deleting # Nowhere
    /\ room' = [room EXCEPT ![deleting] = Gone]
    /\ compacting' = compacting \ {deleting}
    /\ work' = [x \in Rooms \X Members |-> IF x[1] = deleting THEN "none" ELSE work[x]]
    /\ told' = [x \in Rooms \X Members |-> IF x[1] = deleting THEN <<>> ELSE told[x]]
    /\ seen' = [x \in Rooms \X Members |-> IF x[1] = deleting THEN "status-only" ELSE seen[x]]
    /\ purged' = purged \union {deleting} /\ deleting' = Nowhere
    /\ UNCHANGED <<standing, group, projects, posting, watched>>

(* The store is flushed; space.deleted is published.                       *)
DeletionAnswered(r) ==
    /\ r \in purged
    /\ purged' = purged \ {r}
    /\ Reconcile(room, {r})
    /\ UNCHANGED <<standing, group, projects, room, posting, deleting, compacting, work>>

-----------------------------------------------------------------------------
BeginPost(r) ==
    /\ Exists(r) /\ ~room[r].archived
    /\ posting' = posting \union {r}
    /\ UNCHANGED <<standing, group, projects, room, deleting, purged, compacting, work, watchVars>>

(* Who shouldRespond, by its mode or because the message names it; its     *)
(* owner is online.                                                        *)
MayRespond(r) == {m \in room[r].seats : standing[m] = "owned"}

(* postMessage: the message is stored, and the seats that respond have a   *)
(* run each.                                                               *)
Post(r, respond) ==
    /\ r \in posting /\ Exists(r)
    /\ respond \subseteq MayRespond(r)
    /\ posting' = posting \ {r}
    /\ work' = [x \in Rooms \X Members |->
                  IF x[1] = r /\ x[2] \in respond /\ work[x] = "none" THEN "pending" ELSE work[x]]
    /\ Cardinality({x \in Rooms \X Members : work'[x] # "none"}) <= MaxWork
    /\ UNCHANGED <<standing, group, projects, room, deleting, purged, compacting, watchVars>>

PostRefused(r) ==
    /\ r \in posting /\ ~Exists(r)
    /\ posting' = posting \ {r}
    /\ UNCHANGED <<standing, group, projects, room, deleting, purged, compacting, work, watchVars>>

(* run.requested carries a snapshot of the visibility.                     *)
StartRun(x) ==
    /\ work[x] = "pending"
    /\ work' = [work EXCEPT ![x] = "running"]
    /\ seen' = [seen EXCEPT ![x] = Visibility(room, watched, x[1])]
    /\ told' = [told EXCEPT ![x] = <<>>]
    /\ UNCHANGED <<standing, group, projects, room, posting, deleting, purged, compacting, watched>>

(* It ends in one way or another, also with the Session of its Account.    *)
WorkEnds(x) ==
    /\ work[x] # "none"
    /\ work' = [work EXCEPT ![x] = "none"]
    /\ told' = [told EXCEPT ![x] = <<>>]
    /\ seen' = [seen EXCEPT ![x] = "status-only"]
    /\ UNCHANGED <<standing, group, projects, room, posting, deleting, purged, compacting, watched>>

Compact(r) ==
    /\ Exists(r) /\ ~room[r].archived
    /\ compacting' = IF r \in compacting THEN compacting \ {r} ELSE compacting \union {r}
    /\ UNCHANGED <<standing, group, projects, room, posting, deleting, purged, work, watchVars>>

(* What is observed, the requests and the runs do not survive a restart.   *)
RestartDirectory ==
    /\ posting' = {} /\ deleting' = Nowhere /\ purged' = {} /\ compacting' = {}
    /\ work' = [x \in Rooms \X Members |-> "none"]
    /\ watched' = Nowhere
    /\ told' = [x \in Rooms \X Members |-> <<>>]
    /\ seen' = [x \in Rooms \X Members |-> "status-only"]
    /\ UNCHANGED <<standing, group, projects, room>>

DirectoryNext ==
    \/ \E m \in Members : \/ CreateAccount(m) \/ DeleteUnownedAccount(m)
                          \/ EnrolMember(m)
    \/ \E g \in Groups, ms \in SUBSET Members : CreateGroup(g, ms) \/ UpdateGroup(g, ms)
    \/ \E g \in Groups : DeleteGroup(g)
    \/ \E p \in Projects : CreateProject(p) \/ DeleteProject(p)
    \/ \E r \in Rooms, seats \in SUBSET Members, g \in Groups \union {Nowhere}, p \in Projects \union {Nowhere} :
          CreateSpace(r, seats, g, p)
    \/ \E r \in Rooms, seats \in SUBSET Members, p \in Projects \union {Nowhere} : UpdateSpace(r, seats, p)
    \/ \E r \in Rooms : \/ Archive(r) \/ RestoreArchived(r) \/ BeginDeletion(r) \/ DeletionAnswered(r)
                        \/ BeginPost(r) \/ PostRefused(r) \/ Compact(r)
    \/ \E r \in Rooms, respond \in SUBSET Members : Post(r, respond)
    \/ \E x \in Rooms \X Members : StartRun(x) \/ WorkEnds(x) \/ HearVisibility(x)
    \/ \E w \in Rooms \union {Nowhere} : Observe(w)
    \/ Purge
    \/ RestartDirectory

DirectorySpec == DirectoryInit /\ [][DirectoryNext]_directoryVars

-----------------------------------------------------------------------------
(* A Space refers to Accounts, a Group and a Project that exist, and the   *)
(* seats of a Group's Space are the Group's Accounts.                      *)
ReferencesExist ==
    /\ \A g \in Groups : group[g] \subseteq KnownAccounts
    /\ \A r \in Rooms : Exists(r) =>
        /\ room[r].seats \subseteq KnownAccounts /\ room[r].seats # {}
        /\ room[r].project \in projects \union {Nowhere}
        /\ IF room[r].group = Nowhere THEN Cardinality(room[r].seats) = 1
           ELSE room[r].seats = group[room[r].group]

(* Whoever works in a Space of a Group is a member of the Group.           *)
WorkersAreMembers ==
    \A r \in Rooms, m \in Members :
        Exists(r) /\ work[<<r, m>>] # "none" /\ room[r].group # Nowhere => m \in group[room[r].group]

(* Only a private Space in use is observed, and the daemon of every run is *)
(* told of the visibility its reports have, once the updates under way     *)
(* have reached it: details are reported for the observed Space alone      *)
(* (observation.js, commit and reconcileSpace).                            *)
WillSee(x) == IF told[x] = <<>> THEN seen[x] ELSE told[x][Len(told[x])]

ObserversAreTold ==
    /\ watched \in Rooms \ purged => IsObservable(room, watched)
    /\ \A x \in Rooms \X Members : work[x] = "running" => WillSee(x) = Visibility(room, watched, x[1])

(* The directory (spaces.js, groups.js, projects.js, observation.js) stays *)
(* consistent whatever requests meet: references exist, work in a Group's  *)
(* Space is its members', and who reports details is told so.              *)
DirectorySound == ReferencesExist /\ WorkersAreMembers /\ ObserversAreTold
=============================================================================
