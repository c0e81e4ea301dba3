------------------------------ MODULE ForgeDialog ------------------------------
(***************************************************************************)
(* The dialog in which the owner reads, edits and confirms a Forge draft,  *)
(* with the Space view that opens and polls it, and the draft's routes.    *)
(*                                                                         *)
(* A draft is shown for one target; a text is what trimming leaves of it,  *)
(* Blank if that is nothing.  The dialog's requests, the polled answers    *)
(* and the draft's events arrive in any order between each other; another  *)
(* device edits and cancels drafts, and messages arrive in the session.    *)
(* A new dialog is opened when the last one waits for nothing any more.    *)
(* How capsules are compiled is in ContextForges.                          *)
(***************************************************************************)
EXTENDS Naturals, Sequences

LOCAL INSTANCE Functions

CONSTANTS
    DraftIds,       \* 1 .. n, in the order of their creation
    OwnTexts,       \* what the owner may type
    OtherTexts,     \* what another device saves
    Blank,
    MaxVersions,    \* bound: the sum of the drafts' versions
    MaxNotices,     \* bound: events on their way
    MaxFailures     \* bound: failed requests

VARIABLES
    forgeDraft,     \* contextForgeDrafts
    moved,          \* the session has changed since the drafts were made
    notices,        \* context-forge.updated events not yet handled
    shownDraft,     \* the draft of the dialog
    box,            \* its textarea, NoBox before the first rendering
    pending,        \* the action the dialog waits for: busy
    poll,           \* the refresh of scheduleForgePolling
    failedCalls,
    pressed,        \* history: what the dialog showed when confirm was pressed
    forgedText      \* history: what was confirmed by the dialog

serverSide == <<forgeDraft, moved, notices>>
dialogSide == <<shownDraft, box, pending>>
dialogVars == <<serverSide, dialogSide, poll, failedCalls, pressed, forgedText>>

NoForge == [id |-> 0, status |-> "none", text |-> Blank, version |-> 0]
NoBox   == [open |-> FALSE, value |-> Blank]
NoRequest == [kind |-> "none"]
Compiled(d) == [draft |-> d]     \* what the daemon writes

(* A request carries the draft and the text of when it was made.           *)
AskFor(kind, d) == [kind |-> kind, stage |-> "asked", draft |-> d, text |-> box.value]

-----------------------------------------------------------------------------
(* The draft routes *)

PublishDraft(d) ==
    /\ Len(notices) < MaxNotices
    /\ forgeDraft' = [forgeDraft EXCEPT ![d.id] = d]
    /\ notices' = Append(notices, d)

RefuseDraft == UNCHANGED <<forgeDraft, notices>>

NewDraft(d, status, text) == [id |-> d, status |-> status, text |-> text, version |-> 1]

(* POST drafts: one is generated at a time; there is nothing to generate   *)
(* for a session without messages.                                         *)
PostDraft(d) ==
    /\ \A x \in DraftIds : forgeDraft[x].status # "generating"
    /\ forgeDraft[d] = NoForge /\ \A x \in 1 .. d - 1 : forgeDraft[x] # NoForge
    /\ \/ PublishDraft(NewDraft(d, "generating", Blank))
       \/ PublishDraft(NewDraft(d, "ready", Compiled(d)))

Generated(d) ==
    /\ forgeDraft[d].status = "generating"
    /\ \/ PublishDraft([forgeDraft[d] EXCEPT !.status = "ready", !.text = Compiled(d)])
       \/ PublishDraft([forgeDraft[d] EXCEPT !.status = "failed"])

Saves(d, version, text) ==
    forgeDraft[d].status = "ready" /\ forgeDraft[d].version = version /\ text # Blank

MaySave == SumFunction([d \in DraftIds |-> forgeDraft[d].version]) < MaxVersions

(* PATCH: a ready draft under its version; a blank text is refused.        *)
PatchDraft(d, version, text) ==
    IF Saves(d, version, text)
    THEN PublishDraft([forgeDraft[d] EXCEPT !.text = text, !.version = @ + 1])
    ELSE RefuseDraft

(* DELETE                                                                  *)
DeleteDraft(d) ==
    IF forgeDraft[d].status \in {"generating", "ready", "failed"}
    THEN PublishDraft([forgeDraft[d] EXCEPT !.status = "cancelled"])
    ELSE RefuseDraft

(* _confirm                                                                *)
PostConfirm(d, version) ==
    CASE forgeDraft[d].status # "ready" \/ forgeDraft[d].version # version -> RefuseDraft
      [] moved -> PublishDraft([forgeDraft[d] EXCEPT !.status = "stale"])
      [] \E x \in DraftIds : forgeDraft[x].status = "generating" -> RefuseDraft
      [] OTHER -> PublishDraft([forgeDraft[d] EXCEPT !.status = "confirmed"])

-----------------------------------------------------------------------------
(* The dialog *)

(* render: what was in the textarea stays when the draft is ready, even    *)
(* if there was no draft text when the textarea was made.                  *)
Rendered(d) ==
    [open |-> TRUE, value |-> IF box.open /\ d.status = "ready" THEN box.value ELSE d.text]

Show(d) == shownDraft' = d /\ box' = Rendered(d)

Busy == pending # NoRequest
IsDirty == box.value # shownDraft.text

(* close: an answer to its polling comes to a dialog that is gone.         *)
CloseDialog == shownDraft' = NoForge /\ box' = NoBox /\ poll' = NoRequest

Type(text) ==
    /\ box.open /\ ~Busy /\ shownDraft.status = "ready" /\ box.value # text
    /\ box' = [box EXCEPT !.value = text]
    /\ UNCHANGED <<serverSide, shownDraft, pending, poll, failedCalls, pressed, forgedText>>

(* startForge: an open dialog is closed first.                             *)
StartForge ==
    /\ ~Busy
    /\ CloseDialog
    /\ pending' = AskFor("open", NoForge)
    /\ UNCHANGED <<serverSide, failedCalls, pressed, forgedText>>

(* The owner closes the dialog, what it asked for goes on.                 *)
Dismiss ==
    /\ box.open
    /\ CloseDialog
    /\ UNCHANGED <<serverSide, pending, failedCalls, pressed, forgedText>>

(* Mutant of AfterConfirm: the draft is confirmed without saving.          *)
ConfirmAtOnce == AskFor("confirm", shownDraft)

(* What the confirm button does first: saveIfNeeded.                       *)
AfterConfirm == AskFor(IF IsDirty THEN "save+confirm" ELSE "confirm", shownDraft)

(* The buttons of a draft, by its status.                                  *)
PressButton ==
    /\ box.open /\ ~Busy
    /\ \/ /\ shownDraft.status = "generating"
          /\ pending' = AskFor("cancel", shownDraft)
          /\ UNCHANGED pressed
       \/ /\ shownDraft.status \in {"ready", "failed", "stale", "cancelled"}
          /\ pending' = AskFor("start", shownDraft)
          /\ UNCHANGED pressed
       \/ /\ shownDraft.status = "ready"
          /\ \/ /\ IsDirty
                /\ pending' = AskFor("save", shownDraft)
                /\ UNCHANGED pressed
             \/ /\ pending' = AfterConfirm
                /\ pressed' = box.value
    /\ box' = Rendered(shownDraft)
    /\ UNCHANGED <<serverSide, shownDraft, poll, failedCalls, forgedText>>

(* The gateway handles the request.                                        *)
ServeCall ==
    /\ Busy /\ pending.stage = "asked"
    /\ LET d == pending.draft.id
           is(kinds) == pending.kind \in kinds
           served(ok) == pending' = [pending EXCEPT
                             !.stage = IF ok THEN "answered" ELSE "refused",
                             !.draft = IF ok /\ d # 0 THEN forgeDraft'[d] ELSE @]
       IN  \/ /\ is({"open", "start"})
              /\ \E x \in DraftIds :
                    /\ PostDraft(x)
                    /\ pending' = [pending EXCEPT !.stage = "answered", !.draft = forgeDraft'[x]]
              /\ UNCHANGED forgedText
           \/ /\ is({"open", "start"}) /\ \E x \in DraftIds : forgeDraft[x].status = "generating"
              /\ RefuseDraft /\ pending' = [pending EXCEPT !.stage = "refused"]
              /\ UNCHANGED forgedText
           \/ /\ is({"cancel"})
              /\ DeleteDraft(d) /\ served(TRUE)
              /\ UNCHANGED forgedText
           \/ /\ is({"save", "save+confirm"})
              /\ Saves(d, pending.draft.version, pending.text) => MaySave
              /\ PatchDraft(d, pending.draft.version, pending.text)
              /\ served(Saves(d, pending.draft.version, pending.text))
              /\ UNCHANGED forgedText
           \/ /\ is({"confirm"})
              /\ PostConfirm(d, pending.draft.version)
              /\ LET ok == forgeDraft'[d].status = "confirmed" /\ forgeDraft[d].status = "ready"
                 IN  /\ served(ok)
                     /\ forgedText' = IF ok THEN forgeDraft[d].text ELSE forgedText
    /\ UNCHANGED <<moved, shownDraft, box, poll, failedCalls, pressed>>

(* The history is about one press of a button.                             *)
Forget(over) ==
    IF over THEN pressed' = Blank /\ forgedText' = Blank ELSE UNCHANGED <<pressed, forgedText>>

(* The answer is taken for the draft, whatever has been shown since.  A    *)
(* saved draft that is to be confirmed is confirmed now, a confirmed one   *)
(* closes the dialog.                                                      *)
CallReturns ==
    /\ Busy /\ pending.stage = "answered"
    /\ CASE pending.kind = "save+confirm" ->
              /\ pending' = AskFor("confirm", pending.draft)
              /\ shownDraft' = IF box.open THEN pending.draft ELSE shownDraft
              /\ UNCHANGED <<box, poll>>
         [] pending.kind = "confirm" ->
              /\ pending' = NoRequest
              /\ CloseDialog
         [] OTHER ->
              /\ pending' = NoRequest
              /\ IF box.open \/ pending.kind = "open" THEN Show(pending.draft)
                 ELSE UNCHANGED <<shownDraft, box>>
              /\ UNCHANGED poll
    /\ Forget(pending.kind # "save+confirm")
    /\ UNCHANGED <<serverSide, failedCalls>>

(* Refused, or lost on the way there or back: the error is shown.          *)
CallFails ==
    /\ Busy
    /\ \/ pending.stage = "refused" /\ UNCHANGED failedCalls
       \/ failedCalls < MaxFailures /\ failedCalls' = failedCalls + 1
    /\ pending' = NoRequest
    /\ box' = IF box.open THEN Rendered(shownDraft) ELSE box
    /\ Forget(TRUE)
    /\ UNCHANGED <<serverSide, shownDraft, poll>>

(* update: an event of the draft that is shown.                            *)
HandleNotice ==
    /\ notices # << >>
    /\ notices' = Tail(notices)
    /\ IF box.open /\ Head(notices).id = shownDraft.id THEN Show(Head(notices))
       ELSE UNCHANGED <<shownDraft, box>>
    /\ UNCHANGED <<forgeDraft, moved, pending, poll, failedCalls, pressed, forgedText>>

(* scheduleForgePolling and refresh, even while the dialog is busy: the    *)
(* answer replaces the draft.                                              *)
PollDraft ==
    /\ \/ /\ poll = NoRequest
          /\ box.open /\ shownDraft.status = "generating"
          /\ poll' = AskFor("refresh", shownDraft)
          /\ UNCHANGED <<shownDraft, box>>
       \/ /\ poll # NoRequest /\ poll.stage = "asked"
          /\ poll' = [poll EXCEPT !.stage = "answered", !.draft = forgeDraft[@.id]]
          /\ UNCHANGED <<shownDraft, box>>
       \/ /\ poll # NoRequest /\ poll.stage = "answered"
          /\ poll' = NoRequest
          /\ IF box.open THEN Show(poll.draft) ELSE UNCHANGED <<shownDraft, box>>
    /\ UNCHANGED <<serverSide, pending, failedCalls, pressed, forgedText>>

(* The daemon, another device, and the session.                            *)
OthersAct ==
    /\ \/ (\E d \in DraftIds : Generated(d)) /\ UNCHANGED moved
       \/ /\ \E d \in DraftIds, text \in OtherTexts :
                /\ forgeDraft[d].status = "ready" /\ MaySave
                /\ PatchDraft(d, forgeDraft[d].version, text)
          /\ UNCHANGED moved
       \/ /\ \E d \in DraftIds : forgeDraft[d].status \in {"ready", "failed"} /\ DeleteDraft(d)
          /\ UNCHANGED moved
       \/ /\ ~moved /\ moved' = TRUE
          /\ \E d \in DraftIds : forgeDraft[d].status = "ready"
          /\ UNCHANGED <<forgeDraft, notices>>
    /\ UNCHANGED <<dialogSide, poll, failedCalls, pressed, forgedText>>

DialogInit ==
    /\ forgeDraft = [d \in DraftIds |-> NoForge]
    /\ moved = FALSE /\ notices = << >>
    /\ shownDraft = NoForge /\ box = NoBox /\ pending = NoRequest /\ poll = NoRequest
    /\ failedCalls = 0
    /\ pressed = Blank /\ forgedText = Blank

DialogNext ==
    \/ StartForge \/ Dismiss \/ PressButton \/ ServeCall \/ CallReturns \/ CallFails
    \/ HandleNotice \/ PollDraft \/ OthersAct
    \/ \E text \in OwnTexts : Type(text)

DialogSpec == DialogInit /\ [][DialogNext]_dialogVars

-----------------------------------------------------------------------------
(* Properties *)

(* A session is forged from what the owner saw: the text that is confirmed *)
(* is the one the dialog showed when confirm was pressed, whatever other   *)
(* devices have saved and however events, polled answers and lost answers  *)
(* met in between.                                                         *)
ConfirmedIsShown == [][forgedText' \notin {forgedText, Blank} => forgedText' = pressed]_dialogVars
=============================================================================
