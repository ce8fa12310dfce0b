------------------------------ MODULE MentiBot ------------------------------
(* The Telegram bot of the mentor: it delivers grade reports, asks the questions of the *)
(* authoring pipeline and takes the mentor's replies to them.                          *)
(*                                                                                     *)
(* One process runs cycles (telegram_bot_cli.run_cycle): a report, a question, then the *)
(* updates Telegram has for it. It keeps one conversation and the ids of the updates it *)
(* has processed in its own database, questions and reports are in the grader's, and    *)
(* messages are at Telegram; every step between these can be the last before a crash.   *)
(* An update is delivered again until a later offset confirms it, and the offset is     *)
(* lost with the process.                                                              *)
EXTENDS Naturals, Sequences, FiniteSets

CONSTANTS
    Questions,   \* clarifications, numbered in the order in which they are asked
    MaxTrouble   \* bound: commands, messages that answer no prompt, failed requests, lost
                 \* answers and deaths of the bot, taken together

ASSUME MentiAssumption ==
    /\ Questions \subseteq Nat \ {0} /\ IsFiniteSet(Questions)
    /\ MaxTrouble \in Nat

VARIABLES
    status,      \* clarifications.status of each question
    answer,      \* clarifications.answer: the update it came with, or 0
    report,      \* one row of mentor_notifications
    delivered,   \* how often the report has reached the mentor
    prompts,     \* the questions in the prompts sent, by message id
    updates,     \* what was written to the bot, by update id
    confirmed,   \* Telegram has forgotten the updates up to this one
    processed,   \* processed_updates
    conv,        \* the row of conversations
    bot,         \* the process: where it is, its offset, and its batch of updates
    mishaps

grader == <<status, answer>>
notes == <<report, delivered>>
telegram == <<prompts, updates, confirmed>>
mentiVars == <<grader, notes, telegram, processed, conv, bot, mishaps>>

NoConv == [q |-> 0, prompt |-> 0, state |-> "none"]
BotDown == [pc |-> "down", offset |-> 0, next |-> 0, last |-> 0]
Commands == {"start", "cancel", "chatter"}

MentiInit ==
    /\ status = [q \in Questions |-> "unasked"] /\ answer = [q \in Questions |-> 0]
    /\ report = "absent" /\ delivered = 0
    /\ prompts = <<>> /\ updates = <<>> /\ confirmed = 0
    /\ processed = {} /\ conv = NoConv
    /\ bot = BotDown /\ mishaps = 0

-----------------------------------------------------------------------------
(* Control of the bot. *)

BotAt(pc) == bot.pc = pc
BotGoto(pc) == bot' = [bot EXCEPT !.pc = pc]
Count(kinds) == Cardinality({i \in DOMAIN updates : updates[i].kind \in kinds})
Trouble == mishaps + Count(Commands) < MaxTrouble
Mishap == Trouble /\ mishaps' = mishaps + 1

\* A TelegramApiError ends the cycle: the offset is that of the last complete one.
NextCycle == [BotDown EXCEPT !.pc = "report", !.offset = bot.offset]
EndCycle == bot' = NextCycle
Interrupted == Mishap /\ EndCycle

BotStarts ==
    /\ BotAt("down") /\ EndCycle
    /\ UNCHANGED <<grader, notes, telegram, processed, conv, mishaps>>

BotDies ==
    /\ ~ BotAt("down")
    /\ Mishap /\ bot' = BotDown
    /\ UNCHANGED <<grader, notes, telegram, processed, conv>>

-----------------------------------------------------------------------------
(* sync_mentor_notification. *)

\* Mutant: only queued reports are claimed.
ReportClaimable_Queued == report = "queued"

ReportClaimable == report \in {"queued", "expired"}

ClaimReport ==
    /\ BotAt("report")
    /\ IF ReportClaimable THEN report' = "delivering" /\ BotGoto("deliver")
                          ELSE UNCHANGED report /\ BotGoto("sync")
    /\ UNCHANGED <<grader, delivered, telegram, processed, conv, mishaps>>

\* A failed request releases the report and ends the cycle, also when it was carried out.
ReleaseReport == report' = "queued"
DeliverReport ==
    /\ BotAt("deliver")
    /\ \/ delivered' = delivered + 1 /\ BotGoto("delivered") /\ UNCHANGED <<report, mishaps>>
       \/ delivered' \in {delivered, delivered + 1} /\ ReleaseReport /\ Interrupted
    /\ UNCHANGED <<grader, telegram, processed, conv>>

MarkSent ==
    /\ BotAt("delivered")
    /\ report' = "sent" /\ BotGoto("sync")
    /\ UNCHANGED <<grader, delivered, telegram, processed, conv, mishaps>>

-----------------------------------------------------------------------------
(* sync_pending_clarification and send_clarification. *)

Pending == {q \in Questions : status[q] = "pending"}
OldestQuestion == CHOOSE q \in Pending : \A p \in Pending : q <= p

\* Mutant: a paused conversation does not count, its question is sent again.
Waiting_Active == conv.q = OldestQuestion /\ conv.state = "active"

\* The question is in the conversation already, active or paused.
Waiting == conv.q = OldestQuestion

SyncQuestion ==
    /\ BotAt("sync")
    /\ IF Pending = {} \/ Waiting THEN BotGoto("poll") ELSE BotGoto("prompt")
    /\ UNCHANGED <<grader, notes, telegram, processed, conv, mishaps>>

\* What is sent: the oldest question, or with /start the one of the conversation.
InBatch == bot.next # 0
Shown == IF InBatch THEN conv.q ELSE OldestQuestion

SendPrompt ==
    /\ BotAt("prompt")
    /\ \/ prompts' = Append(prompts, Shown) /\ BotGoto("activate") /\ UNCHANGED mishaps
       \/ prompts' \in {prompts, Append(prompts, Shown)} /\ Interrupted
    /\ UNCHANGED <<grader, notes, updates, confirmed, processed, conv>>

\* The bot goes on with its batch of updates, or is through with it.
AfterUpdate ==
    IF bot.next < bot.last THEN [bot EXCEPT !.pc = "handle", !.next = @ + 1]
    ELSE [NextCycle EXCEPT !.offset = bot.last]

Activate ==
    /\ BotAt("activate")
    /\ conv' = [q |-> prompts[Len(prompts)], prompt |-> Len(prompts), state |-> "active"]
    /\ IF InBatch THEN bot' = AfterUpdate ELSE BotGoto("poll")
    /\ UNCHANGED <<grader, notes, telegram, processed, mishaps>>

-----------------------------------------------------------------------------
(* get_updates and handle_update. *)

\* Updates below the offset are confirmed; without an offset all others come again.
Poll ==
    /\ BotAt("poll")
    /\ confirmed' = IF bot.offset > confirmed THEN bot.offset ELSE confirmed
    /\ bot' = IF confirmed' = Len(updates) THEN NextCycle
              ELSE [bot EXCEPT !.pc = "handle", !.next = confirmed' + 1, !.last = Len(updates)]
    /\ UNCHANGED <<grader, notes, prompts, updates, processed, conv, mishaps>>

PollFails ==
    /\ BotAt("poll") /\ Interrupted
    /\ UNCHANGED <<grader, notes, telegram, processed, conv>>

Current == updates[bot.next]
Handling(kind) == BotAt("handle") /\ Current.kind = kind
Handled == bot.next \in processed
MarkProcessed == processed' = processed \cup {bot.next}

Duplicate ==
    /\ BotAt("handle") /\ Handled
    /\ bot' = AfterUpdate
    /\ UNCHANGED <<grader, notes, telegram, processed, conv, mishaps>>

\* /cancel: the pause comes before the mark.
Pause ==
    /\ Handling("cancel") /\ ~ Handled
    /\ conv' = IF conv.state = "active" THEN [conv EXCEPT !.state = "paused"] ELSE conv
    /\ BotGoto("mark")
    /\ UNCHANGED <<grader, notes, telegram, processed, mishaps>>

\* /start: the mark comes before the prompt.
Resume ==
    /\ Handling("start") /\ ~ Handled
    /\ MarkProcessed
    /\ IF conv = NoConv THEN BotGoto("acknowledge") ELSE BotGoto("prompt")
    /\ UNCHANGED <<grader, notes, telegram, conv, mishaps>>

\* Mutant: any reply is taken for a reply to the current prompt.
Replies_Any(p) == Current.kind = "reply"

Replies(p) == Current.kind = "reply" /\ Current.to = p

\* A message that answers no open prompt: a notice, and none if no question is active.
Decline ==
    /\ BotAt("handle") /\ ~ Handled /\ Current.kind \in {"reply", "chatter"}
    /\ conv.state # "active" \/ ~ Replies(conv.prompt)
    /\ MarkProcessed
    /\ IF conv.state # "active" THEN bot' = AfterUpdate ELSE BotGoto("acknowledge")
    /\ UNCHANGED <<grader, notes, telegram, conv, mishaps>>

\* Mutant: an update is marked before its answer is stored.
Take_MarksFirst ==
    /\ BotAt("handle")
    /\ conv.state = "active" /\ Replies(conv.prompt)
    /\ IF ~ Handled THEN MarkProcessed /\ UNCHANGED <<grader, bot>>
       ELSE /\ status' = [status EXCEPT ![conv.q] = "answered"]
            /\ answer' = [answer EXCEPT ![conv.q] = bot.next]
            /\ BotGoto("mark") /\ UNCHANGED processed
    /\ UNCHANGED <<notes, telegram, conv, mishaps>>

\* answer_clarification: the first answer stays.
Take ==
    /\ BotAt("handle") /\ ~ Handled
    /\ conv.state = "active" /\ Replies(conv.prompt)
    /\ IF status[conv.q] = "pending"
       THEN /\ status' = [status EXCEPT ![conv.q] = "answered"]
            /\ answer' = [answer EXCEPT ![conv.q] = bot.next]
       ELSE UNCHANGED grader
    /\ BotGoto("mark")
    /\ UNCHANGED <<notes, telegram, processed, conv, mishaps>>

Mark ==
    /\ BotAt("mark")
    /\ MarkProcessed
    /\ BotGoto(IF Current.kind = "reply" THEN "clear" ELSE "acknowledge")
    /\ UNCHANGED <<grader, notes, telegram, conv, mishaps>>

\* clear_exact, whether the answer was accepted or came too late.
Clear ==
    /\ BotAt("clear")
    /\ conv' = NoConv /\ BotGoto("acknowledge")
    /\ UNCHANGED <<grader, notes, telegram, processed, mishaps>>

Acknowledge ==
    /\ BotAt("acknowledge")
    /\ \/ bot' = AfterUpdate /\ UNCHANGED mishaps
       \/ Interrupted
    /\ UNCHANGED <<grader, notes, telegram, processed, conv>>

Cycle ==
    \/ BotStarts \/ ClaimReport \/ DeliverReport \/ MarkSent
    \/ SyncQuestion \/ SendPrompt \/ Activate
    \/ Poll \/ Duplicate \/ Pause \/ Resume \/ Decline \/ Take \/ Mark \/ Clear \/ Acknowledge

-----------------------------------------------------------------------------
(* Outside the bot: the grader, the clock, the mentor. *)

Pose(q) ==
    /\ status[q] = "unasked" /\ \A p \in Questions : p < q => status[p] # "unasked"
    /\ status' = [status EXCEPT ![q] = "pending"]
    /\ UNCHANGED <<answer, notes, telegram, processed, conv, bot, mishaps>>

Report ==
    /\ report = "absent" /\ report' = "queued"
    /\ UNCHANGED <<grader, delivered, telegram, processed, conv, bot, mishaps>>

\* The lease of a report that nobody is delivering any more runs out.
Expire ==
    /\ report = "delivering" /\ ~ BotAt("deliver") /\ ~ BotAt("delivered")
    /\ report' = "expired"
    /\ UNCHANGED <<grader, delivered, telegram, processed, conv, bot, mishaps>>

\* "chatter" is what answers no prompt: no reply, no text, or not from the mentor.
Write(u) ==
    /\ updates' = Append(updates, u)
    /\ UNCHANGED <<grader, notes, prompts, confirmed, processed, conv, bot, mishaps>>

Message(kind) == [kind |-> kind, to |-> 0]
InFlight(kind) == \E i \in DOMAIN updates \ processed : updates[i].kind = kind

Reply(p) ==
    /\ p \in DOMAIN prompts /\ \A i \in DOMAIN updates : updates[i].to # p
    /\ Write([kind |-> "reply", to |-> p])
Command(kind) == Trouble /\ Write(Message(kind))
Continue == conv.state = "paused" /\ ~ InFlight("start") /\ Write(Message("start"))

MentiNext ==
    \/ Cycle \/ PollFails \/ BotDies
    \/ (\E q \in Questions : Pose(q)) \/ Report \/ Expire
    \/ (\E p \in DOMAIN prompts : Reply(p)) \/ (\E kind \in Commands : Command(kind)) \/ Continue

MentiSpec == MentiInit /\ [][MentiNext]_mentiVars

\* The bot is restarted and goes on; leases run out; the mentor replies to every prompt
\* in the end, and to a pause with /start.
MentiFairness ==
    /\ WF_mentiVars(Cycle) /\ WF_mentiVars(Expire) /\ WF_mentiVars(Continue)
    /\ \A p \in 1..Cardinality(Questions) + 2 * MaxTrouble : WF_mentiVars(Reply(p))

-----------------------------------------------------------------------------
(* Properties. *)

\* Types, and the order of the ids: the offset stays within what was written, and a batch
\* begins behind what is confirmed.
MentiTypeOK ==
    /\ status \in [Questions -> {"unasked", "pending", "answered"}]
    /\ answer \in [Questions -> {0} \cup DOMAIN updates]
    /\ report \in {"absent", "queued", "delivering", "expired", "sent"}
    /\ prompts \in Seq(Questions)
    /\ conv \in [q : Questions, prompt : DOMAIN prompts, state : {"active", "paused"}]
               \cup {NoConv}
    /\ bot.offset <= Len(updates) /\ bot.last <= Len(updates) /\ confirmed <= Len(updates)
    /\ InBatch => confirmed < bot.next /\ bot.next <= bot.last

\* The answer of a question was written as a reply to a prompt that showed this question,
\* although prompts are sent again and replies arrive late, repeatedly or after a crash.
AnswerIsToItsQuestion ==
    \A q \in Questions : status[q] = "answered" =>
        updates[answer[q]].kind = "reply" /\ prompts[updates[answer[q]].to] = q

\* A reply to the prompt of the active conversation is not dropped: once processed, its
\* question is answered. Telegram is told to forget processed updates only. A report that
\* counts as sent has been delivered.
NothingLost ==
    /\ conv.state = "active" =>
        \A u \in processed : updates[u].to = conv.prompt => status[conv.q] = "answered"
    /\ 1..confirmed \subseteq processed
    /\ report = "sent" => delivered > 0

\* Without faults the mentor gets a report once, and a question once and at every /start
\* (tests/test_grader_menti_bot.py:61 and 109).
NoNeedlessMessage ==
    /\ delivered <= 1 + mishaps
    /\ Len(prompts) <= Cardinality({q \in Questions : status[q] # "unasked"})
                       + Count({"start"}) + mishaps

\* Every report is delivered and every question is answered in the end, with crashes,
\* lost answers, pauses and prompts that the bot has sent but does not know.
MentorIsServed ==
    /\ report = "queued" ~> report = "sent"
    /\ \A q \in Questions : status[q] = "pending" ~> status[q] = "answered"
=============================================================================
