------------------------ MODULE ConversationContext ------------------------
(***************************************************************************)
(* The context of one session across its turns: app/context/turn.py,       *)
(* window.py, slots.py and summary/*.py, run by security_node and          *)
(* respond_node of app/graph/nodes.py.                                     *)
(*                                                                         *)
(* security_node appends the user's message.  respond_node appends the     *)
(* reply and, when the history no longer fits, grades the turns: some stay *)
(* in the window, the others leave it and their facts are folded into the  *)
(* rolling summary, by the LLM or by the rules.  The window then still     *)
(* sheds turns, oldest first, until it fits.  What stays is archived, and  *)
(* a patch of removals and replacements turns the checkpoint's messages    *)
(* into the same list.                                                     *)
(*                                                                         *)
(* A message, the user's as well as a reply, says at most one thing the    *)
(* summary records.  Its score (summary/scoring.py) is arbitrary: any old  *)
(* turn may be discarded, summarised or kept; so is the slot an answered   *)
(* turn leaves, and what the model makes of a summary.  Courses are        *)
(* recorded like orders and intent is a label the slots overwrite: both    *)
(* are left out.                                                           *)
(***************************************************************************)
EXTENDS Positions

CONSTANTS
    Order,        \* order numbers
    Reviewing,    \* the two conclusions on a refund, which exclude
    Refunded,     \*   each other
    Topic,        \* labels without rivals: shipped, asks for the price, ...
    Asks,         \* asks for an order number
    Waits,        \* other open points: a course to name, a human to come
    Nothing,      \* says nothing the summary records, no order number
    Queries,      \* what users may say
    Replies,      \* what replies may say
    Answers,      \* what the model may answer when asked for a summary
    Budget,       \* history_token_budget
    MaxMessages,  \* history_max_messages
    KeepRecent,   \* context_always_keep_recent
    LongCost,     \* tokens of a long course reply; any other message costs 1
    OrderCap,     \* orders the summary holds
    ConfirmedCap, \* labels the summary holds
    PendingCap,   \* open points the summary holds
    MaxItems,     \* session_summary_max_chars, in items
    MaxTurns      \* bound on turns

Conclusion == {Reviewing, Refunded}
Label == Conclusion \union Topic
Point == {Asks} \union Waits
Says == Order \union Label \union Point \union {Nothing}
NoId == 0

StructuredSummary == [orders : Seq(Order), confirmed : Seq(Label), pending : Seq(Point)]

ASSUME ContextAssumption ==
    /\ IsFiniteSet(Order) /\ IsFiniteSet(Topic) /\ IsFiniteSet(Waits)
    /\ Reviewing # Refunded /\ Nothing \notin Order \union Label \union Point
    /\ Order \cap (Label \union Point) = {} /\ Label \cap Point = {}
    /\ Queries \subseteq Says /\ Replies \subseteq Says /\ Nothing \in Replies
    /\ Answers \subseteq StructuredSummary
    /\ {Budget, MaxMessages, KeepRecent, LongCost, OrderCap, ConfirmedCap, PendingCap}
          \subseteq Nat \ {0}
    /\ KeepRecent =< MaxMessages
    /\ MaxItems \in Nat /\ MaxItems >= 3 /\ MaxTurns \in Nat /\ MaxTurns >= 2

VARIABLES
    messages,  \* the messages of the checkpoint
    summary,   \* its session_summary
    slot,      \* its last_order_no
    archive,   \* the session's row: messages, summary, last_order_no
    turn,      \* "none", or what security_node made of the query
    turns,     \* turns begun, the two archived ones first; ids follow it
    named,     \* history: orders named in the messages of answered turns
    shadowed,  \* history: orders whose message left while the slot held them
    asked,     \* history: an order number was asked for, and none known since
    settled,   \* history: the newest message that stated a conclusion
    overruled, \* history: the model answered the opposite since that was folded
    crowded,   \* history: the summary had to record more than its caps
    gone,      \* history: ids of the messages that left
    inverted   \* history: a message left after a newer one had

vars == <<messages, summary, slot, archive, turn, turns,
          named, shadowed, asked, settled, overruled, crowded, gone, inverted>>
histories == <<named, shadowed, asked, settled, overruled, crowded, gone, inverted>>

----------------------------------------------------------------------------
(* StructuredSummary *)

EmptySummary == [orders |-> <<>>, confirmed |-> <<>>, pending |-> <<>>]

RivalsOf(label) == IF label \in Conclusion THEN Conclusion \ {label} ELSE {}

(* The later of equal and of rival labels stays.                           *)
Overtaken(labels, i) ==
    \E j \in i + 1 .. Len(labels) : labels[j] \in RivalsOf(labels[i]) \union {labels[i]}
ExclusiveSequence(labels) == Pick(labels, {i \in DOMAIN labels : ~Overtaken(labels, i)})

(* Mutant: the open points are not capped.                                 *)
Bug_Merge(a, b) ==
    [orders    |-> Newest(ExclusiveSequence(a.orders \o b.orders), OrderCap),
     confirmed |-> Newest(ExclusiveSequence(a.confirmed \o b.confirmed), ConfirmedCap),
     pending   |-> ExclusiveSequence(a.pending \o b.pending)]

Merge(a, b) ==
    [orders    |-> Newest(ExclusiveSequence(a.orders \o b.orders), OrderCap),
     confirmed |-> Newest(ExclusiveSequence(a.confirmed \o b.confirmed), ConfirmedCap),
     pending   |-> Newest(ExclusiveSequence(a.pending \o b.pending), PendingCap)]

(* An order number closes the question for one.                            *)
Closed(s, order) == s.orders # <<>> \/ order # Nothing

Resolve(s, order) ==
    [orders    |-> s.orders,
     confirmed |-> Newest(ExclusiveSequence(s.confirmed), ConfirmedCap),
     pending   |-> Pick(s.pending, {i \in DOMAIN s.pending : ~(Closed(s, order) /\ s.pending[i] = Asks)})]

Items(s) == Len(s.orders) + Len(s.confirmed) + Len(s.pending)

(* Too long a summary loses its oldest labels, then its oldest open        *)
(* points, then its oldest orders, never the last of any.                  *)
Render(s) ==
    LET over == Most(0, Items(s) - MaxItems)
        fewer == Least(over, Most(0, Len(s.confirmed) - 1))
        closed == Least(over - fewer, Most(0, Len(s.pending) - 1))
        less == Least(over - fewer - closed, Most(0, Len(s.orders) - 1))
    IN  [orders    |-> Newest(s.orders, Len(s.orders) - less),
         confirmed |-> Newest(s.confirmed, Len(s.confirmed) - fewer),
         pending   |-> Newest(s.pending, Len(s.pending) - closed)]

Finalize(s, order) == Render(Resolve(s, order))

(* The facts of the messages, merged one message after the other; an order *)
(* the slot holds is not recorded.                                         *)
ExtractFacts(overflow, order) ==
    LET says == [i \in DOMAIN overflow |-> overflow[i].says]
        facts == [orders    |-> Pick(says, {i \in DOMAIN says : says[i] \in Order \ {order}}),
                  confirmed |-> Pick(says, {i \in DOMAIN says : says[i] \in Label}),
                  pending   |-> Pick(says, {i \in DOMAIN says : says[i] \in Point})]
    IN  Resolve(Merge(EmptySummary, facts), order)

(* Mutant: the recorded facts are merged after the new ones.               *)
Bug_FoldSummary(s, overflow, order) == Finalize(Merge(ExtractFacts(overflow, order), s), order)

FoldSummary(s, overflow, order) == Finalize(Merge(s, ExtractFacts(overflow, order)), order)

(* Mutant: the model's answer is merged after the rules' facts.            *)
Bug_LlmSummaries(s, overflow, order) ==
    LET delta == ExtractFacts(overflow, order)
    IN  {[answer |-> EmptySummary, summary |-> FoldSummary(s, overflow, order)]} \union
        {[answer |-> a, summary |-> Finalize(Merge(Merge(s, delta), a), order)] : a \in Answers}

(* The call fails, answers nothing or is not made: the rules fold.         *)
(* Otherwise the rules' own facts are merged after the model's, whatever   *)
(* orders, labels and points it lists.                                     *)
LlmSummaries(s, overflow, order) ==
    LET delta == ExtractFacts(overflow, order)
    IN  {[answer |-> EmptySummary, summary |-> FoldSummary(s, overflow, order)]} \union
        {[answer |-> a, summary |-> Finalize(Merge(Merge(s, a), delta), order)] : a \in Answers}

----------------------------------------------------------------------------
(* Window, turns, grades *)

Compact(m) == [m EXCEPT !.long = FALSE]
CompactAll(ms) == [i \in DOMAIN ms |-> Compact(ms[i])]
Cost(ms, P) == Cardinality(P) + (LongCost - 1) * Cardinality({i \in P : ms[i].long})
Ids(ms) == {m.id : m \in Range(ms)}
IdsAt(ms, P) == {ms[i].id : i \in P}
LongAt(ms, P) == {i \in P : ms[i].long}

(* A turn, the set of its positions, opens with the user's message after a *)
(* reply; replies before any user message are turns of their own.          *)
OpensTurn(ms, i) ==
    \/ i = 1
    \/ ms[i].human /\ ~ms[i - 1].human
    \/ ~ms[i].human /\ \A j \in 1 .. i - 1 : ~ms[j].human

PartitionTurns(ms) ==
    LET opens == {i \in DOMAIN ms : OpensTurn(ms, i)}
        turnAt(o) == {i \in o .. Len(ms) : \A j \in o + 1 .. i : j \notin opens}
    IN  {turnAt(o) : o \in opens}

(* From the newest turn of the window back, as long as the turns fit, and  *)
(* at least KeepRecent messages.  The loop stops at the newest turn that   *)
(* Stops; so do all the older ones.                                        *)
KeptByBudget(ms, window, ts, s) ==
    LET rest == Most(1, Budget - Items(s))
        minKeep == Least(KeepRecent, Cardinality(window))
        from(T) == {j \in window : \E i \in T : i =< j}
        after(T) == {j \in window : \A i \in T : i < j}
        stops(T) == Cost(ms, from(T)) > rest /\ Cardinality(after(T)) >= minKeep
    IN  window \ UNION {T \in ts : T \subseteq window /\ stops(T)}

Fits(ms, s) == Cost(ms, DOMAIN ms) + Items(s) =< Budget /\ Len(ms) =< MaxMessages

(* Mutant: a turn is recent by its first message, not by its last.         *)
Bug_MayLeave(ms, ts) == {T \in ts : \E i \in T : i =< Len(ms) - KeepRecent}

(* Every turn that holds one of the KeepRecent newest messages is kept.    *)
MayLeave(ms, ts) == {T \in ts : \A i \in T : i =< Len(ms) - KeepRecent}

(* The score of an older turn may discard it, summarise it or keep it: any *)
(* set of them may leave.                                                  *)
ScoredOut(ts) == SUBSET ts

(* CompressResult: the positions of the window, the ids of the messages    *)
(* compacted in it, the messages that leave, in the order in which their   *)
(* facts are folded, what the model answered, and the summary.             *)
Unchanged(ms) ==
    [kept |-> DOMAIN ms, updated |-> IdsAt(ms, LongAt(ms, DOMAIN ms)), left |-> <<>>,
     answer |-> EmptySummary, summary |-> Finalize(summary, slot)]

(* Mutant: a compacted message that leaves the window is still replaced.   *)
Bug_Compressed(ms, ts, out) ==
    LET window == DOMAIN ms \ UNION out
        short == CompactAll(ms)
        first == KeptByBudget(short, window, ts, summary)
        overflow == Pick(ms, UNION out) \o Pick(ms, window \ first)
        finish(llm) ==
            LET s == llm.summary
                second == KeptByBudget(short, first, ts, s)
                extra == Pick(ms, first \ second)
            IN  [kept |-> second,
                 updated |-> IdsAt(ms, LongAt(ms, window)),
                 left |-> overflow \o extra,
                 answer |-> llm.answer,
                 summary |-> Finalize(IF extra = <<>> THEN s ELSE FoldSummary(s, extra, slot), slot)]
    IN  {finish(llm) : llm \in IF overflow = <<>> THEN {[answer |-> EmptySummary, summary |-> summary]}
                               ELSE LlmSummaries(summary, overflow, slot)}

(* The turns graded out leave; the rest, compacted, is split by the budget *)
(* with the old summary, and again with the new one.                       *)
Compressed(ms, ts, out) ==
    LET window == DOMAIN ms \ UNION out
        short == CompactAll(ms)
        first == KeptByBudget(short, window, ts, summary)
        overflow == Pick(ms, UNION out) \o Pick(ms, window \ first)
        finish(llm) ==
            LET s == llm.summary
                second == KeptByBudget(short, first, ts, s)
                extra == Pick(ms, first \ second)
            IN  [kept |-> second,
                 updated |-> IdsAt(ms, LongAt(ms, window)) \ IdsAt(ms, window \ second),
                 left |-> overflow \o extra,
                 answer |-> llm.answer,
                 summary |-> Finalize(IF extra = <<>> THEN s ELSE FoldSummary(s, extra, slot), slot)]
    IN  {finish(llm) : llm \in IF overflow = <<>> THEN {[answer |-> EmptySummary, summary |-> summary]}
                               ELSE LlmSummaries(summary, overflow, slot)}

CompressByImportance(ms) ==
    IF Fits(ms, summary) THEN {Unchanged(ms)}
    ELSE LET ts == PartitionTurns(ms)
         IN  UNION {Compressed(ms, ts, out) : out \in ScoredOut(MayLeave(ms, ts))}

(* External: add_messages.  A message replaced after its removal stays;    *)
(* the new one gets an id.                                                 *)
AddMessages(ms, removed, replaced, new) ==
    LET patched == [i \in DOMAIN ms |-> IF ms[i].id \in replaced THEN Compact(ms[i]) ELSE ms[i]]
    IN  Append(Pick(patched, {i \in DOMAIN ms : ms[i].id \notin removed \ replaced}), new)

(* The patch: removals, then compacted replacements, then the reply.       *)
BuildMessageUpdates(ms, result, reply) ==
    AddMessages(ms, Ids(result.left), result.updated \ {NoId}, reply)

----------------------------------------------------------------------------
(* Actions *)

Message(id, human, says) == [id |-> id, human |-> human, long |-> FALSE, says |-> says]
LongReply(id) == [id |-> id, human |-> FALSE, long |-> TRUE, says |-> Nothing]

(* A new session, or one restored from a row written before course replies *)
(* were stored compacted, whose summary records an order.                  *)
Restored == <<Message(1, TRUE, Nothing), LongReply(2), Message(3, TRUE, Nothing), LongReply(4)>>

Init ==
    /\ \/ messages = <<>> /\ summary = EmptySummary
       \/ messages = Restored /\ \E order \in Order : summary = [EmptySummary EXCEPT !.orders = <<order>>]
    /\ slot = Nothing
    /\ archive = [messages |-> messages, summary |-> summary, slot |-> slot]
    /\ turn = "none" /\ turns = 2
    /\ named = Range(summary.orders) /\ shadowed = {} /\ asked = FALSE
    /\ settled = [id |-> NoId, says |-> Nothing] /\ overruled = FALSE
    /\ crowded = FALSE /\ gone = {} /\ inverted = FALSE

(* security_node lets the query through.  The slot the turn ends with is   *)
(* any: the agents take the order the query, the history or the user's     *)
(* profile names, keep the one they have, or clear one that is not the     *)
(* user's.                                                                 *)
Ask ==
    /\ turn = "none" /\ turns < MaxTurns
    /\ \E says \in Queries :
        messages' = Append(messages, Message(2 * turns + 1, TRUE, says))
    /\ slot' \in Order \union {Nothing}
    /\ turn' = "asked" /\ turns' = turns + 1
    /\ UNCHANGED <<summary, archive, histories>>

(* security_node blocks the query: the turn has only the refusal.          *)
Block ==
    /\ turn = "none" /\ turns < MaxTurns
    /\ turn' = "blocked" /\ turns' = turns + 1
    /\ UNCHANGED <<messages, summary, slot, archive, histories>>

(* The turn fails before respond_node: the user's message stays.           *)
Abort ==
    /\ turn # "none"
    /\ turn' = "none"
    /\ UNCHANGED <<messages, summary, slot, archive, turns, histories>>

Said(ms) == {m.says : m \in Range(ms)}

(* The summary has to record more than it may hold: what it has, what the  *)
(* model adds and what the messages that leave say, each counted once.     *)
Overfull(left, answer) ==
    LET orders == Range(summary.orders) \union Range(answer.orders)
                    \union (Said(left) \cap (Order \ {slot}))
        labels == Range(summary.confirmed) \union Range(answer.confirmed)
                    \union (Said(left) \cap Label)
        points == Range(summary.pending) \union Range(answer.pending)
                    \union (Said(left) \cap Point)
    IN  \/ Cardinality(orders) > OrderCap
        \/ Cardinality(labels) > ConfirmedCap
        \/ Cardinality(points) > PendingCap
        \/ Cardinality(orders) + Cardinality(labels) + Cardinality(points) > MaxItems

(* The newest message that states a conclusion, if one does since the      *)
(* settled one.                                                            *)
Settles(ms) ==
    {[id |-> ms[i].id, says |-> ms[i].says] : i \in
        {i \in DOMAIN ms : ms[i].says \in Conclusion /\ ms[i].id > settled.id
                            /\ \A j \in i + 1 .. Len(ms) : ms[j].says \notin Conclusion}}

(* The model's answer contradicts what the newest conclusion says.         *)
Contradicts(answer) == RivalsOf(settled.says) \cap Range(answer.confirmed) # {}

(* A message leaves after a newer one has.                                 *)
Inverts(left) ==
    \/ \E id \in Ids(left) : \E newer \in gone : id < newer
    \/ \E i, j \in DOMAIN left : i < j /\ left[j].id < left[i].id

(* The session's row: the window with the reply, the summary, the slot.    *)
ArchiveRow(ms, result, stored) ==
    LET row == [i \in DOMAIN ms |-> IF ms[i].id = NoId THEN stored ELSE Compact(ms[i])]
    IN  [messages |-> Pick(row, result.kept), summary |-> result.summary, slot |-> slot]

(* respond_node: the reply is stored, the history compressed, the window   *)
(* archived and the patch applied.  That write does not fail here:         *)
(* SessionTurn has its failures.                                           *)
Respond ==
    /\ turn # "none"
    /\ \E says \in IF turn = "blocked" THEN {Nothing} ELSE Replies :
        LET reply == Message(NoId, FALSE, says)
            stored == [reply EXCEPT !.id = 2 * turns]
            history == Append(messages, reply)
        IN \E result \in CompressByImportance(history) :
            /\ messages' = BuildMessageUpdates(messages, result, stored)
            /\ summary' = result.summary
            /\ archive' = ArchiveRow(history, result, stored)
            /\ asked' = /\ asked \/ Asks \in Said(history)
                        /\ ~Closed(result.summary, slot)
            /\ named' = named \union (Said(history) \cap Order)
            /\ settled' = IF Settles(Append(messages, stored)) = {} THEN settled
                          ELSE CHOOSE c \in Settles(Append(messages, stored)) : TRUE
            /\ overruled' = /\ overruled \/ Contradicts(result.answer)
                            /\ Said(result.left) \cap Conclusion = {}
            /\ shadowed' = shadowed \union (Said(result.left) \cap {slot} \cap Order)
            /\ crowded' = (crowded \/ Overfull(result.left, result.answer))
            /\ gone' = gone \union Ids(result.left)
            /\ inverted' = (inverted \/ Inverts(result.left))
    /\ turn' = "none"
    /\ UNCHANGED <<slot, turns>>

(* The checkpoint expires; the next turn restores it from the row.         *)
Expire ==
    /\ turn = "none"
    /\ messages' = archive.messages /\ summary' = archive.summary /\ slot' = archive.slot
    /\ UNCHANGED <<archive, turn, turns, histories>>

Next == Ask \/ Block \/ Abort \/ Respond \/ Expire

Spec == Init /\ [][Next]_vars

----------------------------------------------------------------------------
(* Properties *)

StoredMessage == [id : Nat \ {NoId}, human : BOOLEAN, long : BOOLEAN, says : Says]
WithinCaps(s) ==
    /\ Len(s.orders) =< OrderCap /\ Len(s.confirmed) =< ConfirmedCap
    /\ Len(s.pending) =< PendingCap /\ Items(s) =< MaxItems

TypeOK ==
    /\ messages \in Seq(StoredMessage)
    /\ archive \in [messages : Seq(StoredMessage), summary : StructuredSummary,
                    slot : Order \union {Nothing}]
    /\ summary \in StructuredSummary
    /\ WithinCaps(summary) /\ WithinCaps(archive.summary)
    /\ slot \in Order \union {Nothing}
    /\ turns \in 2 .. MaxTurns /\ turn \in {"none", "asked", "blocked"}
    /\ named \subseteq Order /\ shadowed \subseteq Order /\ gone \subseteq Nat
    /\ settled \in [id : Nat, says : Conclusion \union {Nothing}]
    /\ {asked, overruled, crowded, inverted} \subseteq BOOLEAN

(* The patch respond_node returns and the window it archives agree: the    *)
(* checkpoint holds the archived messages, in that order and compacted     *)
(* alike, followed only by user messages that have no reply yet.  A        *)
(* session restored from its row continues as the checkpoint would have.   *)
CheckpointMatchesArchive ==
    LET n == Len(archive.messages)
    IN  /\ Len(messages) >= n /\ SubSeq(messages, 1, n) = archive.messages
        /\ \A i \in n + 1 .. Len(messages) : messages[i].human
        /\ summary = archive.summary

Shown == Said(archive.messages)

(* What leaves the window survives in the summary.  As long as the summary *)
(* never had to record more than its caps allow, every order named in an   *)
(* answered turn is in the window or the summary, unless its message left  *)
(* while the slot held it; a request for an order number is too until an   *)
(* order is known; and, if messages left oldest first, the last conclusion *)
(* on the refund, the user's or a reply's, is in the summary once it has   *)
(* left the window and the summary does not contradict it, unless the      *)
(* model has answered the opposite since.                                  *)
NothingForgotten ==
    ~crowded =>
        /\ named \subseteq Shown \union Range(archive.summary.orders) \union shadowed
        /\ asked => Asks \in Shown \union Range(archive.summary.pending)
        /\ ~inverted /\ ~overruled /\ settled.says # Nothing
             /\ settled.id \notin Ids(archive.messages) =>
              /\ settled.says \in Range(archive.summary.confirmed)
              /\ RivalsOf(settled.says) \cap Range(archive.summary.confirmed) = {}

(* The newest message of the history that leaves and says one of S.        *)
Leaves(i) == messages[i].id \in gone' \ gone
NewestLeaving(i, S) ==
    /\ Leaves(i) /\ messages[i].says \in S
    /\ \A j \in i + 1 .. Len(messages) : Leaves(j) => messages[j].says \notin S

(* Whatever the model answers and however full the summary is: of the      *)
(* messages that leave in a turn, the newest label is recorded and nothing *)
(* that contradicts it is, the newest order is unless the slot holds it,   *)
(* and so is the newest open point unless an order number closes it.  So   *)
(* the rules' facts are never overturned nor crowded out by the model's    *)
(* answer of the same turn.                                                *)
NewestFactKept ==
    [][ ~inverted' => \A i \in DOMAIN messages :
        /\ NewestLeaving(i, Label) =>
              /\ messages[i].says \in Range(summary'.confirmed)
              /\ RivalsOf(messages[i].says) \cap Range(summary'.confirmed) = {}
        /\ NewestLeaving(i, Order \ {slot}) => messages[i].says \in Range(summary'.orders)
        /\ NewestLeaving(i, Point) =>
              \/ messages[i].says \in Range(summary'.pending)
              \/ messages[i].says = Asks /\ Closed(summary', slot) ]_vars

(* However the turns are graded and however long the summary grows, the    *)
(* KeepRecent newest messages of the history, the reply included, stay in  *)
(* the window, and the window loses messages only from what it held.       *)
RecentKept ==
    [][ archive' # archive =>
        LET n == Len(archive'.messages)
            recent == Least(KeepRecent, Len(messages) + 1)
        IN  /\ n >= recent
            /\ \A i \in 0 .. recent - 2 :
                  archive'.messages[n - 1 - i].id = messages[Len(messages) - i].id
            /\ Ids(archive'.messages) \subseteq Ids(messages) \union {2 * turns} ]_vars
=============================================================================
