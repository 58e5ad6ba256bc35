------------------------------- MODULE Webhook -------------------------------
(***************************************************************************)
(* internal/webhook: the registry of subscribers and Dispatcher.Fire,      *)
(* which delivers an event to every subscriber that wants it, each from a  *)
(* goroutine of its own with retries, and waits for them all.              *)
(*                                                                         *)
(* A subscriber is its position in the registry.  A failed attempt is a    *)
(* response that is not 2xx, or no response, in which case the subscriber  *)
(* may have processed the event all the same.                              *)
(***************************************************************************)
EXTENDS Naturals, Sequences

CONSTANTS
    Callers,        \* concurrent calls of Fire
    EventTypes,
    MaxAttempts,    \* maxAttempts()
    MaxSubscribers  \* bound on the registry

ASSUME WebhookAssumption ==
    EventTypes # {} /\ MaxAttempts \in Nat \ {0} /\ MaxSubscribers \in Nat

VARIABLES
    subscribers,    \* the Events of every subscriber, in order of registration
    fire,           \* caller -> [pc, event]
    delivery,       \* caller -> subscriber -> [pc, attempts, delivered]
    collected,      \* caller -> deliveries whose statuses it has received
    cancelled,      \* callers whose context is done
    \* History, read by the properties only:
    known,          \* caller -> subscribers registered when it called Fire
    got,            \* caller -> subscribers that processed its event
    late            \* caller -> subscriber -> attempts begun after the cancellation

webhookHistory == <<known, got, late>>
webhookVars == <<subscribers, fire, delivery, collected, cancelled, webhookHistory>>

\* No restriction means every event.
wants(i, e) == subscribers[i] = {} \/ e \in subscribers[i]

Subscribers(e) == {i \in DOMAIN subscribers : wants(i, e)}

Register(es) ==
    /\ Len(subscribers) < MaxSubscribers
    /\ subscribers' = Append(subscribers, es)
    /\ UNCHANGED <<fire, delivery, collected, cancelled, webhookHistory>>

\* Fire takes a copy of the subscribers under the lock and starts one delivery
\* each.  An event that cannot be encoded is one failed attempt for every
\* subscriber, reported at once.
Fire(c, e, encodable) ==
    LET subs == Subscribers(e) IN
    /\ fire[c].pc = "idle"
    /\ fire' = [fire EXCEPT ![c] = [pc |-> IF encodable THEN "collect" ELSE "done", event |-> e]]
    /\ delivery' = [delivery EXCEPT ![c] =
           [i \in subs |-> [pc |-> IF encodable THEN "attempt" ELSE "encode_error",
                           attempts |-> IF encodable THEN 0 ELSE 1, delivered |-> FALSE]]]
    /\ known' = [known EXCEPT ![c] = DOMAIN subscribers]
    /\ late' = [late EXCEPT ![c] = [i \in subs |-> 0]]
    /\ UNCHANGED <<subscribers, collected, cancelled, got>>

OneMore(n) == n > MaxAttempts   \* faulty
exhausted(n) == n = MaxAttempts

\* attempt: one POST.  With a context that is done, the client fails at once.
attempt(c, i) ==
    LET d == delivery[c][i]
        ends(ok) == delivery' = [delivery EXCEPT ![c][i] =
                        [pc |-> IF ok \/ exhausted(d.attempts + 1) THEN "return" ELSE "check",
                         attempts |-> d.attempts + 1, delivered |-> ok]]
        processed == got' = [got EXCEPT ![c] = @ \cup {i}]
    IN  /\ d.pc = "attempt"
        /\ \/ c \notin cancelled /\ ends(TRUE) /\ processed
           \/ c \notin cancelled /\ ends(FALSE) /\ processed
           \/ ends(FALSE) /\ got' = got
        /\ late' = [late EXCEPT ![c][i] = IF c \in cancelled THEN @ + 1 ELSE @]
        /\ UNCHANGED <<subscribers, fire, collected, cancelled, known>>

\* Between two attempts the context is looked at, and only then; the sleep that
\* follows is not interrupted.
NeverCheck(c, i) ==   \* faulty
    /\ delivery[c][i].pc = "check"
    /\ delivery' = [delivery EXCEPT ![c][i].pc = "attempt"]
    /\ UNCHANGED <<subscribers, fire, collected, cancelled, webhookHistory>>
CheckAndBackoff(c, i) ==
    /\ delivery[c][i].pc = "check"
    /\ delivery' = [delivery EXCEPT ![c][i].pc = IF c \in cancelled THEN "return" ELSE "attempt"]
    /\ UNCHANGED <<subscribers, fire, collected, cancelled, webhookHistory>>

\* A delivery puts its statuses into the channel, which has room for all, and
\* Fire takes them out.
CollectDelivered(c, i) ==   \* faulty
    /\ fire[c].pc = "collect"
    /\ delivery[c][i].pc = "return" /\ delivery[c][i].delivered
    /\ i \notin collected[c]
    /\ collected' = [collected EXCEPT ![c] = @ \cup {i}]
    /\ UNCHANGED <<subscribers, fire, delivery, cancelled, webhookHistory>>
Collect(c, i) ==
    /\ fire[c].pc = "collect"
    /\ delivery[c][i].pc = "return"
    /\ i \notin collected[c]
    /\ collected' = [collected EXCEPT ![c] = @ \cup {i}]
    /\ UNCHANGED <<subscribers, fire, delivery, cancelled, webhookHistory>>

ReturnAtFirst(c) ==   \* faulty
    /\ fire[c].pc = "collect"
    /\ DOMAIN delivery[c] # {} => collected[c] # {}
    /\ fire' = [fire EXCEPT ![c].pc = "done"]
    /\ UNCHANGED <<subscribers, delivery, collected, cancelled, webhookHistory>>
Return(c) ==
    /\ fire[c].pc = "collect"
    /\ collected[c] = DOMAIN delivery[c]
    /\ fire' = [fire EXCEPT ![c].pc = "done"]
    /\ UNCHANGED <<subscribers, delivery, collected, cancelled, webhookHistory>>

\* The caller of Fire cancels its context.
Cancel(c) ==
    /\ c \notin cancelled
    /\ cancelled' = cancelled \cup {c}
    /\ UNCHANGED <<subscribers, fire, delivery, collected, webhookHistory>>

Deliver(c) ==
    \E i \in DOMAIN delivery[c] :
        attempt(c, i) \/ CheckAndBackoff(c, i) \/ Collect(c, i)

WebhookNext ==
    \/ \E es \in SUBSET EventTypes : Register(es)
    \/ \E c \in Callers :
           \/ \E e \in EventTypes, encodable \in BOOLEAN : Fire(c, e, encodable)
           \/ Deliver(c)
           \/ Return(c)
           \/ Cancel(c)

WebhookInit ==
    /\ subscribers = <<>>
    /\ fire = [c \in Callers |-> [pc |-> "idle", event |-> CHOOSE e \in EventTypes : TRUE]]
    /\ delivery = [c \in Callers |-> <<>>]
    /\ collected = [c \in Callers |-> {}]
    /\ cancelled = {}
    /\ known = [c \in Callers |-> {}]
    /\ got = [c \in Callers |-> {}]
    /\ late = [c \in Callers |-> <<>>]

\* Goroutines run, requests time out and sleeps end.
WebhookFairness ==
    \A c \in Callers :
        /\ WF_webhookVars(Return(c))
        /\ \A i \in 1..MaxSubscribers :
              WF_webhookVars(i \in DOMAIN delivery[c] /\
                         (attempt(c, i) \/ CheckAndBackoff(c, i) \/ Collect(c, i)))

WebhookSpec == WebhookInit /\ [][WebhookNext]_webhookVars /\ WebhookFairness
-----------------------------------------------------------------------------
WebhookTypeOK ==
    /\ subscribers \in Seq(SUBSET EventTypes)
    /\ Len(subscribers) <= MaxSubscribers
    /\ cancelled \subseteq Callers
    /\ \A c \in Callers :
          /\ fire[c] \in [pc : {"idle", "collect", "done"}, event : EventTypes]
          /\ DOMAIN delivery[c] \subseteq DOMAIN subscribers
          /\ collected[c] \subseteq DOMAIN delivery[c]
          /\ \A i \in DOMAIN delivery[c] :
                delivery[c][i] \in [pc : {"attempt", "check", "return", "encode_error"},
                                    attempts : 0..MaxAttempts, delivered : BOOLEAN]

\* When Fire returns, its report has all attempts of exactly the subscribers
\* that were registered when it was called and want the event (an empty Events
\* list wants all), however many registered since and however slow they were: a
\* delivery the subscriber has processed, or MaxAttempts failures, or fewer only
\* because the context was cancelled or the event could not be encoded.
Report(c) == DOMAIN delivery[c]
ReportComplete ==
    \A c \in Callers : fire[c].pc = "done" =>
        /\ Report(c) = {i \in known[c] : subscribers[i] = {} \/ fire[c].event \in subscribers[i]}
        /\ \A i \in Report(c) :
              LET d == delivery[c][i] IN
              \/ d.pc = "encode_error" /\ i \notin got[c]
              \/ /\ d.pc = "return"
                 /\ IF d.delivered THEN i \in got[c]
                    ELSE d.attempts = MaxAttempts \/ c \in cancelled

\* A cancelled Fire winds down: every delivery makes at most one more attempt,
\* even if the cancellation comes while it sleeps.
CancelBounded ==
    \A c \in Callers : \A i \in Report(c) : late[c][i] <= 1

\* Every call of Fire returns.
FireReturns == \A c \in Callers : fire[c].pc = "collect" ~> fire[c].pc = "done"
=============================================================================
