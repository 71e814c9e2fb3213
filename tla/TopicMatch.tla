----------------------------- MODULE TopicMatch -----------------------------
(***************************************************************************)
(* The names of things on both sides of the bridge: mqtt/topic.go, which   *)
(* converts MQTT topics and filters to NATS subjects and subscriptions and *)
(* back, and turns a filter into the regular expression that retained      *)
(* messages are matched with.                                              *)
(*                                                                         *)
(* A string is the sequence of its characters.  What NATS and regexp do is *)
(* modelled from how the bridge uses them.                                 *)
(***************************************************************************)
EXTENDS Naturals, Sequences, FiniteSets

(* What the conversions do with a character.                               *)
SwapDotOnly(c) == IF c = "." THEN "/" ELSE c
SwapSeparator(c) ==
    CASE c = "." -> "/"
      [] c = "/" -> "."
      [] OTHER -> c

SwapWildcard(c) ==
    CASE c = "*" -> "+"
      [] c = "+" -> "*"
      [] c = "#" -> ">"
      [] c = ">" -> "#"
      [] OTHER -> SwapSeparator(c)

ToNATS(topic) == [i \in DOMAIN topic |-> SwapSeparator(topic[i])]
FromNATS(subject) == ToNATS(subject)

ToNATSSubscription(filter) == [i \in DOMAIN filter |-> SwapWildcard(filter[i])]
FromNATSSubscription(subscription) == ToNATSSubscription(subscription)

-----------------------------------------------------------------------------

(* SubscriptionToRegexp: a level that is one "+" or one "#" becomes        *)
(* matchSegment or matchRest, every other character stands for itself.     *)
WholeLevel(filter, i) ==
    /\ i = 1 \/ filter[i - 1] = "/"
    /\ i = Len(filter) \/ filter[i + 1] = "/"

Char(c) == [is |-> "char", char |-> c]

LiteralWildcards(filter) == [i \in DOMAIN filter |-> Char(filter[i])]
SubscriptionToRegexp(filter) ==
    [i \in DOMAIN filter |->
        CASE filter[i] = "+" /\ WholeLevel(filter, i) -> [is |-> "matchSegment"]
          [] filter[i] = "#" /\ WholeLevel(filter, i) -> [is |-> "matchRest"]
          [] OTHER -> Char(filter[i])]

(* regexp.MatchString: is there a substring that matches?  An element      *)
(* matches the text from its j-th character up to, and without, its k-th;  *)
(* matchSegment is ^[/]+ and matchRest is .* .                             *)
Matches(element, text, j, k) ==
    CASE element.is = "matchRest" -> j <= k
      [] element.is = "matchSegment" ->
            j = 1 /\ k > 1 /\ \A n \in 1..(k - 1) : text[n] = "/"
      [] element.is = "char" -> k = j + 1 /\ text[j] = element.char

(* Where the text may stand after so many elements, from any start.        *)
Reached(regexp, text) ==
    LET places == 1..(Len(text) + 1)
        reached[n \in 0..Len(regexp)] ==
            IF n = 0 THEN places
            ELSE {k \in places :
                    \E j \in reached[n - 1] : Matches(regexp[n], text, j, k)}
    IN  reached
MatchString(regexp, text) == Reached(regexp, text)[Len(regexp)] # {}

(* Which retained messages a subscriber is sent (matchingMessages), and a  *)
(* NATS client that requests them (messagesMatchingRetainRequest).         *)
RetainedMatch(filter, topic) == MatchString(SubscriptionToRegexp(filter), topic)
RequestMatch(subscription, topic) ==
    RetainedMatch(FromNATSSubscription(subscription), topic)

-----------------------------------------------------------------------------

(* The parts of s between its cuts: its ends and the separators.           *)
Cuts(s, separator) == {0, Len(s) + 1} \cup {i \in DOMAIN s : s[i] = separator}
Nth(cuts, i) == CHOOSE n \in cuts : Cardinality({m \in cuts : m < n}) = i - 1
Split(s, separator) ==
    LET cuts == Cuts(s, separator)
    IN  [i \in 1..(Cardinality(cuts) - 1) |->
            SubSeq(s, Nth(cuts, i) + 1, Nth(cuts, i + 1) - 1)]

(* Token by token; "one" stands for any token, a final "rest" for as many  *)
(* as are left, but at least min.                                          *)
TokensMatch(pattern, tokens, one, rest, min) ==
    LET n == Len(pattern)
        Agree(k) == \A i \in 1..k : pattern[i] = <<one>> \/ pattern[i] = tokens[i]
    IN  IF pattern[n] = <<rest>>
        THEN Len(tokens) >= n - 1 + min /\ Agree(n - 1)
        ELSE Len(tokens) = n /\ Agree(n)

(* A NATS server delivers a message on a subject to a subscription.        *)
NatsMatch(subscription, subject) ==
    TokensMatch(Split(subscription, "."), Split(subject, "."), "*", ">", 1)

(* Which live messages a subscriber gets.                                  *)
LiveMatch(filter, topic) == NatsMatch(ToNATSSubscription(filter), ToNATS(topic))

(* What the filters of MQTT 3.1.1 match; "#" matches the parent, too.      *)
MqttMatch(filter, topic) ==
    TokensMatch(Split(filter, "/"), Split(topic, "/"), "+", "#", 0)

(* The filters and topics of MQTT, without empty levels, which NATS does   *)
(* not have: wildcards are whole levels, "#" is the last one.              *)
ValidTopic(s) ==
    /\ s # <<>>
    /\ \A i \in DOMAIN s : s[i] = "/" => i \notin {1, Len(s)} /\ s[i + 1] # "/"

ValidFilter(s) ==
    /\ ValidTopic(s)
    /\ \A i \in DOMAIN s : s[i] \in {"+", "#"} => WholeLevel(s, i)
    /\ \A i \in DOMAIN s : s[i] = "#" => i = Len(s)
=============================================================================
