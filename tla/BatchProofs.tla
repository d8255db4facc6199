---------------------------- MODULE BatchProofs ----------------------------
(***************************************************************************)
(* Proofs about batch requests: for batches of any length, over any        *)
(* collections and records, with any sequence of merges, cascades,         *)
(* conflicts, failures and subscribers that make changes.                  *)
(*                                                                         *)
(* What a log of events mentions is followed from one to the other: the    *)
(* changes are always divided between the events that are still to be      *)
(* notified and those that are drained (Telling), and so no change is lost *)
(* or told twice.  A collection that was deleted under its records has its *)
(* deletion among the events to be notified (Following).  What the         *)
(* transaction sees is followed beside what the answers say (Keeping).     *)
(*                                                                         *)
(* Then about the requests themselves, alone or within a batch: how a      *)
(* server starts, and what it makes of any request (Startup, Dispatch).    *)
(* StartupInv says how far the settings and the registry are; ExchangeInv  *)
(* what is known of an exchange at each of its stages.  Each stage keeps   *)
(* both, and together they are DispatchInv.                                *)
(***************************************************************************)
EXTENDS Batch, Dispatch, FiniteSetTheorems, SequenceTheorems, WellFoundedInduction, TLAPS

(***************************************************************************)
(* Logs of events                                                          *)
(***************************************************************************)
LEMMA ConcatIs ==
    ASSUME NEW S, NEW s \in Seq(S), NEW t \in Seq(S)
    PROVE  /\ s \o t \in Seq(S)
           /\ \A k \in DOMAIN s : k \in DOMAIN (s \o t) /\ (s \o t)[k] = s[k]
           /\ \A k \in DOMAIN t : Len(s) + k \in DOMAIN (s \o t) /\ (s \o t)[Len(s) + k] = t[k]
           /\ \A k \in DOMAIN (s \o t) : k \in DOMAIN s \/ \E j \in DOMAIN t : k = Len(s) + j
<1>1. /\ s \o t \in Seq(S) /\ Len(s \o t) = Len(s) + Len(t)
      /\ \A i \in 1..(Len(s) + Len(t)) : (s \o t)[i] = IF i <= Len(s) THEN s[i] ELSE t[i - Len(s)]
    BY ConcatProperties
<1>2. /\ Len(s) \in Nat /\ Len(t) \in Nat /\ DOMAIN s = 1..Len(s) /\ DOMAIN t = 1..Len(t)
      /\ DOMAIN (s \o t) = 1..(Len(s) + Len(t))
    BY <1>1, LenProperties
<1>3. \A k \in DOMAIN s : k \in DOMAIN (s \o t) /\ (s \o t)[k] = s[k]
    BY <1>1, <1>2
<1>4. \A k \in DOMAIN t : Len(s) + k \in DOMAIN (s \o t) /\ (s \o t)[Len(s) + k] = t[k]
    BY <1>1, <1>2
<1>5. ASSUME NEW k \in DOMAIN (s \o t), k \notin DOMAIN s
      PROVE  \E j \in DOMAIN t : k = Len(s) + j
    <2>1. k \in Int /\ 1 <= k /\ k <= Len(s) + Len(t) /\ ~(k <= Len(s))
        BY <1>2, <1>5
    <2>2. k - Len(s) \in DOMAIN t /\ k = Len(s) + (k - Len(s))
        BY <1>2, <2>1
    <2> QED BY <2>2
<1> QED BY <1>1, <1>3, <1>4, <1>5

LEMMA AppendIs ==
    ASSUME NEW S, NEW s \in Seq(S), NEW e \in S
    PROVE  /\ Append(s, e) \in Seq(S)
           /\ Len(s) \in Nat /\ DOMAIN s = 1..Len(s) /\ DOMAIN Append(s, e) = 1..(Len(s) + 1)
           /\ \A k \in DOMAIN s : Append(s, e)[k] = s[k]
           /\ Append(s, e)[Len(s) + 1] = e
BY AppendProperties, LenProperties

LEMMA TailIs ==
    ASSUME NEW S, NEW s \in Seq(S), s # <<>>
    PROVE  /\ Tail(s) \in Seq(S) /\ Head(s) \in S /\ Head(s) = s[1] /\ 1 \in DOMAIN s
           /\ \A n \in DOMAIN Tail(s) : n + 1 \in DOMAIN s /\ n + 1 # 1 /\ Tail(s)[n] = s[n + 1]
           /\ \A n \in DOMAIN s : n = 1 \/ \E m \in DOMAIN Tail(s) : n = m + 1
           /\ \A m, n \in DOMAIN Tail(s) : m + 1 = n + 1 => m = n
<1>1. /\ Tail(s) \in Seq(S) /\ Head(s) \in S /\ Len(Tail(s)) = Len(s) - 1
      /\ \A i \in 1..Len(Tail(s)) : Tail(s)[i] = s[i + 1]
    BY HeadTailProperties
<1>2. Len(s) \in Nat \ {0} /\ DOMAIN s = 1..Len(s) /\ DOMAIN Tail(s) = 1..(Len(s) - 1)
    BY <1>1, EmptySeq, LenProperties
<1>3. Head(s) = s[1]
    OBVIOUS
<1>4. \A n \in DOMAIN s : n = 1 \/ \E m \in DOMAIN Tail(s) : n = m + 1
    <2> SUFFICES ASSUME NEW n \in 1..Len(s), n # 1 PROVE \E m \in 1..(Len(s) - 1) : n = m + 1
        BY <1>2
    <2>1. n - 1 \in 1..(Len(s) - 1) /\ n = (n - 1) + 1
        BY <1>2
    <2> QED BY <2>1
<1> QED BY <1>1, <1>2, <1>3, <1>4

LEMMA EventIs ==
    \A e \in Event : e.impacted \in Seq(Nat) /\ e.level \in Nat /\ e.resource \in Nat
BY DEF Event

\* Event e says something, each change once, that the log does not mention.
IsNews(log, e) ==
    /\ \A j, k \in DOMAIN e.impacted : e.impacted[j] = e.impacted[k] => j = k
    /\ \A k \in DOMAIN e.impacted : ~Mentions(log, e.impacted[k])

Says(e, i) == \E k \in DOMAIN e.impacted : e.impacted[k] = i

\* An event of this key, parents and levels aside, mentions change number i.
Tells(log, resource, action, i) ==
    \E n \in DOMAIN log : log[n].resource = resource /\ log[n].action = action /\ Says(log[n], i)

\* All its events are of one level.
OfLevel(log, lvl) == \A n \in DOMAIN log : log[n].level = lvl

\* The log with e in it, in a place of its own or merged with an event.
LEMMA AppendedEvent ==
    ASSUME NEW log \in Seq(Event), Keyed(log), MentionsOnce(log), NEW e \in Event, IsNews(log, e),
           \A n \in DOMAIN log : ~SameKey(log[n], e)
    PROVE  /\ Append(log, e) \in Seq(Event) /\ Keyed(Append(log, e)) /\ MentionsOnce(Append(log, e))
           /\ \A i : Mentions(Append(log, e), i) <=> Mentions(log, i) \/ Says(e, i)
           /\ \A r, a, i : Tells(log, r, a, i) => Tells(Append(log, e), r, a, i)
           /\ \A i : Says(e, i) => Tells(Append(log, e), e.resource, e.action, i)
           /\ \A lvl : OfLevel(log, lvl) /\ e.level = lvl => OfLevel(Append(log, e), lvl)
<1> DEFINE new == Append(log, e)
           L == Len(log) + 1
<1>1. /\ new \in Seq(Event) /\ Len(log) \in Nat /\ DOMAIN log = 1..Len(log) /\ DOMAIN new = 1..L
      /\ \A k \in DOMAIN log : new[k] = log[k]
      /\ new[L] = e
    BY AppendIs
<1>2. L \in DOMAIN new /\ L \notin DOMAIN log /\ DOMAIN new = DOMAIN log \cup {L}
    BY <1>1
<1> HIDE DEF new, L
<1>3. Keyed(new)
    <2>1. \A n \in DOMAIN log : ~SameKey(e, log[n])
        BY DEF SameKey
    <2> QED BY <1>1, <1>2, <2>1 DEF Keyed
<1>4. MentionsOnce(new)
    <2> SUFFICES ASSUME NEW m \in DOMAIN new, NEW n \in DOMAIN new,
                        NEW j \in DOMAIN new[m].impacted, NEW k \in DOMAIN new[n].impacted,
                        new[m].impacted[j] = new[n].impacted[k]
                 PROVE  m = n /\ j = k
        BY DEF MentionsOnce
    <2>1. CASE m \in DOMAIN log /\ n \in DOMAIN log
        BY <1>1, <2>1 DEF MentionsOnce
    <2>2. CASE m = L /\ n = L
        BY <1>1, <2>2 DEF IsNews
    <2>3. CASE m = L /\ n \in DOMAIN log
        BY <1>1, <2>3 DEF IsNews, Mentions
    <2>4. CASE m \in DOMAIN log /\ n = L
        BY <1>1, <2>4 DEF IsNews, Mentions
    <2> QED BY <1>2, <2>1, <2>2, <2>3, <2>4
<1>5. \A i : Mentions(new, i) <=> Mentions(log, i) \/ Says(e, i)
    BY <1>1, <1>2 DEF Mentions, Says
<1>6. \A r, a, i : Tells(log, r, a, i) => Tells(new, r, a, i)
    BY <1>1, <1>2 DEF Tells
<1>7. \A i : Says(e, i) => Tells(new, e.resource, e.action, i)
    BY <1>1, <1>2 DEF Tells
<1>8. \A lvl : OfLevel(log, lvl) /\ e.level = lvl => OfLevel(new, lvl)
    BY <1>1, <1>2 DEF OfLevel
<1> QED BY <1>1, <1>3, <1>4, <1>5, <1>6, <1>7, <1>8 DEF new

LEMMA MergedEvent ==
    ASSUME NEW log \in Seq(Event), Keyed(log), MentionsOnce(log), NEW e \in Event, IsNews(log, e),
           NEW at \in DOMAIN log, SameKey(log[at], e)
    PROVE  LET new == AddEvent(log, e)
           IN  /\ new \in Seq(Event) /\ Keyed(new) /\ MentionsOnce(new)
               /\ \A i : Mentions(new, i) <=> Mentions(log, i) \/ Says(e, i)
               /\ \A r, a, i : Tells(log, r, a, i) => Tells(new, r, a, i)
               /\ \A i : Says(e, i) => Tells(new, e.resource, e.action, i)
               /\ \A lvl : OfLevel(log, lvl) /\ e.level = lvl => OfLevel(new, lvl)
<1> DEFINE new == AddEvent(log, e)
           old == log[at].impacted
           both == old \o e.impacted
<1>1. /\ Len(log) \in Nat /\ DOMAIN log = 1..Len(log)
      /\ \A n \in DOMAIN log : log[n] \in Event
    BY LenProperties, ElementOfSeq
<1>2. old \in Seq(Nat) /\ e.impacted \in Seq(Nat)
    BY <1>1, EventIs
<1>3. /\ both \in Seq(Nat)
      /\ \A k \in DOMAIN old : k \in DOMAIN both /\ both[k] = old[k]
      /\ \A k \in DOMAIN e.impacted : Len(old) + k \in DOMAIN both /\ both[Len(old) + k] = e.impacted[k]
      /\ \A k \in DOMAIN both : k \in DOMAIN old \/ \E j \in DOMAIN e.impacted : k = Len(old) + j
    <2> HIDE DEF old
    <2> QED BY <1>2, ConcatIs
<1>4. /\ DOMAIN new = DOMAIN log
      /\ \A n \in DOMAIN log : n # at => new[n] = log[n]
      /\ new[at] = [log[at] EXCEPT !.impacted = both]
    <2>1. \A n \in DOMAIN log : n # at => ~SameKey(log[n], e)
        BY DEF Keyed, SameKey
    <2>2. new = [n \in DOMAIN log |-> IF SameKey(log[n], e)
                                      THEN [log[n] EXCEPT !.impacted = log[n].impacted \o e.impacted] ELSE log[n]]
        BY DEF AddEvent
    <2> QED BY <2>1, <2>2
<1>5. /\ new[at] \in Event /\ new[at].impacted = both /\ SameKey(new[at], log[at]) /\ new[at].level = e.level
      /\ new[at].resource = e.resource /\ new[at].action = e.action
    BY <1>1, <1>3, <1>4 DEF Event, SameKey
<1>6. new \in Seq(Event)
    <2>1. \A n \in 1..Len(log) : new[n] \in Event
        BY <1>1, <1>4, <1>5
    <2>2. new = [n \in 1..Len(log) |-> new[n]]
        BY <1>1, <1>4 DEF AddEvent
    <2> HIDE DEF new
    <2> QED BY <1>1, <2>1, <2>2
<1> HIDE DEF new, both
<1>7. Keyed(new)
    <2>1. \A n \in DOMAIN log : SameKey(new[n], log[n])
        BY <1>4, <1>5 DEF SameKey
    <2>2. \A m, n \in DOMAIN log : SameKey(new[m], new[n]) => SameKey(log[m], log[n])
        BY <2>1 DEF SameKey
    <2> QED BY <1>4, <2>2 DEF Keyed
<1>8. \A i : Says(new[at], i) <=> Says(log[at], i) \/ Says(e, i)
    BY <1>3, <1>5 DEF Says
<1>9. \A i : Mentions(new, i) <=> Mentions(log, i) \/ Says(e, i)
    <2>1. \A l, i : Mentions(l, i) <=> \E n \in DOMAIN l : Says(l[n], i)
        BY DEF Mentions, Says
    <2> QED BY <1>4, <1>8, <2>1
<1>10. MentionsOnce(new)
    <2> SUFFICES ASSUME NEW m \in DOMAIN new, NEW n \in DOMAIN new,
                        NEW j \in DOMAIN new[m].impacted, NEW k \in DOMAIN new[n].impacted,
                        new[m].impacted[j] = new[n].impacted[k]
                 PROVE  m = n /\ j = k
        BY DEF MentionsOnce
    <2>1. CASE m # at /\ n # at
        BY <1>4, <2>1 DEF MentionsOnce
    <2>2. ASSUME NEW o \in DOMAIN log, o # at, NEW q \in DOMAIN log[o].impacted, NEW r \in DOMAIN both,
                 both[r] = log[o].impacted[q]
          PROVE  FALSE
        <3>1. CASE r \in DOMAIN old
            BY <1>3, <2>2, <3>1 DEF MentionsOnce
        <3>2. CASE \E l \in DOMAIN e.impacted : r = Len(old) + l
            BY <1>3, <2>2, <3>2 DEF IsNews, Mentions
        <3> QED BY <1>3, <3>1, <3>2
    <2>3. CASE m = at /\ n = at
        <3>1. CASE j \in DOMAIN old /\ k \in DOMAIN old
            BY <1>3, <1>5, <2>3, <3>1 DEF MentionsOnce
        <3>2. CASE (\E l \in DOMAIN e.impacted : j = Len(old) + l) /\ (\E l \in DOMAIN e.impacted : k = Len(old) + l)
            BY <1>3, <1>5, <2>3, <3>2 DEF IsNews
        <3>3. CASE j \in DOMAIN old /\ \E l \in DOMAIN e.impacted : k = Len(old) + l
            BY <1>3, <1>5, <2>3, <3>3 DEF IsNews, Mentions
        <3>4. CASE k \in DOMAIN old /\ \E l \in DOMAIN e.impacted : j = Len(old) + l
            BY <1>3, <1>5, <2>3, <3>4 DEF IsNews, Mentions
        <3>5. j \in DOMAIN both /\ k \in DOMAIN both
            BY <1>5, <2>3
        <3>6. /\ j \in DOMAIN old \/ \E l \in DOMAIN e.impacted : j = Len(old) + l
              /\ k \in DOMAIN old \/ \E l \in DOMAIN e.impacted : k = Len(old) + l
            BY <1>3, <3>5
        <3> QED BY <3>1, <3>2, <3>3, <3>4, <3>6
    <2>4. CASE m = at /\ n # at
        <3>1. n \in DOMAIN log /\ k \in DOMAIN log[n].impacted /\ j \in DOMAIN both /\ both[j] = log[n].impacted[k]
            BY <1>4, <1>5, <2>4
        <3> QED BY <2>2, <2>4, <3>1
    <2>5. CASE m # at /\ n = at
        <3>1. m \in DOMAIN log /\ j \in DOMAIN log[m].impacted /\ k \in DOMAIN both /\ both[k] = log[m].impacted[j]
            BY <1>4, <1>5, <2>5
        <3> QED BY <2>2, <2>5, <3>1
    <2> QED BY <2>1, <2>3, <2>4, <2>5
<1>11. ASSUME NEW r, NEW a, NEW i, Tells(log, r, a, i)
       PROVE  Tells(new, r, a, i)
    <2>1. PICK n \in DOMAIN log : log[n].resource = r /\ log[n].action = a /\ Says(log[n], i)
        BY <1>11 DEF Tells
    <2>2. n \in DOMAIN new /\ new[n].resource = r /\ new[n].action = a /\ Says(new[n], i)
        BY <1>4, <1>5, <1>8, <2>1 DEF SameKey
    <2> QED BY <2>2 DEF Tells
<1>12. \A i : Says(e, i) => Tells(new, e.resource, e.action, i)
    BY <1>4, <1>5, <1>8 DEF Tells
<1>13. \A lvl : OfLevel(log, lvl) /\ e.level = lvl => OfLevel(new, lvl)
    BY <1>4, <1>5 DEF OfLevel
<1> QED BY <1>6, <1>7, <1>9, <1>10, <1>11, <1>12, <1>13 DEF new

\* add_event(): what is not in the log yet is in it, once, and all it told.
LEMMA AddEventIs ==
    ASSUME NEW log \in Seq(Event), Keyed(log), MentionsOnce(log), NEW e \in Event, IsNews(log, e)
    PROVE  LET new == AddEvent(log, e)
           IN  /\ new \in Seq(Event) /\ Keyed(new) /\ MentionsOnce(new)
               /\ \A i : Mentions(new, i) <=> Mentions(log, i) \/ Says(e, i)
               /\ \A r, a, i : Tells(log, r, a, i) => Tells(new, r, a, i)
               /\ \A i : Says(e, i) => Tells(new, e.resource, e.action, i)
               /\ \A lvl : OfLevel(log, lvl) /\ e.level = lvl => OfLevel(new, lvl)
<1>1. CASE \E n \in DOMAIN log : SameKey(log[n], e)
    BY <1>1, MergedEvent
<1>2. CASE ~\E n \in DOMAIN log : SameKey(log[n], e)
    <2>1. AddEvent(log, e) = Append(log, e)
        BY <1>2 DEF AddEvent
    <2> QED BY <1>2, <2>1, AppendedEvent
<1> QED BY <1>1, <1>2

\* What is popped is not mentioned any more.
LEMMA PoppedEvent ==
    ASSUME NEW log \in Seq(Event), log # <<>>, Keyed(log), MentionsOnce(log)
    PROVE  /\ Tail(log) \in Seq(Event) /\ Head(log) \in Event
           /\ Keyed(Tail(log)) /\ MentionsOnce(Tail(log)) /\ IsNews(Tail(log), Head(log))
           /\ \A i : Mentions(log, i) <=> Mentions(Tail(log), i) \/ Says(Head(log), i)
           /\ \A r, a, i : Tells(log, r, a, i) =>
                 \/ Tells(Tail(log), r, a, i)
                 \/ r = Head(log).resource /\ a = Head(log).action /\ Says(Head(log), i)
<1> DEFINE rest == Tail(log)
<1>1. /\ rest \in Seq(Event) /\ Head(log) \in Event /\ Head(log) = log[1] /\ 1 \in DOMAIN log
      /\ \A n \in DOMAIN rest : n + 1 \in DOMAIN log /\ n + 1 # 1 /\ rest[n] = log[n + 1]
      /\ \A n \in DOMAIN log : n = 1 \/ \E m \in DOMAIN rest : n = m + 1
      /\ \A m, n \in DOMAIN rest : m + 1 = n + 1 => m = n
    BY TailIs
<1> HIDE DEF rest
<1>2. Keyed(rest)
    BY <1>1 DEF Keyed
<1>3. MentionsOnce(rest)
    <2> SUFFICES ASSUME NEW m \in DOMAIN rest, NEW n \in DOMAIN rest,
                        NEW j \in DOMAIN rest[m].impacted, NEW k \in DOMAIN rest[n].impacted,
                        rest[m].impacted[j] = rest[n].impacted[k]
                 PROVE  m = n /\ j = k
        BY DEF MentionsOnce
    <2>1. /\ m + 1 \in DOMAIN log /\ n + 1 \in DOMAIN log /\ rest[m] = log[m + 1] /\ rest[n] = log[n + 1]
        BY <1>1
    <2>2. m + 1 = n + 1 /\ j = k
        BY <2>1 DEF MentionsOnce
    <2> QED BY <1>1, <2>2
<1>4. IsNews(rest, Head(log))
    BY <1>1 DEF IsNews, MentionsOnce, Mentions
<1>5. \A i : Mentions(log, i) <=> Mentions(rest, i) \/ Says(Head(log), i)
    <2>1. \A l, i : Mentions(l, i) <=> \E n \in DOMAIN l : Says(l[n], i)
        BY DEF Mentions, Says
    <2> QED BY <1>1, <2>1
<1>6. ASSUME NEW r, NEW a, NEW i, Tells(log, r, a, i)
      PROVE  Tells(rest, r, a, i) \/ (r = Head(log).resource /\ a = Head(log).action /\ Says(Head(log), i))
    <2>1. PICK n \in DOMAIN log : log[n].resource = r /\ log[n].action = a /\ Says(log[n], i)
        BY <1>6 DEF Tells
    <2>2. CASE n = 1
        BY <1>1, <2>1, <2>2
    <2>3. CASE n # 1
        <3>1. PICK m \in DOMAIN rest : rest[m] = log[n]
            BY <1>1, <2>3
        <3> QED BY <2>1, <3>1 DEF Tells
    <2> QED BY <2>2, <2>3
<1> QED BY <1>1, <1>2, <1>3, <1>4, <1>5, <1>6 DEF rest

(***************************************************************************)
(* The changes, divided between two logs or told by one                    *)
(***************************************************************************)
\* ev and af mention the changes ch, each one once; af is flattened.
Divided(ev, af, ch) ==
    /\ ev \in Seq(Event) /\ Keyed(ev) /\ MentionsOnce(ev)
    /\ af \in Seq(Event) /\ Keyed(af) /\ MentionsOnce(af) /\ OfLevel(af, 1)
    /\ \A i : ~(Mentions(ev, i) /\ Mentions(af, i))
    /\ \A i : i \in DOMAIN ch <=> Mentions(ev, i) \/ Mentions(af, i)

\* log mentions all the changes, each one once, and is flattened.
Whole(log, ch) ==
    /\ log \in Seq(Event) /\ Keyed(log) /\ MentionsOnce(log) /\ OfLevel(log, 1)
    /\ \A i : i \in DOMAIN ch <=> Mentions(log, i)

LEMMA Nothing ==
    /\ <<>> \in Seq(Event) /\ Keyed(<<>>) /\ MentionsOnce(<<>>) /\ OfLevel(<<>>, 1)
    /\ \A i : ~Mentions(<<>>, i)
    /\ \A r, a, i : ~Tells(<<>>, r, a, i)
<1>1. DOMAIN <<>> = {}
    OBVIOUS
<1>2. <<>> \in Seq(Event)
    OBVIOUS
<1> QED BY <1>1, <1>2 DEF Keyed, MentionsOnce, OfLevel, Mentions, Tells

LEMMA Objects ==
    ASSUME NEW o \in Object
    PROVE  \/ Len(o) = 1 /\ o[1] \in Collections /\ o = <<o[1]>>
           \/ Len(o) = 2 /\ o[1] \in Collections /\ o[2] \in Records /\ o = <<o[1], o[2]>>
BY DEF Object

Actions == {"create", "update", "delete"}

\* A new change, as an event.
LEMMA EventOfIs ==
    ASSUME NEW i \in Nat, NEW o \in Object, NEW action \in Actions, NEW lvl \in Nat
    PROVE  LET e == EventOf(i, o, action, lvl)
           IN  /\ e \in Event /\ e.resource = Len(o) /\ e.action = action
               /\ \A j : Says(e, j) <=> j = i
               /\ \A log : ~Mentions(log, i) => IsNews(log, e)
<1> DEFINE e == EventOf(i, o, action, lvl)
<1>1. /\ e.impacted = <<i>> /\ e.resource = Len(o) /\ e.action = action /\ e.level = lvl
      /\ e.parent = ParentOf(o)
      /\ e = [level |-> e.level, resource |-> e.resource, parent |-> e.parent, action |-> e.action,
              impacted |-> e.impacted]
    BY DEF EventOf
<1>2. Len(o) \in Nat /\ ParentOf(o) \in Collections \cup {"bucket"}
    BY Objects DEF ParentOf
<1>3. <<i>> \in Seq(Nat) /\ DOMAIN <<i>> = {1} /\ <<i>>[1] = i
    OBVIOUS
<1> HIDE DEF e
<1>4. e \in Event
    BY <1>1, <1>2, <1>3 DEF Event, Actions
<1>5. \A j : Says(e, j) <=> j = i
    BY <1>1, <1>3 DEF Says
<1>6. \A log : ~Mentions(log, i) => IsNews(log, e)
    BY <1>1, <1>3 DEF IsNews
<1> QED BY <1>1, <1>4, <1>5, <1>6 DEF e

\* A change is stacked: it is the next one, and is told.
LEMMA Stacked ==
    ASSUME NEW ev, NEW af, NEW ch \in Seq(Change), Divided(ev, af, ch), NEW c \in Change,
           NEW o \in Object, NEW action \in Actions, NEW lvl \in Nat
    PROVE  LET new == AddEvent(ev, EventOf(Len(ch) + 1, o, action, lvl))
           IN  /\ Divided(new, af, Append(ch, c))
               /\ \A r, a, i : Tells(ev, r, a, i) => Tells(new, r, a, i)
               /\ Tells(new, Len(o), action, Len(ch) + 1)
<1> DEFINE e == EventOf(Len(ch) + 1, o, action, lvl)
           new == AddEvent(ev, e)
<1>1. /\ Append(ch, c) \in Seq(Change) /\ Len(ch) \in Nat /\ DOMAIN ch = 1..Len(ch)
      /\ DOMAIN Append(ch, c) = 1..(Len(ch) + 1)
    BY AppendIs
<1>2. /\ Len(ch) + 1 \in Nat /\ Len(ch) + 1 \notin DOMAIN ch
      /\ \A i : i \in DOMAIN Append(ch, c) <=> i \in DOMAIN ch \/ i = Len(ch) + 1
    BY <1>1
<1>3. /\ e \in Event /\ e.resource = Len(o) /\ e.action = action
      /\ \A i : Says(e, i) <=> i = Len(ch) + 1
      /\ \A log : ~Mentions(log, Len(ch) + 1) => IsNews(log, e)
    BY <1>2, EventOfIs
<1>4. ~Mentions(ev, Len(ch) + 1) /\ ~Mentions(af, Len(ch) + 1)
    BY <1>2 DEF Divided
<1> HIDE DEF e
<1>5. /\ new \in Seq(Event) /\ Keyed(new) /\ MentionsOnce(new)
      /\ \A i : Mentions(new, i) <=> Mentions(ev, i) \/ Says(e, i)
      /\ \A r, a, i : Tells(ev, r, a, i) => Tells(new, r, a, i)
      /\ \A i : Says(e, i) => Tells(new, e.resource, e.action, i)
    BY <1>3, <1>4, AddEventIs DEF Divided
<1> HIDE DEF new
<1>6. Divided(new, af, Append(ch, c))
    BY <1>2, <1>3, <1>4, <1>5 DEF Divided
<1>7. Tells(new, Len(o), action, Len(ch) + 1)
    BY <1>3, <1>5
<1> QED BY <1>5, <1>6, <1>7 DEF new, e

\* An event is drained: what it tells goes from one log to the other.
LEMMA Drained ==
    ASSUME NEW ev, NEW af, NEW ch, Divided(ev, af, ch), ev # <<>>
    PROVE  /\ Divided(Tail(ev), AddEvent(af, Flattened(Head(ev))), ch)
           /\ Head(ev) \in Event
           /\ \A r, a, i : Tells(ev, r, a, i) =>
                 \/ Tells(Tail(ev), r, a, i)
                 \/ r = Head(ev).resource /\ a = Head(ev).action /\ Says(Head(ev), i)
<1> DEFINE e == Head(ev)
           f == Flattened(e)
           new == AddEvent(af, f)
<1>1. /\ Tail(ev) \in Seq(Event) /\ e \in Event
      /\ Keyed(Tail(ev)) /\ MentionsOnce(Tail(ev)) /\ IsNews(Tail(ev), e)
      /\ \A i : Mentions(ev, i) <=> Mentions(Tail(ev), i) \/ Says(e, i)
      /\ \A r, a, i : Tells(ev, r, a, i) =>
                 \/ Tells(Tail(ev), r, a, i)
                 \/ r = e.resource /\ a = e.action /\ Says(e, i)
    BY PoppedEvent DEF Divided
<1> HIDE DEF e
<1>2. f \in Event /\ f.level = 1 /\ f.impacted = e.impacted
    BY <1>1 DEF Flattened, Event
<1> HIDE DEF f
<1>3. \A i : Says(f, i) <=> Says(e, i)
    BY <1>2 DEF Says
<1>4. IsNews(af, f)
    <2>1. \A k \in DOMAIN f.impacted : Mentions(ev, f.impacted[k])
        BY <1>1, <1>3 DEF Says
    <2>2. \A k \in DOMAIN f.impacted : ~Mentions(af, f.impacted[k])
        BY <2>1 DEF Divided
    <2> QED BY <1>1, <1>2, <2>2 DEF IsNews
<1>5. /\ new \in Seq(Event) /\ Keyed(new) /\ MentionsOnce(new) /\ OfLevel(new, 1)
      /\ \A i : Mentions(new, i) <=> Mentions(af, i) \/ Says(f, i)
    BY <1>2, <1>4, AddEventIs DEF Divided
<1>6. \A i : Says(e, i) => ~Mentions(Tail(ev), i)
    BY <1>1 DEF IsNews, Says
<1> HIDE DEF new
<1>7. Divided(Tail(ev), new, ch)
    BY <1>1, <1>3, <1>5, <1>6 DEF Divided
<1> QED BY <1>1, <1>7 DEF e, f, new

LEMMA Ended == \A af, ch : Divided(<<>>, af, ch) => Whole(af, ch)
BY Nothing DEF Divided, Whole

\* The next event is announced: all that was and will be remains the same.
LEMMA Announcing ==
    ASSUME NEW ev \in Seq(Event), ev # <<>>, NEW said \in Seq(Event)
    PROVE  /\ Append(said, Head(ev)) \in Seq(Event) /\ Tail(ev) \in Seq(Event)
           /\ Append(said, Head(ev)) \o Tail(ev) = said \o ev
           /\ Keyed(ev) => Keyed(Tail(ev))
<1>1. /\ Tail(ev) \in Seq(Event) /\ Head(ev) \in Event
      /\ \A n \in DOMAIN Tail(ev) : n + 1 \in DOMAIN ev /\ n + 1 # 1 /\ Tail(ev)[n] = ev[n + 1]
      /\ \A m, n \in DOMAIN Tail(ev) : m + 1 = n + 1 => m = n
    BY TailIs
<1>2. Append(said, Head(ev)) = said \o <<Head(ev)>> /\ Append(said, Head(ev)) \in Seq(Event)
    BY <1>1, AppendIsConcat, AppendProperties
<1>3. <<Head(ev)>> \in Seq(Event) /\ <<Head(ev)>> \o Tail(ev) = ev
    <2>1. <<Head(ev)>> \in Seq(Event) /\ Len(<<Head(ev)>>) = 1 /\ <<Head(ev)>>[1] = Head(ev)
        BY <1>1
    <2>2. Len(ev) \in Nat \ {0} /\ Len(Tail(ev)) = Len(ev) - 1 /\ Head(ev) = ev[1]
        BY EmptySeq, HeadTailProperties
    <2>3. \A n \in 1..Len(Tail(ev)) : Tail(ev)[n] = ev[n + 1]
        BY HeadTailProperties
    <2>4. /\ <<Head(ev)>> \o Tail(ev) \in Seq(Event) /\ Len(<<Head(ev)>> \o Tail(ev)) = Len(ev)
          /\ \A n \in 1..Len(ev) : (<<Head(ev)>> \o Tail(ev))[n] = IF n <= 1 THEN Head(ev) ELSE Tail(ev)[n - 1]
        <3>1. /\ <<Head(ev)>> \o Tail(ev) \in Seq(Event)
              /\ Len(<<Head(ev)>> \o Tail(ev)) = Len(<<Head(ev)>>) + Len(Tail(ev))
              /\ \A n \in 1..(Len(<<Head(ev)>>) + Len(Tail(ev))) :
                    (<<Head(ev)>> \o Tail(ev))[n] =
                        IF n <= Len(<<Head(ev)>>) THEN <<Head(ev)>>[n] ELSE Tail(ev)[n - Len(<<Head(ev)>>)]
            BY <1>1, <2>1, ConcatProperties
        <3>2. Len(<<Head(ev)>>) + Len(Tail(ev)) = Len(ev)
            BY <2>1, <2>2
        <3> QED BY <2>1, <2>2, <3>1, <3>2
    <2>5. ASSUME NEW n \in 1..Len(ev)
          PROVE  (<<Head(ev)>> \o Tail(ev))[n] = ev[n]
        <3>1. CASE n = 1
            BY <2>2, <2>4, <3>1
        <3>2. CASE n # 1
            <4>1. n - 1 \in 1..Len(Tail(ev)) /\ (n - 1) + 1 = n /\ ~(n <= 1)
                BY <2>2, <3>2
            <4> QED BY <2>3, <2>4, <4>1
        <3> QED BY <3>1, <3>2
    <2> QED BY <2>1, <2>4, <2>5, SeqEqual
<1>4. Append(said, Head(ev)) \o Tail(ev) = said \o ev
    BY <1>1, <1>2, <1>3, ConcatAssociative
<1>5. Keyed(ev) => Keyed(Tail(ev))
    BY <1>1 DEF Keyed
<1> QED BY <1>1, <1>2, <1>4, <1>5

\* What holds of all that is announced holds of what was announced so far.
LEMMA AnnouncedSoFar ==
    ASSUME NEW said \in Seq(Event), NEW ev \in Seq(Event), NEW ch, Whole(said \o ev, ch)
    PROVE  /\ Keyed(said) /\ MentionsOnce(said) /\ OfLevel(said, 1)
           /\ \A i : Mentions(said, i) => i \in DOMAIN ch
<1>1. \A k \in DOMAIN said : k \in DOMAIN (said \o ev) /\ (said \o ev)[k] = said[k]
    BY ConcatIs
<1> DEFINE all == said \o ev
<1>2. Keyed(all) /\ MentionsOnce(all) /\ OfLevel(all, 1) /\ \A i : Mentions(all, i) => i \in DOMAIN ch
    BY DEF Whole
<1>3. \A k \in DOMAIN said : k \in DOMAIN all /\ all[k] = said[k]
    BY <1>1
<1> HIDE DEF all
<1>4. Keyed(said) /\ OfLevel(said, 1)
    BY <1>2, <1>3 DEF Keyed, OfLevel
<1>5. MentionsOnce(said)
    BY <1>2, <1>3 DEF MentionsOnce
<1>6. \A i : Mentions(said, i) => Mentions(all, i)
    BY <1>3 DEF Mentions
<1> QED BY <1>2, <1>4, <1>5, <1>6

(***************************************************************************)
(* The inductive invariant                                                 *)
(***************************************************************************)
Response == [object : Object, action : Actions, status : {200, 201, 404, 409}]

\* The types, and the numbers that bound each other.
Typed ==
    /\ committed \subseteq Object /\ db \subseteq Object
    /\ transaction \in 1..(MaxRequests + 1) /\ bound \subseteq Collections
    /\ changes \in Seq(Change)
    /\ events \in Seq(Event) /\ afterwards \in Seq(Event)
    /\ heard \in Seq(Event) /\ announced \in Seq(Event)
    /\ Keyed(events) /\ Keyed(afterwards)
    /\ level \in 1..2
    /\ responses \in Seq(Response)
    /\ phase \in {"requests", "before", "commit", "after", "done"}
    /\ status \in {0, 200, 500, 503}
    /\ Len(responses) <= MaxRequests /\ transaction <= Len(responses) + 1
    /\ transaction > 1 <=> Conflicted
    /\ phase = "requests" => level = 1

\* Where the changes are told in each phase.
Telling ==
    /\ phase \in {"requests", "before"} => Divided(events, afterwards, changes)
    /\ phase = "requests" => afterwards = <<>>
    /\ phase \in {"requests", "before", "commit"} => announced = <<>> /\ status = 0
    /\ phase \in {"commit", "after"} => Whole(announced \o events, changes)
    /\ phase = "after" => status = 200 /\ transaction = 1
    /\ phase = "done" => IF status = 200 /\ transaction = 1 THEN Whole(announced, changes)
                         ELSE announced = <<>>
    /\ \A i \in DOMAIN changes : changes[i].transaction <= transaction

\* The cascade of the deletion of collection c is still to come.
Pending(c) ==
    \E i \in DOMAIN changes : changes[i].object[1] = c /\ Tells(events, 1, "delete", i)
Orphaned(objects, c) == <<c>> \notin objects /\ \E r \in Records : <<c, r>> \in objects

\* In the first transaction, what is without its collection has its cascade to
\* come; so has what was looked up and is not there.
Following ==
    transaction = 1 =>
        /\ \A c \in Collections : ~Orphaned(committed, c)
        /\ phase = "requests" => \A c \in bound : <<c>> \in db \/ Pending(c)
        /\ phase \in {"requests", "before"} => \A c \in Collections : Orphaned(db, c) => Pending(c)
        /\ phase \notin {"requests", "before"} => \A c \in Collections : ~Orphaned(db, c)

IInv == Typed /\ Telling /\ Following

LEMMA InitIInv == Init => IInv
<1> SUFFICES ASSUME Init PROVE IInv
    OBVIOUS
<1>1. /\ events = <<>> /\ afterwards = <<>> /\ heard = <<>> /\ announced = <<>> /\ responses = <<>>
      /\ changes = <<>> /\ phase = "requests" /\ level = 1 /\ transaction = 1 /\ bound = {}
      /\ db = committed /\ status = 0 /\ committed \subseteq Object
    BY DEF Init
<1>2. DOMAIN <<>> = {} /\ <<>> \in Seq(Change) /\ <<>> \in Seq(Response) /\ Len(<<>>) = 0
    OBVIOUS
<1>3. Typed
    <2>1. ~Conflicted
        BY <1>1, <1>2 DEF Conflicted
    <2>2. MaxRequests \in Nat
        BY BatchAssumption
    <2> QED BY <1>1, <1>2, <2>1, <2>2, Nothing DEF Typed
<1>4. Telling
    <2>1. Divided(<<>>, <<>>, <<>>)
        BY <1>2, Nothing DEF Divided
    <2> QED BY <1>1, <1>2, <2>1 DEF Telling
<1>5. Following
    <2>1. \A c \in Collections : ~Orphaned(committed, c)
        <3> SUFFICES ASSUME NEW c \in Collections, <<c>> \notin committed, NEW r \in Records,
                            <<c, r>> \in committed
                     PROVE  FALSE
            BY DEF Orphaned
        <3>1. <<c, r>> \in RecordsOf(c)
            BY DEF RecordsOf
        <3> QED BY <3>1 DEF Init
    <2> QED BY <1>1, <2>1 DEF Following
<1> QED BY <1>3, <1>4, <1>5 DEF IInv

(***************************************************************************)
(* The subrequests                                                         *)
(***************************************************************************)
LEMMA Responded ==
    ASSUME Typed, More, NEW o \in Object, NEW action \in Actions, NEW code \in {200, 201, 404, 409},
           Respond(o, action, code)
    PROVE  /\ responses' \in Seq(Response) /\ Len(responses) \in Nat
           /\ Len(responses') = Len(responses) + 1 /\ Len(responses') <= MaxRequests
           /\ Conflicted' <=> Conflicted \/ code = 409
<1> DEFINE r == [object |-> o, action |-> action, status |-> code]
<1>1. r \in Response /\ r.status = code
    BY DEF Response
<1>2. responses' = Append(responses, r) /\ responses \in Seq(Response) /\ Len(responses) < MaxRequests
    BY DEF Typed, Respond, More
<1> HIDE DEF r
<1>3. /\ responses' \in Seq(Response) /\ Len(responses) \in Nat /\ Len(responses') = Len(responses) + 1
      /\ DOMAIN responses = 1..Len(responses) /\ DOMAIN responses' = 1..(Len(responses) + 1)
      /\ \A k \in DOMAIN responses : responses'[k] = responses[k]
      /\ responses'[Len(responses) + 1] = r
    BY <1>1, <1>2, AppendProperties, LenProperties
<1>4. Conflicted' <=> Conflicted \/ code = 409
    <2>1. \A k : k \in DOMAIN responses' <=> k \in DOMAIN responses \/ k = Len(responses) + 1
        BY <1>3
    <2> QED BY <1>1, <1>3, <2>1 DEF Conflicted
<1> QED BY <1>2, <1>3, <1>4, BatchAssumption

\* What is recorded is told, and no cascade is forgotten.
LEMMA Recorded ==
    ASSUME Typed, Telling, phase = "requests", NEW o \in Object, NEW action \in Actions,
           Record(o, action), UNCHANGED <<afterwards, transaction>>
    PROVE  /\ changes' \in Seq(Change) /\ Divided(events, afterwards, changes)'
           /\ \A i \in DOMAIN changes' : changes'[i].transaction <= transaction'
           /\ \A c : Pending(c) => Pending(c)'
           /\ o = <<o[1]>> /\ action = "delete" => Pending(o[1])'
<1> DEFINE c == [object |-> o, action |-> action, transaction |-> transaction]
<1>1. c \in Change /\ c.object = o /\ c.transaction = transaction
    BY BatchAssumption DEF Typed, Change, Actions
<1>2. changes' = Append(changes, c) /\ events' = AddEvent(events, EventOf(Len(changes) + 1, o, action, level))
    BY DEF Record
<1>3. changes \in Seq(Change) /\ level \in Nat /\ transaction \in Nat /\ Divided(events, afterwards, changes)
    BY BatchAssumption DEF Typed, Telling
<1> HIDE DEF c
<1>4. /\ Divided(events', afterwards, Append(changes, c))
      /\ \A r, a, i : Tells(events, r, a, i) => Tells(events', r, a, i)
      /\ Tells(events', Len(o), action, Len(changes) + 1)
    BY <1>1, <1>2, <1>3, Stacked
<1>5. /\ changes' \in Seq(Change) /\ Len(changes) \in Nat
      /\ DOMAIN changes = 1..Len(changes) /\ DOMAIN changes' = 1..(Len(changes) + 1)
      /\ \A k \in DOMAIN changes : changes'[k] = changes[k]
      /\ changes'[Len(changes) + 1] = c
    BY <1>1, <1>2, <1>3, AppendIs
<1>6. \A k : k \in DOMAIN changes' <=> k \in DOMAIN changes \/ k = Len(changes) + 1
    BY <1>5
<1>7. \A i \in DOMAIN changes' : changes'[i].transaction <= transaction'
    BY <1>1, <1>3, <1>5, <1>6 DEF Telling
<1>8. \A d : Pending(d) => Pending(d)'
    BY <1>4, <1>5, <1>6 DEF Pending
<1>9. o = <<o[1]>> /\ action = "delete" => Pending(o[1])'
    <2> SUFFICES ASSUME o = <<o[1]>>, action = "delete" PROVE Pending(o[1])'
        OBVIOUS
    <2>1. Len(o) = 1
        BY Objects
    <2>2. Len(changes) + 1 \in DOMAIN changes' /\ changes'[Len(changes) + 1].object[1] = o[1]
        BY <1>1, <1>5, <1>6
    <2> QED BY <1>4, <2>1, <2>2 DEF Pending
<1>10. Divided(events, afterwards, changes)'
    BY <1>2, <1>4
<1> QED BY <1>5, <1>7, <1>8, <1>9, <1>10

\* What a subrequest may make of the objects and of what is looked up.
LEMMA Followed ==
    ASSUME Typed, Following, phase = "requests", phase' = "requests", UNCHANGED <<committed, transaction>>,
           NEW o \in Object, IsLookedUp(o) => <<o[1]>> \in db, KnowParent(o),
           db' \subseteq Object,
           \A d : Pending(d) => Pending(d)',
           \/ db' = db \cup {o}
           \/ db' = db
           \/ db' = db \ {o} /\ (o = <<o[1]>> => Pending(o[1])')
    PROVE  Following'
<1> SUFFICES ASSUME transaction = 1 PROVE Following'
    BY DEF Following
<1>1. CASE o = <<o[1]>> /\ o[1] \in Collections /\ Len(o) = 1
    <2>1. bound' = bound
        BY <1>1 DEF KnowParent
    <2>2. \A d, r : <<d, r>> \in db' <=> <<d, r>> \in db
        <3>1. \A d, r : <<d, r>> # <<o[1]>>
            OBVIOUS
        <3> QED BY <1>1, <3>1
    <2>3. \A d : <<d>> \in db' \/ <<d>> \notin db \/ Pending(d)'
        <3> SUFFICES ASSUME NEW d, <<d>> \in db, <<d>> \notin db' PROVE Pending(d)'
            OBVIOUS
        <3>1. db' = db \ {o} /\ <<d>> = o
            OBVIOUS
        <3>2. d = o[1]
            BY <3>1
        <3> QED BY <1>1, <3>1, <3>2
    <2>4. \A d \in bound' : <<d>> \in db' \/ Pending(d)'
        BY <2>1, <2>3 DEF Following
    <2>5. \A d \in Collections : Orphaned(db', d) => Pending(d)'
        BY <2>2, <2>3 DEF Following, Orphaned
    <2> QED BY <2>4, <2>5 DEF Following
<1>2. CASE o = <<o[1], o[2]>> /\ o[1] \in Collections /\ o[2] \in Records /\ Len(o) = 2
    <2>1. \A d : <<d>> \in db' <=> <<d>> \in db
        <3>1. \A d : <<d>> # <<o[1], o[2]>>
            OBVIOUS
        <3> QED BY <1>2, <3>1
    <2>2. \A d \in bound' : d \in bound \/ <<d>> \in db
        BY DEF KnowParent
    <2>3. <<o[1]>> \in db \/ o[1] \in bound
        BY <1>2 DEF IsLookedUp
    <2>4. \A d, r : <<d, r>> \in db' => <<d, r>> \in db \/ d = o[1]
        <3>1. \A d, r : <<d, r>> = <<o[1], o[2]>> => d = o[1]
            OBVIOUS
        <3> QED BY <1>2, <3>1
    <2>5. \A d \in bound' : <<d>> \in db' \/ Pending(d)'
        BY <2>1, <2>2 DEF Following
    <2>6. \A d \in Collections : Orphaned(db', d) => Pending(d)'
        BY <2>1, <2>3, <2>4 DEF Following, Orphaned
    <2> QED BY <2>5, <2>6 DEF Following
<1> QED BY <1>1, <1>2, Objects

LEMMA PutStep ==
    ASSUME IInv, NEW o \in Object, Put(o)
    PROVE  IInv'
<1> DEFINE action == ActionOfPut(o)
<1>1. /\ More /\ phase = "requests" /\ (IsLookedUp(o) => <<o[1]>> \in db) /\ KnowParent(o)
      /\ db' = db \cup {o} /\ Record(o, action)
      /\ Respond(o, action, IF o \in db THEN 200 ELSE 201)
      /\ UNCHANGED <<committed, transaction, level, afterwards, heard, announced, phase, status>>
    BY DEF Put, More
<1>2. Typed /\ Telling /\ Following /\ action \in Actions
    BY DEF IInv, ActionOfPut, Actions
<1> HIDE DEF action
<1>3. /\ changes' \in Seq(Change) /\ Divided(events, afterwards, changes)'
      /\ \A i \in DOMAIN changes' : changes'[i].transaction <= transaction'
      /\ \A c : Pending(c) => Pending(c)'
    BY <1>1, <1>2, Recorded
<1>4. /\ responses' \in Seq(Response) /\ Len(responses) \in Nat
      /\ Len(responses') = Len(responses) + 1 /\ Len(responses') <= MaxRequests
      /\ Conflicted' <=> Conflicted
    <2>1. PICK code \in {200, 201} : Respond(o, action, code)
        BY <1>1
    <2> QED BY <1>1, <1>2, <2>1, Responded
<1>5. db' \subseteq Object /\ bound' \subseteq Collections
    BY <1>1, <1>2, Objects DEF Typed, KnowParent
<1>6. Typed'
    <2>1. events' \in Seq(Event) /\ Keyed(events')
        BY <1>3 DEF Divided
    <2>2. /\ committed' \subseteq Object /\ transaction' \in 1..(MaxRequests + 1)
          /\ afterwards' \in Seq(Event) /\ Keyed(afterwards')
          /\ heard' \in Seq(Event) /\ announced' \in Seq(Event) /\ level' \in 1..2
          /\ phase' \in {"requests", "before", "commit", "after", "done"}
          /\ status' \in {0, 200, 500, 503}
          /\ phase' = "requests" => level' = 1
        BY <1>1, <1>2 DEF Typed
    <2>3. /\ transaction' <= Len(responses') + 1
          /\ transaction' > 1 <=> Conflicted'
        BY <1>1, <1>2, <1>4, BatchAssumption DEF Typed
    <2> QED BY <1>3, <1>4, <1>5, <2>1, <2>2, <2>3 DEF Typed
<1>7. Telling'
    BY <1>1, <1>2, <1>3 DEF Telling
<1>8. Following'
    BY <1>1, <1>2, <1>3, <1>5, Followed
<1> QED BY <1>6, <1>7, <1>8 DEF IInv

LEMMA DeleteStep ==
    ASSUME IInv, NEW o \in Object, Delete(o)
    PROVE  IInv'
<1>1. /\ More /\ phase = "requests" /\ (IsLookedUp(o) => <<o[1]>> \in db) /\ KnowParent(o)
      /\ UNCHANGED <<committed, transaction, level, afterwards, heard, announced, phase, status>>
    BY DEF Delete, More
<1>2. Typed /\ Telling /\ Following /\ "delete" \in Actions
    BY DEF IInv, Actions
<1>3. bound' \subseteq Collections
    BY <1>1, <1>2, Objects DEF Typed, KnowParent
<1>4. CASE o \in db
    <2>1. db' = db \ {o} /\ Record(o, "delete") /\ Respond(o, "delete", 200)
        BY <1>4 DEF Delete
    <2>2. /\ changes' \in Seq(Change) /\ Divided(events, afterwards, changes)'
          /\ \A i \in DOMAIN changes' : changes'[i].transaction <= transaction'
          /\ \A c : Pending(c) => Pending(c)'
          /\ o = <<o[1]>> => Pending(o[1])'
        BY <1>1, <1>2, <2>1, Recorded
    <2>3. /\ responses' \in Seq(Response) /\ Len(responses) \in Nat
          /\ Len(responses') = Len(responses) + 1 /\ Len(responses') <= MaxRequests
          /\ Conflicted' <=> Conflicted
        BY <1>1, <1>2, <2>1, Responded
    <2>4. db' \subseteq Object
        BY <1>2, <2>1 DEF Typed
    <2>5. Typed'
        BY <1>1, <1>2, <1>3, <2>2, <2>3, <2>4, BatchAssumption DEF Typed, Divided
    <2>6. Telling'
        BY <1>1, <1>2, <2>2 DEF Telling
    <2>7. Following'
        BY <1>1, <1>2, <2>1, <2>2, <2>4, Followed
    <2> QED BY <2>5, <2>6, <2>7 DEF IInv
<1>5. CASE o \notin db
    <2>1. Respond(o, "delete", 404) /\ UNCHANGED <<db, changes, events>>
        BY <1>5 DEF Delete
    <2>2. /\ responses' \in Seq(Response) /\ Len(responses) \in Nat
          /\ Len(responses') = Len(responses) + 1 /\ Len(responses') <= MaxRequests
          /\ Conflicted' <=> Conflicted
        BY <1>1, <1>2, <2>1, Responded
    <2>3. Typed'
        BY <1>1, <1>2, <1>3, <2>1, <2>2, BatchAssumption DEF Typed
    <2>4. Telling'
        BY <1>1, <1>2, <2>1 DEF Telling
    <2>5. db' \subseteq Object /\ \A c : Pending(c) => Pending(c)'
        BY <1>2, <2>1 DEF Typed, Pending
    <2>6. Following'
        BY <1>1, <1>2, <2>1, <2>5, Followed
    <2> QED BY <2>3, <2>4, <2>6 DEF IInv
<1> QED BY <1>4, <1>5

\* A 404 of a parent, or what a conflict leaves: the log is as it was.
LEMMA RefusedStep ==
    ASSUME IInv, NEW o \in Object, NEW action \in Actions, NotFoundParent(o, action) \/ Conflict(o)
    PROVE  IInv'
<1>1. /\ More /\ phase = "requests"
      /\ UNCHANGED <<committed, changes, events, level, afterwards, heard, announced, phase, status>>
    BY DEF NotFoundParent, Conflict, More
<1>2. Typed /\ Telling /\ Following
    BY DEF IInv
<1>3. \A c : Pending(c) => Pending(c)'
    BY <1>1 DEF Pending
<1>4. CASE NotFoundParent(o, action)
    <2>1. Respond(o, action, 404) /\ UNCHANGED <<db, transaction, bound>>
        BY <1>4 DEF NotFoundParent
    <2>2. /\ responses' \in Seq(Response) /\ Len(responses) \in Nat
          /\ Len(responses') = Len(responses) + 1 /\ Len(responses') <= MaxRequests
          /\ Conflicted' <=> Conflicted
        BY <1>1, <1>2, <2>1, Responded
    <2>3. Typed'
        BY <1>1, <1>2, <2>1, <2>2, BatchAssumption DEF Typed
    <2>4. Telling'
        BY <1>1, <1>2, <2>1 DEF Telling
    <2>5. Following'
        BY <1>1, <1>2, <1>3, <2>1 DEF Following
    <2> QED BY <2>3, <2>4, <2>5 DEF IInv
<1>5. CASE Conflict(o)
    <2>1. /\ KnowParent(o) /\ db' = committed /\ transaction' = transaction + 1
          /\ Respond(o, ActionOfPut(o), 409)
        BY <1>5 DEF Conflict
    <2>2. ActionOfPut(o) \in Actions
        BY DEF ActionOfPut, Actions
    <2>3. /\ responses' \in Seq(Response) /\ Len(responses) \in Nat
          /\ Len(responses') = Len(responses) + 1 /\ Len(responses') <= MaxRequests
          /\ Conflicted'
        BY <1>1, <1>2, <2>1, <2>2, Responded
    <2>4. bound' \subseteq Collections
        BY <1>2, <2>1, Objects DEF Typed, KnowParent
    <2>5. transaction' \in 1..(MaxRequests + 1) /\ transaction' > 1 /\ transaction' <= Len(responses') + 1
        BY <1>2, <2>1, <2>3, BatchAssumption DEF Typed
    <2>6. Typed'
        BY <1>1, <1>2, <2>1, <2>3, <2>4, <2>5 DEF Typed
    <2>7. \A i \in DOMAIN changes' : changes'[i].transaction <= transaction'
        <3> SUFFICES ASSUME NEW i \in DOMAIN changes PROVE changes[i].transaction <= transaction + 1
            BY <1>1, <2>1
        <3>1. changes[i].transaction \in Nat /\ changes[i].transaction <= transaction /\ transaction \in Nat
            <4>1. changes[i] \in Change
                BY <1>2, LenProperties, ElementOfSeq DEF Typed
            <4> QED BY <1>2, <4>1, BatchAssumption DEF Typed, Telling, Change
        <3> QED BY <3>1
    <2>8. Telling'
        BY <1>1, <1>2, <2>7 DEF Telling
    <2>9. Following'
        BY <2>5 DEF Following
    <2> QED BY <2>6, <2>8, <2>9 DEF IInv
<1> QED BY <1>4, <1>5

\* The request fails, by a subrequest, by a subscriber or at its commit.
LEMMA AbortStep ==
    ASSUME IInv, Fail \/ Refuse \/ FailCommit
    PROVE  IInv'
<1>1. /\ phase \in {"requests", "before", "commit"} /\ phase' = "done"
      /\ db' = committed /\ status' \in {500, 503}
      /\ UNCHANGED <<committed, transaction, bound, changes, level, heard, announced, responses, events, afterwards>>
    BY DEF Fail, Refuse, FailCommit, Abort
<1>2. Typed /\ Telling /\ Following
    BY DEF IInv
<1>3. Typed'
    BY <1>1, <1>2 DEF Typed, Conflicted
<1>4. Telling'
    BY <1>1, <1>2 DEF Telling
<1>5. Following'
    BY <1>1, <1>2 DEF Following
<1> QED BY <1>3, <1>4, <1>5 DEF IInv

LEMMA EndRequestsStep == ASSUME IInv, EndRequests PROVE IInv'
<1>1. /\ phase = "requests" /\ phase' = "before" /\ level' = level + 1 /\ afterwards' = <<>>
      /\ UNCHANGED <<committed, db, transaction, bound, changes, events, heard, announced, responses, status>>
    BY DEF EndRequests
<1>2. Typed /\ Telling /\ Following
    BY DEF IInv
<1>3. afterwards' = afterwards
    BY <1>1, <1>2 DEF Telling
<1>4. Typed'
    BY <1>1, <1>2, <1>3 DEF Typed, Conflicted
<1>5. Telling'
    BY <1>1, <1>2, <1>3 DEF Telling
<1>6. Following'
    BY <1>1, <1>2 DEF Following, Pending
<1> QED BY <1>4, <1>5, <1>6 DEF IInv

\* What the cascade of an event deletes: the records of the collections whose
\* deletion it tells, and no collection.
LEMMA CascadeIs ==
    ASSUME Typed, NEW e \in Event
    PROVE  /\ Cascade(e) \subseteq db
           /\ \A c : <<c>> \in Cascade(e) <=> <<c>> \in db
           /\ \A i, c : /\ e.resource = 1 /\ e.action = "delete" /\ Says(e, i) /\ changes[i].object[1] = c
                        => ~Orphaned(Cascade(e), c)
<1>1. Cascade(e) \subseteq db
    BY DEF Cascade
<1>2. \A c, S : <<c>> \notin UNION {RecordsOf(d) : d \in S}
    <2>1. \A c, d : <<c>> \notin {d} \X Records
        <3> SUFFICES ASSUME NEW c, NEW d, <<c>> \in {d} \X Records PROVE FALSE
            OBVIOUS
        <3>1. PICK x \in {d}, r \in Records : <<c>> = <<x, r>>
            OBVIOUS
        <3>2. Len(<<c>>) = 1 /\ Len(<<x, r>>) = 2
            OBVIOUS
        <3> QED BY <3>1, <3>2
    <2> QED BY <2>1 DEF RecordsOf
<1>3. \A c : <<c>> \in Cascade(e) <=> <<c>> \in db
    BY <1>2 DEF Cascade
<1>4. ASSUME NEW i, NEW c, e.resource = 1, e.action = "delete", Says(e, i), changes[i].object[1] = c,
             NEW r \in Records, <<c, r>> \in Cascade(e)
      PROVE  FALSE
    <2>1. c \in DeletedCollections(e)
        BY <1>4 DEF DeletedCollections, Says
    <2>2. <<c, r>> \in RecordsOf(c)
        BY DEF RecordsOf
    <2> QED BY <1>4, <2>1, <2>2 DEF Cascade
<1> QED BY <1>1, <1>3, <1>4 DEF Orphaned

LEMMA NotifyBeforeStep == ASSUME IInv, NotifyBefore PROVE IInv'
<1> DEFINE e == Head(events)
<1>1. /\ phase = "before" /\ events # <<>>
      /\ heard' = Append(heard, e) /\ afterwards' = AddEvent(afterwards, Flattened(e)) /\ db' = Cascade(e)
      /\ UNCHANGED <<committed, transaction, bound, level, announced, responses, phase, status>>
    BY DEF NotifyBefore
<1>2. Typed /\ Telling /\ Following /\ Divided(events, afterwards, changes)
    BY <1>1 DEF IInv, Telling
<1>3. /\ Divided(Tail(events), afterwards', changes) /\ e \in Event
      /\ \A r, a, i : Tells(events, r, a, i) =>
            \/ Tells(Tail(events), r, a, i)
            \/ r = e.resource /\ a = e.action /\ Says(e, i)
    BY <1>1, <1>2, Drained
<1>4. \/ events' = Tail(events) /\ UNCHANGED changes
      \/ \E o \in Object : /\ changes' = Append(changes, [object |-> o, action |-> "update", transaction |-> transaction])
                           /\ events' = AddEvent(Tail(events), EventOf(Len(changes) + 1, o, "update", level))
    <2>1. db \subseteq Object
        BY <1>2 DEF Typed
    <2> QED BY <2>1 DEF NotifyBefore
<1> HIDE DEF e
<1>5. /\ changes' \in Seq(Change) /\ Divided(events', afterwards', changes')
      /\ \A i \in DOMAIN changes : i \in DOMAIN changes' /\ changes'[i] = changes[i]
      /\ \A i \in DOMAIN changes' : changes'[i].transaction <= transaction
      /\ \A r, a, i : Tells(Tail(events), r, a, i) => Tells(events', r, a, i)
    <2>1. CASE events' = Tail(events) /\ UNCHANGED changes
        BY <1>2, <1>3, <2>1 DEF Typed, Telling
    <2>2. CASE \E o \in Object :
                  /\ changes' = Append(changes, [object |-> o, action |-> "update", transaction |-> transaction])
                  /\ events' = AddEvent(Tail(events), EventOf(Len(changes) + 1, o, "update", level))
        <3>1. PICK o \in Object :
                  /\ changes' = Append(changes, [object |-> o, action |-> "update", transaction |-> transaction])
                  /\ events' = AddEvent(Tail(events), EventOf(Len(changes) + 1, o, "update", level))
            BY <2>2
        <3> DEFINE c == [object |-> o, action |-> "update", transaction |-> transaction]
        <3>2. c \in Change /\ c.transaction = transaction /\ "update" \in Actions
            BY <1>2, BatchAssumption DEF Typed, Change, Actions
        <3>3. changes' = Append(changes, c) /\ changes \in Seq(Change) /\ level \in Nat /\ transaction \in Nat
            BY <1>2, <3>1, BatchAssumption DEF Typed
        <3> HIDE DEF c
        <3>4. /\ Divided(events', afterwards', Append(changes, c))
              /\ \A r, a, i : Tells(Tail(events), r, a, i) => Tells(events', r, a, i)
            BY <1>3, <3>1, <3>2, <3>3, Stacked
        <3>5. /\ changes' \in Seq(Change) /\ Len(changes) \in Nat
              /\ DOMAIN changes = 1..Len(changes) /\ DOMAIN changes' = 1..(Len(changes) + 1)
              /\ \A k \in DOMAIN changes : changes'[k] = changes[k]
              /\ changes'[Len(changes) + 1] = c
            BY <3>2, <3>3, AppendIs
        <3>6. \A k : k \in DOMAIN changes' <=> k \in DOMAIN changes \/ k = Len(changes) + 1
            BY <3>5
        <3>7. \A i \in DOMAIN changes' : changes'[i].transaction <= transaction
            BY <1>2, <3>2, <3>3, <3>5, <3>6 DEF Telling
        <3> QED BY <3>3, <3>4, <3>5, <3>6, <3>7
    <2> QED BY <1>4, <2>1, <2>2
<1>6. heard' \in Seq(Event)
    BY <1>1, <1>2, <1>3, AppendProperties DEF Typed
<1>7. /\ Cascade(e) \subseteq db
      /\ \A c : <<c>> \in Cascade(e) <=> <<c>> \in db
      /\ \A i, c : /\ e.resource = 1 /\ e.action = "delete" /\ Says(e, i) /\ changes[i].object[1] = c
                   => ~Orphaned(Cascade(e), c)
    BY <1>2, <1>3, CascadeIs
<1>8. Typed'
    <2>1. db' \subseteq Object
        BY <1>1, <1>2, <1>7 DEF Typed
    <2> QED BY <1>1, <1>2, <1>5, <1>6, <2>1 DEF Typed, Divided, Conflicted
<1>9. Telling'
    BY <1>1, <1>2, <1>5 DEF Telling
<1>10. Following'
    <2> SUFFICES ASSUME transaction = 1, NEW c \in Collections, Orphaned(db', c)
                 PROVE  Pending(c)'
        BY <1>1, <1>2 DEF Following
    <2>1. Orphaned(db, c)
        BY <1>1, <1>7 DEF Orphaned
    <2>2. PICK i \in DOMAIN changes : changes[i].object[1] = c /\ Tells(events, 1, "delete", i)
        BY <1>1, <1>2, <2>1 DEF Following, Pending
    <2>3. Tells(Tail(events), 1, "delete", i)
        BY <1>1, <1>3, <1>7, <2>2
    <2> QED BY <1>5, <2>2, <2>3 DEF Pending
<1> QED BY <1>8, <1>9, <1>10 DEF IInv

LEMMA EndBeforeStep == ASSUME IInv, EndBefore PROVE IInv'
<1>1. /\ phase = "before" /\ events = <<>> /\ events' = afterwards /\ phase' = "commit"
      /\ UNCHANGED <<committed, db, transaction, bound, changes, level, afterwards, heard, announced, responses, status>>
    BY DEF EndBefore
<1>2. Typed /\ Telling /\ Following
    BY DEF IInv
<1>3. Typed'
    BY <1>1, <1>2 DEF Typed, Conflicted
<1>4. Whole(announced \o events, changes)'
    <2>1. Whole(afterwards, changes) /\ announced = <<>> /\ afterwards \in Seq(Event)
        BY <1>1, <1>2, Ended DEF Telling, Typed
    <2>2. <<>> \o afterwards = afterwards
        BY <2>1, ConcatEmptySeq
    <2> QED BY <1>1, <2>1, <2>2
<1>5. Telling'
    BY <1>1, <1>2, <1>4 DEF Telling
<1>6. \A c : ~Pending(c)
    BY <1>1, Nothing DEF Pending
<1>7. Following'
    BY <1>1, <1>2, <1>6 DEF Following
<1> QED BY <1>3, <1>5, <1>7 DEF IInv

LEMMA CommitStep == ASSUME IInv, Commit PROVE IInv'
<1>1. /\ phase = "commit" /\ committed' = db /\ phase' = IF transaction = 1 THEN "after" ELSE "done"
      /\ UNCHANGED <<db, transaction, bound, changes, events, level, afterwards, heard, announced, responses>>
    BY DEF Commit
<1>2. Typed /\ Telling /\ Following
    BY DEF IInv
<1>3. status' = 200 /\ announced = <<>>
    BY <1>1, <1>2 DEF Telling, Commit
<1>4. Typed'
    BY <1>1, <1>2, <1>3 DEF Typed, Conflicted
<1>5. Telling'
    BY <1>1, <1>2, <1>3 DEF Telling
<1>6. Following'
    BY <1>1, <1>2 DEF Following
<1> QED BY <1>4, <1>5, <1>6 DEF IInv

LEMMA NotifyAfterStep == ASSUME IInv, NotifyAfter PROVE IInv'
<1>1. /\ phase = "after"
      /\ UNCHANGED <<committed, db, transaction, bound, changes, level, afterwards, heard, responses, status>>
    BY DEF NotifyAfter
<1>2. Typed /\ Telling /\ Following
    BY DEF IInv
<1>3. status = 200 /\ transaction = 1 /\ Whole(announced \o events, changes)
      /\ announced \in Seq(Event) /\ events \in Seq(Event)
    BY <1>1, <1>2 DEF Telling, Typed
<1>4. CASE events = <<>>
    <2>1. phase' = "done" /\ UNCHANGED <<events, announced>>
        BY <1>4 DEF NotifyAfter
    <2>2. announced \o events = announced
        BY <1>3, <1>4, ConcatEmptySeq
    <2>3. Typed'
        BY <1>1, <1>2, <2>1 DEF Typed, Conflicted
    <2>4. Telling'
        BY <1>1, <1>2, <1>3, <2>1, <2>2 DEF Telling
    <2>5. Following'
        BY <1>1, <1>2, <2>1 DEF Following
    <2> QED BY <2>3, <2>4, <2>5 DEF IInv
<1>5. CASE events # <<>>
    <2>1. announced' = Append(announced, Head(events)) /\ events' = Tail(events) /\ UNCHANGED phase
        BY <1>5 DEF NotifyAfter
    <2>2. /\ announced' \in Seq(Event) /\ events' \in Seq(Event)
          /\ announced' \o events' = announced \o events
          /\ Keyed(events) => Keyed(events')
        BY <1>3, <1>5, <2>1, Announcing
    <2>3. Typed'
        BY <1>1, <1>2, <2>1, <2>2 DEF Typed, Conflicted
    <2>4. Telling'
        BY <1>1, <1>2, <1>3, <2>1, <2>2 DEF Telling
    <2>5. Following'
        BY <1>1, <1>2, <2>1 DEF Following
    <2> QED BY <2>3, <2>4, <2>5 DEF IInv
<1> QED BY <1>4, <1>5

(***************************************************************************)
(* The theorems                                                            *)
(***************************************************************************)
LEMMA NextIInv == IInv /\ [Next]_vars => IInv'
<1> SUFFICES ASSUME IInv, [Next]_vars PROVE IInv'
    OBVIOUS
<1>1. CASE Subrequest
    <2>1. {"create", "delete"} \subseteq Actions
        BY DEF Actions
    <2> QED BY <1>1, <2>1, PutStep, DeleteStep, RefusedStep DEF Subrequest
<1>2. CASE UNCHANGED vars
    <2>1. UNCHANGED <<committed, db, transaction, bound, changes, events, level, afterwards, heard, announced,
                      responses, phase, status>>
        BY <1>2 DEF vars
    <2>2. Typed' /\ Telling'
        BY <2>1 DEF IInv, Typed, Conflicted, Telling
    <2>3. Following'
        BY <2>1 DEF IInv, Following, Pending
    <2> QED BY <2>2, <2>3 DEF IInv
<1> QED BY <1>1, <1>2, AbortStep, EndRequestsStep, NotifyBeforeStep, EndBeforeStep, CommitStep, NotifyAfterStep
        DEF Next, Terminated

LEMMA Inductive == Spec => []IInv
BY InitIInv, NextIInv, PTL DEF Spec

\* The state of a batch is of its types, and the dicts of events have each key
\* once (EventCollector), for batches of any length.
THEOREM BatchTypeCorrect == Spec => []TypeOK
<1>1. IInv => TypeOK
    BY DEF IInv, Typed, TypeOK, Response, Actions
<1> QED BY <1>1, Inductive, PTL

\* Every change of a committed batch is announced by AfterResourceChanged, in
\* one place of one event, and one event per resource, parent and action; what
\* was not committed, or was rolled back by a 409, is not (add_event(), drain(),
\* get_resource_events(), _notify_resource_events_after()).
THEOREM CommittedIsAnnouncedOnce == Spec => []AnnouncedIsCommitted
<1>1. ASSUME IInv PROVE AnnouncedIsCommitted
    <2>1. Typed /\ Telling
        BY <1>1 DEF IInv
    <2>2. /\ Keyed(announced) /\ MentionsOnce(announced) /\ OfLevel(announced, 1)
          /\ \A i : Mentions(announced, i) => i \in DOMAIN changes /\ transaction = 1
        <3>1. CASE announced = <<>>
            BY <3>1, Nothing
        <3>2. CASE announced # <<>> /\ phase = "after"
            <4>1. Whole(announced \o events, changes) /\ transaction = 1
                BY <2>1, <3>2 DEF Telling
            <4> QED BY <2>1, <4>1, AnnouncedSoFar DEF Typed
        <3>3. CASE announced # <<>> /\ phase = "done"
            <4>1. Whole(announced, changes) /\ transaction = 1
                BY <2>1, <3>3 DEF Telling
            <4> QED BY <4>1 DEF Whole
        <3> QED BY <2>1, <3>1, <3>2, <3>3 DEF Telling, Typed
    <2>3. AnnouncedOncePerAction
        <3> SUFFICES ASSUME NEW m \in DOMAIN announced, NEW n \in DOMAIN announced, m # n,
                            announced[m].resource = announced[n].resource,
                            announced[m].parent = announced[n].parent,
                            announced[m].action = announced[n].action
                     PROVE  FALSE
            BY DEF AnnouncedOncePerAction
        <3> QED BY <2>2 DEF Keyed, SameKey, OfLevel
    <2>4. phase \notin {"after", "done"} \/ status # 200 => announced = <<>>
        BY <2>1 DEF Telling, Typed
    <2>5. Done /\ status = 200 /\ ~Conflicted => \A i \in DOMAIN changes : Mentions(announced, i)
        <3>1. ~Conflicted => transaction = 1
            BY <2>1, BatchAssumption DEF Typed
        <3> QED BY <2>1, <3>1 DEF Done, Telling, Whole
    <2>6. ASSUME NEW n \in DOMAIN announced, NEW k \in DOMAIN announced[n].impacted
          PROVE  LET i == announced[n].impacted[k]
                 IN i \in DOMAIN changes /\ changes[i].transaction = transaction
        <3> DEFINE i == announced[n].impacted[k]
        <3>1. Mentions(announced, i)
            BY DEF Mentions
        <3>2. i \in DOMAIN changes /\ transaction = 1
            BY <2>2, <3>1
        <3>3. changes[i].transaction <= 1 /\ changes[i].transaction \in Nat \ {0}
            <4>1. changes[i] \in Change
                BY <2>1, <3>2, LenProperties, ElementOfSeq DEF Typed
            <4>2. changes[i].transaction \in Nat \ {0}
                BY <4>1 DEF Change
            <4>3. changes[i].transaction <= transaction
                BY <2>1, <3>2 DEF Telling
            <4> QED BY <3>2, <4>2, <4>3
        <3> QED BY <3>2, <3>3
    <2> QED BY <2>2, <2>3, <2>4, <2>5, <2>6 DEF AnnouncedIsCommitted
<1> QED BY <1>1, Inductive, PTL

\* Unless a 409 aborted the transaction, a batch leaves no record without its
\* collection: in whatever order it deletes collections and writes to those
\* that bound_data remembers, the cascade of each deletion runs after them
\* (Record.__init__, on_collections_deleted()).
THEOREM CascadesLeaveNoOrphans == Spec => []NoOrphansUnlessConflict
<1>1. ASSUME IInv PROVE NoOrphansUnlessConflict
    <2> SUFFICES ASSUME ~Conflicted, NEW o \in committed, Len(o) = 2
                 PROVE  <<o[1]>> \in committed
        BY DEF NoOrphansUnlessConflict
    <2>1. transaction = 1 /\ o \in Object
        BY <1>1, BatchAssumption DEF IInv, Typed
    <2>2. o[1] \in Collections /\ o[2] \in Records /\ o = <<o[1], o[2]>>
        BY <2>1, Objects
    <2>3. ~Orphaned(committed, o[1])
        BY <1>1, <2>1, <2>2 DEF IInv, Following
    <2> QED BY <2>2, <2>3 DEF Orphaned
<1> QED BY <1>1, Inductive, PTL

(***************************************************************************)
(* What the answers say                                                    *)
(***************************************************************************)
NoRecords(objects, c) == \A r \in Records : <<c, r>> \notin objects

\* What the transaction sees is what the answers say, but for the records of
\* the collections that were deleted, whose cascades are to come until none of
\* these records is left; and the events tell no other deletion.
Keeping ==
    /\ phase \in {"requests", "before", "commit"} =>
          /\ \A c \in Collections : ~Orphaned(committed, c)
          /\ \A o \in Object : ~IsSwept(o) => (o \in db <=> Stands(o))
    /\ phase \in {"requests", "before"} => \A c \in Collections : Pending(c) => IsDeleted(c)
    /\ phase = "requests" =>
          \A c \in Collections : /\ IsDeleted(c) => Pending(c)
                                 /\ Orphaned(db, c) => IsDeleted(c) \/ c \in bound
    /\ phase = "before" => \A c \in Collections : IsDeleted(c) => Pending(c) \/ NoRecords(db, c)
    /\ phase = "commit" => \A c \in Collections : IsDeleted(c) => NoRecords(db, c)

\* What one more answer changes.
LEMMA OneMoreAnswer ==
    ASSUME Typed, NEW o \in Object, NEW action \in Actions, NEW code \in {200, 201, 404, 409},
           Respond(o, action, code), committed' = committed
    PROVE  /\ \A c : IsDeleted(c)' <=> IsDeleted(c) \/ (o = <<c>> /\ action = "delete" /\ code = 200)
           /\ code = 409 => \A p : Stands(p)' <=> p \in committed
           /\ code # 409 => \A p : p # o => (Stands(p)' <=> Stands(p))
           /\ code # 409 => (Stands(o)' <=> action # "delete" /\ code \in {200, 201})
<1> DEFINE r == [object |-> o, action |-> action, status |-> code]
           L == Len(responses) + 1
<1>1. r \in Response /\ r.object = o /\ r.action = action /\ r.status = code
    BY DEF Response
<1>2. responses' = Append(responses, r) /\ responses \in Seq(Response)
    BY DEF Typed, Respond
<1> HIDE DEF r
<1>3. /\ Len(responses) \in Nat /\ DOMAIN responses = 1..Len(responses) /\ DOMAIN responses' = 1..L
      /\ \A k \in DOMAIN responses : responses'[k] = responses[k]
      /\ responses'[L] = r
    BY <1>1, <1>2, AppendProperties, LenProperties
<1>4. /\ \A k : k \in DOMAIN responses' <=> k \in DOMAIN responses \/ k = L
      /\ L \in Nat /\ L \notin DOMAIN responses /\ DOMAIN responses \subseteq Nat
      /\ \A k \in DOMAIN responses : k < L /\ k <= L /\ ~(L <= k)
    BY <1>3
<1> HIDE DEF L
<1>5. ASSUME NEW c
      PROVE  IsDeleted(c)' <=> IsDeleted(c) \/ (o = <<c>> /\ action = "delete" /\ code = 200)
    <2> DEFINE Deletes(x) == x.object = <<c>> /\ x.action = "delete" /\ x.status = 200
    <2>1. Deletes(r) <=> o = <<c>> /\ action = "delete" /\ code = 200
        BY <1>1
    <2>2. IsDeleted(c) <=> \E n \in DOMAIN responses : Deletes(responses[n])
        BY DEF IsDeleted
    <2>3. IsDeleted(c)' <=> \E n \in DOMAIN responses' : Deletes(responses'[n])
        BY DEF IsDeleted
    <2> HIDE DEF Deletes
    <2> QED BY <1>3, <1>4, <2>1, <2>2, <2>3
<1>6. ASSUME code = 409 PROVE \A p : Stands(p)' <=> p \in committed
    <2>1. \A p : Answers(p)' = {}
        BY <1>1, <1>3, <1>4, <1>6 DEF Answers
    <2> QED BY <2>1 DEF Stands
<1>7. ASSUME code # 409 PROVE \A p, n : n \in Answers(p)' <=> n \in Answers(p) \/ (p = o /\ n = L)
    <2> SUFFICES ASSUME NEW p, NEW n PROVE n \in Answers(p)' <=> n \in Answers(p) \/ (p = o /\ n = L)
        OBVIOUS
    <2>1. CASE n \in DOMAIN responses
        BY <1>1, <1>3, <1>4, <1>7, <2>1 DEF Answers
    <2>2. CASE n = L
        BY <1>1, <1>3, <1>4, <1>7, <2>2 DEF Answers
    <2>3. CASE n \notin DOMAIN responses /\ n # L
        BY <1>4, <2>3 DEF Answers
    <2> QED BY <2>1, <2>2, <2>3
<1>8. \A p : Answers(p) \subseteq DOMAIN responses
    BY DEF Answers
<1>9. ASSUME code # 409, NEW p, p # o PROVE Stands(p)' <=> Stands(p)
    <2>1. Answers(p)' = Answers(p)
        BY <1>7, <1>9
    <2>2. \A n \in Answers(p) : responses'[n] = responses[n]
        BY <1>3, <1>8
    <2> QED BY <2>1, <2>2 DEF Stands
<1>10. ASSUME code # 409 PROVE Stands(o)' <=> action # "delete" /\ code \in {200, 201}
    <2>1. \A n : n \in Answers(o)' <=> n \in Answers(o) \/ n = L
        BY <1>7, <1>10
    <2>2. \A n \in Answers(o) : n <= L /\ ~(L <= n)
        BY <1>4, <1>8
    <2>3. L <= L
        BY <1>4
    <2>4. L \in Answers(o)' /\ \A m \in Answers(o)' : m <= L
        BY <2>1, <2>2, <2>3
    <2>5. \A n \in Answers(o)' : (\A m \in Answers(o)' : m <= n) => n = L
        BY <2>1, <2>2, <2>4
    <2> QED BY <1>1, <1>3, <2>4, <2>5 DEF Stands
<1> QED BY <1>5, <1>6, <1>9, <1>10

\* An added event tells no more than itself.
LEMMA AddedTells ==
    ASSUME NEW log \in Seq(Event), NEW e \in Event, NEW r, NEW a, NEW i, Tells(AddEvent(log, e), r, a, i)
    PROVE  Tells(log, r, a, i) \/ (r = e.resource /\ a = e.action /\ Says(e, i))
<1> DEFINE new == AddEvent(log, e)
<1>1. PICK n \in DOMAIN new : new[n].resource = r /\ new[n].action = a /\ Says(new[n], i)
    BY DEF Tells
<1>2. CASE \E m \in DOMAIN log : SameKey(log[m], e)
    <2>1. /\ DOMAIN new = DOMAIN log
          /\ new[n] = IF SameKey(log[n], e) THEN [log[n] EXCEPT !.impacted = @ \o e.impacted] ELSE log[n]
        BY <1>1, <1>2 DEF AddEvent
    <2>2. log[n] \in Event /\ n \in DOMAIN log
        BY <1>1, <2>1, ElementOfSeq, LenProperties
    <2>3. CASE ~SameKey(log[n], e)
        BY <1>1, <2>1, <2>2, <2>3 DEF Tells
    <2>4. CASE SameKey(log[n], e)
        <3>1. /\ log[n].resource = r /\ log[n].action = a /\ e.resource = r /\ e.action = a
              /\ new[n].impacted = log[n].impacted \o e.impacted
            BY <1>1, <2>1, <2>2, <2>4 DEF Event, SameKey
        <3>2. log[n].impacted \in Seq(Nat) /\ e.impacted \in Seq(Nat)
            BY <2>2, EventIs
        <3>3. Says(log[n], i) \/ Says(e, i)
            <4> DEFINE s == log[n].impacted
                       t == e.impacted
            <4>1. PICK k \in DOMAIN (s \o t) : (s \o t)[k] = i
                BY <1>1, <3>1 DEF Says
            <4>2. /\ \A j \in DOMAIN s : (s \o t)[j] = s[j]
                  /\ \A j \in DOMAIN t : (s \o t)[Len(s) + j] = t[j]
                  /\ k \in DOMAIN s \/ \E j \in DOMAIN t : k = Len(s) + j
                <5>1. s \in Seq(Nat) /\ t \in Seq(Nat)
                    BY <3>2
                <5> HIDE DEF s, t
                <5>2. \A u, v \in Seq(Nat) :
                         /\ \A j \in DOMAIN u : (u \o v)[j] = u[j]
                         /\ \A j \in DOMAIN v : (u \o v)[Len(u) + j] = v[j]
                         /\ \A j \in DOMAIN (u \o v) : j \in DOMAIN u \/ \E h \in DOMAIN v : j = Len(u) + h
                    BY ConcatIs
                <5> QED BY <4>1, <5>1, <5>2
            <4>3. (\E j \in DOMAIN s : s[j] = i) \/ \E j \in DOMAIN t : t[j] = i
                <5> HIDE DEF s, t
                <5> QED BY <4>1, <4>2
            <4> QED BY <4>3 DEF Says
        <3> QED BY <2>2, <3>1, <3>3 DEF Tells
    <2> QED BY <2>3, <2>4
<1>3. CASE ~\E m \in DOMAIN log : SameKey(log[m], e)
    <2>1. new = Append(log, e)
        BY <1>3 DEF AddEvent
    <2>2. /\ DOMAIN log = 1..Len(log) /\ Len(log) \in Nat /\ DOMAIN new = 1..(Len(log) + 1)
          /\ \A k \in DOMAIN log : new[k] = log[k]
          /\ new[Len(log) + 1] = e
        BY <2>1, AppendIs
    <2>3. n \in DOMAIN log \/ new[n] = e
        BY <1>1, <2>2
    <2> QED BY <1>1, <2>2, <2>3 DEF Tells
<1> QED BY <1>2, <1>3

\* What is stacked tells no deletion of a collection but its own.
LEMMA StackedTells ==
    ASSUME NEW log \in Seq(Event), Typed, NEW o \in Object, NEW action \in Actions, NEW i,
           Tells(AddEvent(log, EventOf(Len(changes) + 1, o, action, level)), 1, "delete", i)
    PROVE  Tells(log, 1, "delete", i) \/ (i = Len(changes) + 1 /\ Len(o) = 1 /\ action = "delete")
<1> DEFINE e == EventOf(Len(changes) + 1, o, action, level)
<1>1. Len(changes) + 1 \in Nat /\ level \in Nat
    BY LenProperties DEF Typed
<1>2. e \in Event /\ e.resource = Len(o) /\ e.action = action /\ \A j : Says(e, j) <=> j = Len(changes) + 1
    BY <1>1, EventOfIs
<1> HIDE DEF e
<1>3. Tells(log, 1, "delete", i) \/ (1 = e.resource /\ "delete" = e.action /\ Says(e, i))
    BY <1>2, AddedTells DEF e
<1> QED BY <1>2, <1>3

LEMMA InitKeeping == Init => Keeping
<1> SUFFICES ASSUME Init PROVE Keeping
    OBVIOUS
<1>1. IInv /\ events = <<>> /\ responses = <<>> /\ db = committed /\ transaction = 1 /\ phase = "requests"
    BY InitIInv DEF Init
<1>2. \A c \in Collections : ~Orphaned(committed, c)
    BY <1>1 DEF IInv, Following
<1>3. DOMAIN responses = {}
    BY <1>1
<1>4. /\ \A c : ~IsDeleted(c)
      /\ \A o : Answers(o) = {}
    BY <1>3 DEF IsDeleted, Answers
<1>5. \A o : Stands(o) <=> o \in committed
    BY <1>4 DEF Stands
<1>6. \A c : ~Pending(c)
    BY <1>1, Nothing DEF Pending
<1>7. \A c \in Collections : ~Orphaned(db, c)
    BY <1>1, <1>2
<1> QED BY <1>1, <1>2, <1>4, <1>5, <1>6, <1>7 DEF Keeping

\* The log tells what its first event and the others tell.
LEMMA TailTells ==
    ASSUME NEW log \in Seq(Event), log # <<>>
    PROVE  /\ \A r, a, i : Tells(Tail(log), r, a, i) => Tells(log, r, a, i)
           /\ \A i : Says(Head(log), i) => Tells(log, Head(log).resource, Head(log).action, i)
<1>1. /\ Head(log) = log[1] /\ 1 \in DOMAIN log
      /\ \A n \in DOMAIN Tail(log) : n + 1 \in DOMAIN log /\ Tail(log)[n] = log[n + 1]
    BY TailIs
<1> QED BY <1>1 DEF Tells

\* A recorded change makes no cascade pending but that of its own deletion.
LEMMA RecordedOnly ==
    ASSUME IInv, phase = "requests", NEW o \in Object, NEW action \in Actions, Record(o, action)
    PROVE  \A c : Pending(c)' => Pending(c) \/ (o = <<c>> /\ action = "delete")
<1> DEFINE new == [object |-> o, action |-> action, transaction |-> transaction]
<1>1. /\ Typed /\ changes \in Seq(Change) /\ events \in Seq(Event) /\ transaction \in Nat \ {0}
      /\ \A i : Mentions(events, i) => i \in DOMAIN changes
    BY BatchAssumption DEF IInv, Typed, Telling, Divided
<1>2. new \in Change /\ new.object = o
    BY <1>1 DEF Change, Actions
<1>3. changes' = Append(changes, new) /\ events' = AddEvent(events, EventOf(Len(changes) + 1, o, action, level))
    BY DEF Record
<1> HIDE DEF new
<1>4. /\ Len(changes) \in Nat /\ DOMAIN changes = 1..Len(changes)
      /\ \A k \in DOMAIN changes : changes'[k] = changes[k]
      /\ changes'[Len(changes) + 1] = new
    <2>1. \A s \in Seq(Change), x \in Change :
              /\ Len(s) \in Nat /\ DOMAIN s = 1..Len(s)
              /\ \A k \in DOMAIN s : Append(s, x)[k] = s[k]
              /\ Append(s, x)[Len(s) + 1] = x
        BY AppendIs
    <2> QED BY <1>1, <1>2, <1>3, <2>1
<1>5. \A i : Tells(events', 1, "delete", i) =>
          Tells(events, 1, "delete", i) \/ (i = Len(changes) + 1 /\ Len(o) = 1 /\ action = "delete")
    BY <1>1, <1>3, StackedTells
<1>6. \A i : Tells(events, 1, "delete", i) => i \in DOMAIN changes
    BY <1>1 DEF Tells, Mentions, Says
<1>7. ASSUME NEW c, NEW i \in DOMAIN changes', changes'[i].object[1] = c, Tells(events', 1, "delete", i)
      PROVE  Pending(c) \/ (o = <<c>> /\ action = "delete")
    <2>1. CASE Tells(events, 1, "delete", i)
        BY <1>4, <1>6, <1>7, <2>1 DEF Pending
    <2>2. CASE i = Len(changes) + 1 /\ Len(o) = 1 /\ action = "delete"
        <3>1. o = <<o[1]>>
            BY <2>2, Objects
        <3> QED BY <1>2, <1>4, <1>7, <2>2, <3>1
    <2> QED BY <1>5, <1>7, <2>1, <2>2
<1> QED BY <1>7 DEF Pending

\* What Keeping says of the phase of the subrequests.
InAccord ==
    /\ \A c \in Collections : ~Orphaned(committed, c)
    /\ \A o \in Object : ~IsSwept(o) => (o \in db <=> Stands(o))
    /\ \A c \in Collections : Pending(c) <=> IsDeleted(c)
    /\ \A c \in Collections : Orphaned(db, c) => IsDeleted(c) \/ c \in bound

LEMMA PutKeeps == ASSUME IInv, InAccord, NEW o \in Object, Put(o) PROVE InAccord'
<1> DEFINE action == ActionOfPut(o)
<1>1. /\ phase = "requests" /\ action \in Actions /\ action # "delete" /\ Record(o, action)
      /\ (IsLookedUp(o) => <<o[1]>> \in db) /\ KnowParent(o)
      /\ UNCHANGED <<committed, afterwards, transaction>>
    BY DEF Put, More, ActionOfPut, Actions
<1>2. db' = db \cup {o}
    BY DEF Put
<1>3. Typed /\ Telling
    BY DEF IInv
<1>4. \E code \in {200, 201} : Respond(o, action, code)
    BY DEF Put
<1> HIDE DEF action
<1>5. /\ \A c : IsDeleted(c)' <=> IsDeleted(c)
      /\ \A p : p # o => (Stands(p)' <=> Stands(p))
      /\ Stands(o)'
    BY <1>1, <1>3, <1>4, OneMoreAnswer
<1>6. \A p : IsSwept(p)' <=> IsSwept(p)
    BY <1>5 DEF IsSwept
<1>7. \A c \in Collections : ~Orphaned(committed, c)'
    BY <1>1 DEF InAccord, Orphaned
<1>8. \A p \in Object : ~IsSwept(p)' => (p \in db' <=> Stands(p)')
    BY <1>2, <1>5, <1>6 DEF InAccord
<1>9. \A c \in Collections : Pending(c)' <=> IsDeleted(c)'
    <2>1. \A c : Pending(c) => Pending(c)'
        BY <1>1, <1>3, Recorded
    <2>2. \A c : Pending(c)' => Pending(c)
        BY <1>1, RecordedOnly
    <2> QED BY <1>5, <2>1, <2>2 DEF InAccord
<1>10. ASSUME NEW c \in Collections, Orphaned(db', c) PROVE IsDeleted(c)' \/ c \in bound'
    <2>1. bound \subseteq bound' /\ (Len(o) = 2 /\ <<o[1]>> \in db => o[1] \in bound')
        BY <1>1 DEF KnowParent
    <2>2. CASE Orphaned(db, c)
        BY <1>5, <2>1, <2>2 DEF InAccord
    <2>3. CASE ~Orphaned(db, c)
        <3>1. PICK r \in Records : <<c, r>> \in db' /\ <<c>> \notin db'
            BY <1>10 DEF Orphaned
        <3>2. <<c, r>> = o /\ <<c>> \notin db
            BY <1>2, <2>3, <3>1 DEF Orphaned
        <3>3. Len(o) = 2 /\ o[1] = c
            BY <3>2
        <3> QED BY <1>1, <2>1, <3>2, <3>3 DEF IsLookedUp
    <2> QED BY <2>2, <2>3
<1> QED BY <1>7, <1>8, <1>9, <1>10 DEF InAccord

LEMMA DeleteKeeps == ASSUME IInv, InAccord, NEW o \in Object, Delete(o) PROVE InAccord'
<1>1. /\ phase = "requests" /\ "delete" \in Actions /\ bound \subseteq bound'
      /\ UNCHANGED <<committed, afterwards, transaction>>
    BY DEF Delete, More, KnowParent, Actions
<1>2. Typed /\ Telling
    BY DEF IInv
<1>3. \A c \in Collections : ~Orphaned(committed, c)'
    BY <1>1 DEF InAccord, Orphaned
<1>4. CASE o \in db
    <2>1. db' = db \ {o}
        BY <1>4 DEF Delete
    <2>2. Record(o, "delete") /\ Respond(o, "delete", 200)
        BY <1>4 DEF Delete
    <2>3. /\ \A c : IsDeleted(c)' <=> IsDeleted(c) \/ o = <<c>>
          /\ \A p : p # o => (Stands(p)' <=> Stands(p))
          /\ ~Stands(o)'
        BY <1>1, <1>2, <2>2, OneMoreAnswer
    <2>4. \A p : IsSwept(p) => IsSwept(p)'
        BY <2>3 DEF IsSwept
    <2>5. \A p \in Object : ~IsSwept(p)' => (p \in db' <=> Stands(p)')
        BY <2>1, <2>3, <2>4 DEF InAccord
    <2>6. \A c \in Collections : Pending(c)' <=> IsDeleted(c)'
        <3>1. /\ \A c : Pending(c) => Pending(c)'
              /\ o = <<o[1]>> => Pending(o[1])'
            BY <1>1, <1>2, <2>2, Recorded
        <3>2. \A c : Pending(c)' => Pending(c) \/ o = <<c>>
            BY <1>1, <2>2, RecordedOnly
        <3>3. ASSUME NEW c, o = <<c>> PROVE Pending(c)'
            <4>1. o[1] = c
                BY <3>3
            <4> QED BY <3>1, <3>3, <4>1
        <3> QED BY <2>3, <3>1, <3>2, <3>3 DEF InAccord
    <2>7. ASSUME NEW c \in Collections, Orphaned(db', c) PROVE IsDeleted(c)' \/ c \in bound'
        <3>1. Orphaned(db, c) \/ o = <<c>>
            BY <2>1, <2>7 DEF Orphaned
        <3> QED BY <1>1, <2>3, <3>1 DEF InAccord
    <2> QED BY <1>3, <2>5, <2>6, <2>7 DEF InAccord
<1>5. CASE o \notin db
    <2>1. Respond(o, "delete", 404) /\ UNCHANGED <<db, changes, events>>
        BY <1>5 DEF Delete
    <2>2. /\ \A c : IsDeleted(c)' <=> IsDeleted(c)
          /\ \A p : p # o => (Stands(p)' <=> Stands(p))
          /\ ~Stands(o)'
        BY <1>1, <1>2, <2>1, OneMoreAnswer
    <2>3. \A p : (IsSwept(p)' <=> IsSwept(p)) /\ (Pending(p)' <=> Pending(p))
        BY <2>1, <2>2 DEF IsSwept, Pending
    <2>4. \A p \in Object : ~IsSwept(p)' => (p \in db' <=> Stands(p)')
        BY <1>5, <2>1, <2>2, <2>3 DEF InAccord
    <2>5. \A c \in Collections : Orphaned(db, c)' => IsDeleted(c)' \/ c \in bound'
        BY <1>1, <2>1, <2>2 DEF InAccord, Orphaned
    <2> QED BY <1>3, <2>2, <2>3, <2>4, <2>5 DEF InAccord
<1> QED BY <1>4, <1>5

LEMMA NotFoundKeeps ==
    ASSUME IInv, InAccord, NEW o \in Object, NEW action \in {"create", "delete"}, NotFoundParent(o, action)
    PROVE  InAccord'
<1>1. /\ Respond(o, action, 404) /\ action \in Actions
      /\ UNCHANGED <<committed, db, bound, changes, events>>
      /\ Len(o) = 2 /\ o[1] \notin bound /\ <<o[1]>> \notin db
    BY DEF NotFoundParent, IsLookedUp, Actions
<1>2. Typed
    BY DEF IInv
<1>3. /\ \A c : IsDeleted(c)' <=> IsDeleted(c)
      /\ \A p : p # o => (Stands(p)' <=> Stands(p))
      /\ ~Stands(o)'
    BY <1>1, <1>2, OneMoreAnswer
<1>4. \A p : (IsSwept(p)' <=> IsSwept(p)) /\ (Pending(p)' <=> Pending(p))
    BY <1>1, <1>3 DEF IsSwept, Pending
<1>5. ~IsSwept(o) => o \notin db
    <2>1. o[1] \in Collections /\ o[2] \in Records /\ o = <<o[1], o[2]>>
        BY <1>1, Objects
    <2>2. o \in db => Orphaned(db, o[1])
        BY <1>1, <2>1 DEF Orphaned
    <2> QED BY <1>1, <2>1, <2>2 DEF IsSwept, InAccord
<1>6. \A p \in Object : ~IsSwept(p)' => (p \in db' <=> Stands(p)')
    BY <1>1, <1>3, <1>4, <1>5 DEF InAccord
<1>7. /\ \A c \in Collections : ~Orphaned(committed, c)'
      /\ \A c \in Collections : Orphaned(db, c)' => IsDeleted(c)' \/ c \in bound'
    BY <1>1, <1>3 DEF InAccord, Orphaned
<1> QED BY <1>3, <1>4, <1>6, <1>7 DEF InAccord

LEMMA ConflictKeeps == ASSUME IInv, InAccord, NEW o \in Object, Conflict(o) PROVE InAccord'
<1> DEFINE action == ActionOfPut(o)
<1>1. /\ Respond(o, action, 409) /\ action \in Actions
      /\ UNCHANGED <<committed, changes, events>> /\ db' = committed
    BY DEF Conflict, ActionOfPut, Actions
<1> HIDE DEF action
<1>2. Typed
    BY DEF IInv
<1>3. /\ \A c : IsDeleted(c)' <=> IsDeleted(c)
      /\ \A p : Stands(p)' <=> p \in committed
    BY <1>1, <1>2, OneMoreAnswer
<1>4. \A p : Pending(p)' <=> Pending(p)
    BY <1>1 DEF Pending
<1>5. \A p \in Object : p \in db' <=> Stands(p)'
    BY <1>1, <1>3
<1>6. /\ \A c \in Collections : ~Orphaned(committed, c)'
      /\ \A c \in Collections : ~Orphaned(db, c)'
    BY <1>1 DEF InAccord, Orphaned
<1> QED BY <1>3, <1>4, <1>5, <1>6 DEF InAccord

\* Each subrequest keeps what the transaction sees in accord with the answers.
LEMMA SubrequestKeeps == ASSUME IInv, Keeping, Subrequest PROVE Keeping'
<1>1. phase = "requests" /\ phase' = "requests"
    BY DEF Subrequest, Put, Delete, Conflict, NotFoundParent, More
<1>2. InAccord
    BY <1>1 DEF Keeping, InAccord
<1>3. InAccord'
    BY <1>2, PutKeeps, DeleteKeeps, NotFoundKeeps, ConflictKeeps DEF Subrequest
<1> QED BY <1>1, <1>3 DEF Keeping, InAccord

\* A cascade deletes records of deleted collections only, and no collection
\* remains for which it is neither done nor to come.
LEMMA NotifyBeforeKeeps == ASSUME IInv, Keeping, NotifyBefore PROVE Keeping'
<1> DEFINE e == Head(events)
<1>1. /\ phase = "before" /\ phase' = "before" /\ events # <<>> /\ db' = Cascade(e)
      /\ UNCHANGED <<committed, transaction, responses, level>>
    BY DEF NotifyBefore
<1>2. Typed /\ Telling /\ Divided(events, afterwards, changes)
    BY <1>1 DEF IInv, Telling
<1>3. /\ e \in Event /\ Tail(events) \in Seq(Event)
      /\ \A r, a, i : Tells(events, r, a, i) =>
            \/ Tells(Tail(events), r, a, i)
            \/ r = e.resource /\ a = e.action /\ Says(e, i)
    BY <1>1, <1>2, Drained DEF Divided
<1>4. \/ events' = Tail(events) /\ UNCHANGED changes
      \/ \E o \in Object : /\ changes' = Append(changes, [object |-> o, action |-> "update", transaction |-> transaction])
                           /\ events' = AddEvent(Tail(events), EventOf(Len(changes) + 1, o, "update", level))
    <2>1. db \subseteq Object
        BY <1>2 DEF Typed
    <2> QED BY <2>1 DEF NotifyBefore
<1>5. \A r, a, i : Tells(Tail(events), r, a, i) => Tells(events, r, a, i)
    BY <1>1, <1>2, TailTells DEF Divided
<1>6. \A i : e.resource = 1 /\ e.action = "delete" /\ Says(e, i) => Tells(events, 1, "delete", i)
    BY <1>1, <1>2, TailTells DEF Divided
<1> HIDE DEF e
<1>7. \A i : Tells(events, 1, "delete", i) => i \in DOMAIN changes
    BY <1>2 DEF Tells, Mentions, Says, Divided
<1>8. /\ \A c : Pending(c)' => Pending(c)
      /\ \A i, c : Tells(Tail(events), 1, "delete", i) /\ changes[i].object[1] = c => Pending(c)'
    <2>1. CASE events' = Tail(events) /\ UNCHANGED changes
        BY <1>5, <1>7, <2>1 DEF Pending
    <2>2. CASE \E o \in Object :
                  /\ changes' = Append(changes, [object |-> o, action |-> "update", transaction |-> transaction])
                  /\ events' = AddEvent(Tail(events), EventOf(Len(changes) + 1, o, "update", level))
        <3>1. PICK o \in Object :
                  /\ changes' = Append(changes, [object |-> o, action |-> "update", transaction |-> transaction])
                  /\ events' = AddEvent(Tail(events), EventOf(Len(changes) + 1, o, "update", level))
            BY <2>2
        <3> DEFINE new == [object |-> o, action |-> "update", transaction |-> transaction]
        <3>2. /\ new \in Change /\ "update" \in Actions /\ changes \in Seq(Change)
              /\ changes' = Append(changes, new)
            BY <1>2, <3>1, BatchAssumption DEF Typed, Change, Actions
        <3> HIDE DEF new
        <3>3. /\ Len(changes) \in Nat /\ DOMAIN changes = 1..Len(changes)
              /\ DOMAIN changes' = 1..(Len(changes) + 1)
              /\ \A k \in DOMAIN changes : changes'[k] = changes[k]
            <4>1. \A s \in Seq(Change), x \in Change :
                      /\ Len(s) \in Nat /\ DOMAIN s = 1..Len(s) /\ DOMAIN Append(s, x) = 1..(Len(s) + 1)
                      /\ \A k \in DOMAIN s : Append(s, x)[k] = s[k]
                BY AppendIs
            <4> QED BY <3>2, <4>1
        <3>4. \A i : Tells(events', 1, "delete", i) => Tells(Tail(events), 1, "delete", i)
            BY <1>2, <1>3, <3>1, <3>2, StackedTells
        <3>5. \A i : Tells(Tail(events), 1, "delete", i) => Tells(events', 1, "delete", i)
            <4>1. Len(changes) + 1 \in Nat /\ level \in Nat
                BY <1>2, <3>3 DEF Typed
            <4>2. EventOf(Len(changes) + 1, o, "update", level) \in Event
                BY <3>2, <4>1, EventOfIs
            <4>3. /\ Keyed(Tail(events)) /\ MentionsOnce(Tail(events))
                  /\ ~Mentions(Tail(events), Len(changes) + 1)
                BY <1>1, <1>2, <3>3, PoppedEvent DEF Divided
            <4>4. IsNews(Tail(events), EventOf(Len(changes) + 1, o, "update", level))
                BY <3>2, <4>1, <4>3, EventOfIs
            <4> QED BY <1>3, <3>1, <4>2, <4>3, <4>4, AddEventIs
        <3>6. ASSUME NEW c, Pending(c)' PROVE Pending(c)
            <4>1. PICK i \in DOMAIN changes' : changes'[i].object[1] = c /\ Tells(events', 1, "delete", i)
                BY <3>6 DEF Pending
            <4> QED BY <1>5, <1>7, <3>3, <3>4, <4>1 DEF Pending
        <3>7. ASSUME NEW i, NEW c, Tells(Tail(events), 1, "delete", i), changes[i].object[1] = c
              PROVE  Pending(c)'
            <4>1. i \in DOMAIN changes /\ i \in DOMAIN changes'
                BY <1>5, <1>7, <3>3, <3>7
            <4> QED BY <3>3, <3>5, <3>7, <4>1 DEF Pending
        <3> QED BY <3>6, <3>7
    <2> QED BY <1>4, <2>1, <2>2
<1>9. /\ \A c : IsDeleted(c)' <=> IsDeleted(c)
      /\ \A o : IsSwept(o)' <=> IsSwept(o)
    BY <1>1 DEF IsDeleted, IsSwept
<1>10. \A o : Stands(o)' <=> Stands(o)
    BY <1>1 DEF Stands, Answers
<1>11. ASSUME NEW c \in Collections, c \in DeletedCollections(e) PROVE IsDeleted(c)
    <2>1. PICK n \in DOMAIN e.impacted : c = changes[e.impacted[n]].object[1]
        BY <1>11 DEF DeletedCollections
    <2>2. Tells(events, 1, "delete", e.impacted[n])
        BY <1>6, <1>11 DEF DeletedCollections, Says
    <2>3. Pending(c)
        BY <1>7, <2>1, <2>2 DEF Pending
    <2> QED BY <1>1, <2>3 DEF Keeping
<1>12. \A o \in Object : ~IsSwept(o)' => (o \in db' <=> Stands(o)')
    <2> SUFFICES ASSUME NEW o \in Object, ~IsSwept(o) PROVE o \in db' <=> o \in db
        BY <1>1, <1>9, <1>10 DEF Keeping
    <2>1. CASE Len(o) = 1
        <3>1. o = <<o[1]>>
            BY <2>1, Objects
        <3> QED BY <1>1, <1>2, <1>3, <3>1, CascadeIs
    <2>2. CASE Len(o) = 2
        <3>1. o[1] \in Collections /\ o = <<o[1], o[2]>>
            BY <2>2, Objects
        <3>2. o[1] \notin DeletedCollections(e)
            BY <1>11, <2>2, <3>1 DEF IsSwept
        <3>3. \A c : o \in RecordsOf(c) => o[1] = c
            BY <3>1 DEF RecordsOf
        <3> QED BY <1>1, <3>2, <3>3 DEF Cascade
    <2> QED BY <2>1, <2>2, Objects
<1>13. \A c \in Collections : Pending(c)' => IsDeleted(c)'
    BY <1>1, <1>8, <1>9 DEF Keeping
<1>14. ASSUME NEW c \in Collections, IsDeleted(c), ~Pending(c)' PROVE NoRecords(db', c)
    <2>1. Cascade(e) \subseteq db
        BY <1>2, <1>3, CascadeIs
    <2>2. CASE NoRecords(db, c)
        BY <1>1, <2>1, <2>2 DEF NoRecords
    <2>3. CASE Pending(c)
        <3>1. PICK i \in DOMAIN changes : changes[i].object[1] = c /\ Tells(events, 1, "delete", i)
            BY <2>3 DEF Pending
        <3>2. e.resource = 1 /\ e.action = "delete" /\ Says(e, i)
            BY <1>3, <1>8, <1>14, <3>1
        <3>3. c \in DeletedCollections(e)
            BY <3>1, <3>2 DEF DeletedCollections, Says
        <3>4. \A r \in Records : <<c, r>> \in RecordsOf(c)
            BY DEF RecordsOf
        <3> QED BY <1>1, <3>3, <3>4 DEF NoRecords, Cascade
    <2> QED BY <1>1, <1>14, <2>2, <2>3 DEF Keeping
<1>15. \A c \in Collections : ~Orphaned(committed, c)'
    BY <1>1 DEF Keeping, Orphaned
<1> QED BY <1>1, <1>9, <1>12, <1>13, <1>14, <1>15 DEF Keeping

\* The notifications end when no cascade is to come.
LEMMA EndsKeep == ASSUME IInv, Keeping, EndRequests \/ EndBefore PROVE Keeping'
<1>1. UNCHANGED <<committed, db, changes, responses>>
    BY DEF EndRequests, EndBefore
<1>2. /\ \A c : (IsDeleted(c)' <=> IsDeleted(c)) /\ (Orphaned(committed, c)' <=> Orphaned(committed, c))
      /\ \A c : NoRecords(db, c)' <=> NoRecords(db, c)
      /\ \A o : (IsSwept(o)' <=> IsSwept(o)) /\ (Stands(o)' <=> Stands(o))
    BY <1>1 DEF IsDeleted, Orphaned, NoRecords, IsSwept, Stands, Answers
<1>3. CASE EndRequests
    <2>1. phase = "requests" /\ phase' = "before" /\ events' = events
        BY <1>3 DEF EndRequests
    <2>2. \A c : Pending(c)' <=> Pending(c)
        BY <1>1, <2>1 DEF Pending
    <2> QED BY <1>1, <1>2, <2>1, <2>2 DEF Keeping
<1>4. CASE EndBefore
    <2>1. phase = "before" /\ phase' = "commit" /\ events = <<>>
        BY <1>4 DEF EndBefore
    <2>2. \A c : ~Pending(c)
        BY <2>1, Nothing DEF Pending
    <2> QED BY <1>1, <1>2, <2>1, <2>2 DEF Keeping
<1> QED BY <1>3, <1>4

\* A commit keeps the answers; no other step commits or says that it did.
LEMMA CommitAnswers == ASSUME IInv, Keeping, Commit PROVE CommitsAnswers
<1>1. phase = "commit" /\ committed' = db
    BY DEF Commit
<1> SUFFICES ASSUME NEW o \in Object PROVE o \in db <=> Stands(o) /\ ~IsSwept(o)
    BY <1>1 DEF CommitsAnswers
<1>2. CASE ~IsSwept(o)
    BY <1>1, <1>2 DEF Keeping
<1>3. CASE IsSwept(o)
    <2>1. Len(o) = 2 /\ IsDeleted(o[1])
        BY <1>3 DEF IsSwept
    <2>2. o[1] \in Collections /\ o[2] \in Records /\ o = <<o[1], o[2]>>
        BY <2>1, Objects
    <2>3. NoRecords(db, o[1])
        BY <1>1, <2>1, <2>2 DEF Keeping
    <2> QED BY <1>3, <2>2, <2>3 DEF NoRecords
<1> QED BY <1>2, <1>3

LEMMA KeepingNext == IInv /\ Keeping /\ [Next]_vars => Keeping' /\ [CommitsAnswers]_vars
<1> SUFFICES ASSUME IInv, Keeping, [Next]_vars PROVE Keeping' /\ [CommitsAnswers]_vars
    OBVIOUS
<1>1. CASE Subrequest
    <2>1. status' = status
        BY <1>1 DEF Subrequest, Put, Delete, Conflict, NotFoundParent
    <2> QED BY <1>1, <2>1, SubrequestKeeps DEF CommitsAnswers
<1>2. CASE NotifyBefore
    <2>1. status' = status
        BY <1>2 DEF NotifyBefore
    <2> QED BY <1>2, <2>1, NotifyBeforeKeeps DEF CommitsAnswers
<1>3. CASE EndRequests \/ EndBefore
    <2>1. status' = status
        BY <1>3 DEF EndRequests, EndBefore
    <2> QED BY <1>3, <2>1, EndsKeep DEF CommitsAnswers
<1>4. CASE Commit
    <2>1. phase' \in {"after", "done"}
        BY <1>4 DEF Commit
    <2> QED BY <1>4, <2>1, CommitAnswers DEF Keeping
<1>5. CASE Fail \/ Refuse \/ FailCommit
    <2>1. phase' = "done" /\ status' \in {500, 503}
        BY <1>5 DEF Fail, Refuse, FailCommit, Abort
    <2> QED BY <2>1 DEF Keeping, CommitsAnswers
<1>6. CASE NotifyAfter
    <2>1. phase' \in {"after", "done"} /\ status' = status
        BY <1>6 DEF NotifyAfter
    <2> QED BY <2>1 DEF Keeping, CommitsAnswers
<1>7. CASE UNCHANGED vars
    <2>1. UNCHANGED <<committed, db, bound, changes, events, responses, phase>>
        BY <1>7 DEF vars
    <2>2. /\ \A c : (IsDeleted(c)' <=> IsDeleted(c)) /\ (Pending(c)' <=> Pending(c))
          /\ \A c : (Orphaned(committed, c)' <=> Orphaned(committed, c)) /\ (Orphaned(db, c)' <=> Orphaned(db, c))
          /\ \A c : NoRecords(db, c)' <=> NoRecords(db, c)
          /\ \A o : (IsSwept(o)' <=> IsSwept(o)) /\ (Stands(o)' <=> Stands(o))
        BY <2>1 DEF IsDeleted, Pending, Orphaned, NoRecords, IsSwept, Stands, Answers
    <2>3. Keeping'
        BY <2>1, <2>2 DEF Keeping
    <2> QED BY <1>7, <2>3
<1>8. CASE Terminated
    BY <1>7, <1>8 DEF Terminated
<1> QED BY <1>1, <1>2, <1>3, <1>4, <1>5, <1>6, <1>7, <1>8 DEF Next

\* What a batch commits is what its answers say of each object, the records of
\* the collections that it deleted excepted, of which none is left: across
\* lookups that are kept, rollbacks, merged events and delayed cascades.
THEOREM AnswersSayWhatIsCommitted == Spec => AnswersAreKept
<1>1. Init => Keeping
    BY InitKeeping
<1>2. IInv /\ Keeping /\ [Next]_vars => Keeping' /\ [CommitsAnswers]_vars
    BY KeepingNext
<1>3. Spec => []IInv
    BY Inductive
<1> QED BY <1>1, <1>2, <1>3, PTL DEF Spec, AnswersAreKept

(***************************************************************************)
(* The settings of a server: loading keeps what the operator asked for     *)
(***************************************************************************)

Keys == Names \X BOOLEAN
Given == DOMAIN deployment.file
         \cup {Plain(n) : n \in {m \in DOMAIN Defaults : KeysOf(m) \cap DOMAIN deployment.file = {}}}

\* The two keys of a setting do not have different values in the file.
Agree(n) == KeysOf(n) \subseteq DOMAIN deployment.file
                => deployment.file[Plain(n)] = deployment.file[Prefixed(n)]
Untouched(n) ==
    /\ KeysOf(n) \cap Given \subseteq pending
    /\ Plain(n) \in Given => settings[Plain(n)] = Snapshot(Plain(n))
    /\ Plain(n) \in DOMAIN settings => Plain(n) \in Given
Loaded(n) ==
    /\ Plain(n) \in DOMAIN settings /\ settings[Plain(n)] = Native(n, Asked(n))
    /\ Agree(n)
IsGiven(n) == KeysOf(n) \cap Given # {}

Loading ==
    /\ pending \subseteq Given /\ Given \subseteq DOMAIN settings
    /\ \A n \in Names : Prefixed(n) \in Given => settings[Prefixed(n)] = Snapshot(Prefixed(n))
    /\ \A n \in Names : Untouched(n) \/ Loaded(n)
    /\ \A k \in DOMAIN settings : k \in Keys /\ IsGiven(k[1])
Configured ==
    /\ \A n \in Names : IsGiven(n) => Loaded(n)
    /\ \A k \in DOMAIN settings : IsGiven(k[1])

LEMMA KeyForms ==
    ASSUME NEW k \in Keys
    PROVE  /\ k[1] \in Names /\ k \in KeysOf(k[1])
           /\ k = Plain(k[1]) \/ k = Prefixed(k[1])
<1>1. PICK n \in Names, b \in BOOLEAN : k = <<n, b>>
    BY DEF Keys
<1>2. CASE b = TRUE
    BY <1>1, <1>2 DEF KeysOf, Plain, Prefixed
<1>3. CASE b = FALSE
    BY <1>1, <1>3 DEF KeysOf, Plain, Prefixed
<1> QED BY <1>2, <1>3

LEMMA KeysDiffer ==
    /\ \A n, m : Plain(n) # Prefixed(m)
    /\ \A n, m : Plain(n) = Plain(m) => n = m
    /\ \A n, m : Prefixed(n) = Prefixed(m) => n = m
    /\ \A n : Plain(n)[1] = n /\ Prefixed(n)[1] = n /\ KeysOf(n) = {Plain(n), Prefixed(n)}
BY DEF Plain, Prefixed, KeysOf

LEMMA GivenAre ==
    ASSUME deployment \in Deployments
    PROVE  /\ Given \subseteq Keys
           /\ \A n \in DOMAIN Defaults : IsGiven(n)
           /\ \A k \in DOMAIN deployment.file : k \in Given /\ IsGiven(k[1])
           /\ \A k \in Given : IsGiven(k[1])
           /\ \A k \in Given \ DOMAIN deployment.file :
                 /\ k = Plain(k[1]) /\ k[1] \in DOMAIN Defaults
                 /\ KeysOf(k[1]) \cap DOMAIN deployment.file = {}
<1>1. DOMAIN deployment.file \subseteq Keys
    BY DeploymentsAssumption DEF Keys
<1>2. ASSUME NEW n \in DOMAIN Defaults PROVE Plain(n) \in Keys
    BY DEF Keys, Names, Plain
<1>3. Given \subseteq Keys
    BY <1>1, <1>2 DEF Given
<1>4. \A k \in Given : IsGiven(k[1])
    BY <1>3, KeyForms DEF IsGiven
<1>5. ASSUME NEW n \in DOMAIN Defaults PROVE IsGiven(n)
    <2>1. CASE KeysOf(n) \cap DOMAIN deployment.file = {}
        <3>1. Plain(n) \in Given
            BY <2>1 DEF Given
        <3> QED BY <3>1, KeysDiffer DEF IsGiven
    <2> QED BY <2>1 DEF IsGiven, Given
<1>6. \A k \in DOMAIN deployment.file : k \in Given
    BY DEF Given
<1>7. ASSUME NEW k \in Given \ DOMAIN deployment.file
      PROVE  /\ k = Plain(k[1]) /\ k[1] \in DOMAIN Defaults
             /\ KeysOf(k[1]) \cap DOMAIN deployment.file = {}
    <2>1. PICK n \in DOMAIN Defaults : k = Plain(n) /\ KeysOf(n) \cap DOMAIN deployment.file = {}
        BY DEF Given
    <2> QED BY <2>1, KeysDiffer
<1> QED BY <1>3, <1>4, <1>5, <1>6, <1>7

\* What the loading of one key gives, if the file does not contradict itself.
LEMMA LoadingGives ==
    ASSUME deployment \in Deployments, NEW k \in Given, Agree(k[1])
    PROVE  FromEnv(k[1], Native(k[1], Snapshot(k))) = Native(k[1], Asked(k[1]))
<1> DEFINE n == k[1]
<1>1. k \in Keys /\ (k = Plain(n) \/ k = Prefixed(n)) /\ KeysOf(n) = {Plain(n), Prefixed(n)}
      /\ Plain(n) # Prefixed(n) /\ Plain(n)[1] = n /\ Prefixed(n)[1] = n
    BY GivenAre, KeyForms, KeysDiffer
<1> HIDE DEF n
<1>2. CASE Prefixed(n) \in DOMAIN deployment.env
    <2>1. Asked(n) = deployment.env[Prefixed(n)]
        BY <1>1, <1>2 DEF Asked
    <2>2. FromEnv(n, Native(n, Snapshot(k))) = Native(n, deployment.env[Prefixed(n)])
        BY <1>1, <1>2 DEF FromEnv, ReadEnv
    <2> QED BY <2>1, <2>2 DEF n
<1>3. CASE Prefixed(n) \notin DOMAIN deployment.env /\ Plain(n) \in DOMAIN deployment.env
    <2>1. Asked(n) = deployment.env[Plain(n)]
        BY <1>1, <1>3 DEF Asked
    <2>2. FromEnv(n, Native(n, Snapshot(k))) = Native(n, deployment.env[Plain(n)])
        BY <1>1, <1>3 DEF FromEnv, ReadEnv
    <2> QED BY <2>1, <2>2 DEF n
<1>4. CASE Prefixed(n) \notin DOMAIN deployment.env /\ Plain(n) \notin DOMAIN deployment.env
    <2>1. FromEnv(n, Native(n, Snapshot(k))) = Native(n, Snapshot(k))
        BY <1>4 DEF FromEnv, ReadEnv
    <2>2. DOMAIN deployment.env \cap KeysOf(n) = {}
        BY <1>1, <1>4
    <2>3. CASE k \in DOMAIN deployment.file
        <3>1. Snapshot(k) = deployment.file[k]
            BY <2>3 DEF Snapshot
        <3>2. DOMAIN deployment.file \cap KeysOf(n) # {}
            BY <1>1, <2>3
        <3>3. Asked(n) = deployment.file[IF Prefixed(n) \in DOMAIN deployment.file THEN Prefixed(n) ELSE Plain(n)]
            BY <1>1, <2>2, <3>2 DEF Asked
        <3>4. Asked(n) = deployment.file[k]
            BY <1>1, <2>3, <3>3 DEF Agree, n
        <3> QED BY <2>1, <3>1, <3>4 DEF n
    <2>4. CASE k \notin DOMAIN deployment.file
        <3>1. KeysOf(n) \cap DOMAIN deployment.file = {}
            BY <2>4, GivenAre DEF n
        <3>2. Asked(n) = Defaults[n]
            BY <2>2, <3>1 DEF Asked
        <3>3. Snapshot(k) = Defaults[n]
            BY <2>4 DEF Snapshot, n
        <3> QED BY <2>1, <3>2, <3>3 DEF n
    <2> QED BY <2>3, <2>4
<1> QED BY <1>2, <1>3, <1>4

LEMMA LoadDefaultsStep ==
    ASSUME deployment \in Deployments, LoadDefaults
    PROVE  Loading'
<1> DEFINE plain == {Plain(n) : n \in {m \in DOMAIN Defaults : KeysOf(m) \cap DOMAIN deployment.file = {}}}
<1>1. deployment' = deployment /\ pending' = DOMAIN settings'
      /\ settings' = Over(deployment.file, [k \in plain |-> Defaults[k[1]]])
    BY DEF LoadDefaults
<1>2. /\ DOMAIN settings' = Given
      /\ \A k \in Given : settings'[k] = IF k \in DOMAIN deployment.file THEN deployment.file[k] ELSE Defaults[k[1]]
    BY <1>1 DEF Over, Given
<1>3. Given' = Given /\ \A k : Snapshot(k)' = Snapshot(k)
    BY <1>1 DEF Given, Snapshot
<1>4. \A k \in Given : settings'[k] = Snapshot(k)
    BY <1>2 DEF Snapshot
<1>5. \A n : Untouched(n)'
    BY <1>1, <1>2, <1>3, <1>4 DEF Untouched
<1>6. \A k \in Given : k \in Keys /\ IsGiven(k[1])'
    BY <1>3, GivenAre DEF IsGiven
<1> QED BY <1>1, <1>2, <1>3, <1>4, <1>5, <1>6 DEF Loading

LEMMA LoadSettingStep ==
    ASSUME deployment \in Deployments, Loading, LoadSetting, progress' # "failed"
    PROVE  Loading' /\ progress' = progress
<1>1. PICK k \in pending :
        /\ ~Conflicting(k[1])
        /\ settings' = Over([plain \in {Plain(k[1])} |-> FromEnv(k[1], Native(k[1], Snapshot(k)))], settings)
        /\ pending' = pending \ {k}
        /\ UNCHANGED <<deployment, progress, registry>>
    BY DEF LoadSetting, StartupFails
<1> DEFINE n == k[1]
           value == FromEnv(n, Native(n, Snapshot(k)))
<1>2. k \in Given /\ k \in Keys /\ n \in Names /\ (k = Plain(n) \/ k = Prefixed(n))
    BY GivenAre, KeyForms DEF Loading
<1> HIDE DEF n, value
<1>3. /\ DOMAIN settings' = DOMAIN settings \cup {Plain(n)} /\ settings'[Plain(n)] = value
      /\ \A j \in DOMAIN settings : j # Plain(n) => settings'[j] = settings[j]
    BY <1>1 DEF Over, n, value
<1>4. /\ Given' = Given /\ \A j : Snapshot(j)' = Snapshot(j) /\ \A m : Agree(m)' = Agree(m)
      /\ \A m : Asked(m)' = Asked(m) /\ IsGiven(m)' = IsGiven(m)
    BY <1>1 DEF Given, Snapshot, Agree, Asked, IsGiven
<1>5. Agree(n)
    <2>1. SUFFICES ASSUME Plain(n) \in DOMAIN deployment.file, Prefixed(n) \in DOMAIN deployment.file, Untouched(n)
                   PROVE  deployment.file[Plain(n)] = deployment.file[Prefixed(n)]
        BY <1>2, KeysDiffer DEF Loading, Loaded, Agree
    <2>2. Plain(n) \in Given /\ Prefixed(n) \in Given
        BY <2>1 DEF Given
    <2>3. settings[Plain(n)] = deployment.file[Plain(n)] /\ settings[Prefixed(n)] = deployment.file[Prefixed(n)]
        BY <1>2, <2>1, <2>2 DEF Untouched, Loading, Snapshot
    <2>4. {Plain(n), Prefixed(n)} \subseteq KeysOf(n) \cap DOMAIN settings
        BY <2>2, KeysDiffer DEF Loading
    <2>5. settings[Plain(n)] = settings[Prefixed(n)]
        BY <1>1, <2>4 DEF Conflicting, n
    <2> QED BY <2>3, <2>5
<1>6. value = Native(n, Asked(n))
    BY <1>2, <1>5, LoadingGives DEF n, value
<1>7. Loaded(n)'
    BY <1>3, <1>4, <1>5, <1>6 DEF Loaded
<1>8. ASSUME NEW m \in Names, m # n PROVE Untouched(m)' \/ Loaded(m)'
    <2>1. Plain(m) # Plain(n) /\ k \notin KeysOf(m)
        BY <1>2, <1>8, KeysDiffer
    <2>2. CASE Untouched(m)
        <3>1. KeysOf(m) \cap Given \subseteq pending'
            BY <1>1, <2>1, <2>2 DEF Untouched
        <3>2. (Plain(m) \in Given => settings'[Plain(m)] = Snapshot(Plain(m)))
              /\ (Plain(m) \in DOMAIN settings' => Plain(m) \in Given)
            BY <1>3, <2>1, <2>2 DEF Untouched, Loading
        <3> QED BY <1>4, <3>1, <3>2 DEF Untouched
    <2>3. CASE Loaded(m)
        BY <1>3, <1>4, <2>1, <2>3 DEF Loaded
    <2> QED BY <2>2, <2>3 DEF Loading
<1>9. \A m \in Names : Prefixed(m) \in Given => settings'[Prefixed(m)] = Snapshot(Prefixed(m))
    BY <1>3, KeysDiffer DEF Loading
<1>10. \A j \in DOMAIN settings' : j \in Keys /\ IsGiven(j[1])
    <2>1. Plain(n) \in Keys /\ Plain(n)[1] = n
        BY <1>2 DEF Keys, Plain
    <2>2. IsGiven(n)
        BY <1>2, GivenAre DEF n
    <2> QED BY <1>3, <2>1, <2>2 DEF Loading
<1>11. pending' \subseteq Given /\ Given \subseteq DOMAIN settings'
    BY <1>1, <1>3 DEF Loading
<1> QED BY <1>1, <1>4, <1>7, <1>8, <1>9, <1>10, <1>11 DEF Loading

LEMMA AllLoaded ==
    ASSUME Loading, pending = {} PROVE Configured
<1>1. ASSUME NEW n \in Names, IsGiven(n) PROVE Loaded(n)
    BY <1>1 DEF Loading, Untouched, IsGiven
<1> QED BY <1>1 DEF Configured, Loading

(***************************************************************************)
(* The definitions of the views of a service are of the kinds that it can have*)
(***************************************************************************)

AllMethods == {"GET", "HEAD", "POST", "PUT", "PATCH", "DELETE", "OPTIONS"}
AllTypes == {{}, {"json"}, {"json", "merge-patch"}, {"json-patch"}}
Def == [method : AllMethods, types : AllTypes, accept : BOOLEAN, permission : {"none", "dynamic"}]
OpenDef == {d \in Def : d.permission = "none"}

LEMMA AddViewTyped ==
    ASSUME NEW S, NEW definitions \in Seq(S), NEW d \in S, [d EXCEPT !.method = "HEAD"] \in S
    PROVE  AddView(definitions, d) \in Seq(S)
<1>1. <<d>> \in Seq(S) /\ <<[d EXCEPT !.method = "HEAD"]>> \in Seq(S) /\ <<>> \in Seq(S)
    OBVIOUS
<1>2. definitions \o <<d>> \in Seq(S)
    BY <1>1, ConcatProperties
<1>3. definitions \o <<d>> \o <<[d EXCEPT !.method = "HEAD"]>> \in Seq(S) /\ definitions \o <<d>> \o <<>> \in Seq(S)
    BY <1>1, <1>2, ConcatProperties
<1> QED BY <1>3 DEF AddView

LEMMA DefsTyped ==
    ASSUME NEW method \in AllMethods, NEW types \in AllTypes, NEW accept \in BOOLEAN,
           NEW permission \in {"none", "dynamic"}
    PROVE  LET d == Definition(method, types, accept, permission)
           IN  /\ d \in Def /\ [d EXCEPT !.method = "HEAD"] \in Def
               /\ permission = "none" => d \in OpenDef /\ [d EXCEPT !.method = "HEAD"] \in OpenDef
<1> DEFINE d == Definition(method, types, accept, permission)
           head == [method |-> "HEAD", types |-> types, accept |-> accept, permission |-> permission]
<1>1. d = [method |-> method, types |-> types, accept |-> accept, permission |-> permission]
    BY DEF Definition
<1>2. [d EXCEPT !.method = "HEAD"] = head
    BY <1>1
<1>3. d \in Def /\ head \in Def /\ d.permission = permission /\ head.permission = permission
    <2>1. "HEAD" \in AllMethods
        BY DEF AllMethods
    <2> QED BY <1>1, <2>1 DEF Def
<1> QED BY <1>2, <1>3 DEF OpenDef

LEMMA DefsChange ==
    ASSUME NEW d \in Def, NEW types \in AllTypes
    PROVE  LET p == [d EXCEPT !.types = types] IN p \in Def /\ [p EXCEPT !.method = "HEAD"] \in Def
<1>1. [d EXCEPT !.types = types] \in Def
    BY DEF Def
<1>2. ASSUME NEW p \in Def PROVE [p EXCEPT !.method = "HEAD"] \in Def
    BY DEF Def, AllMethods
<1> QED BY <1>1, <1>2

LEMMA RegisterTyped ==
    ASSUME NEW S \in {Def, OpenDef}, NEW definitions \in Seq(S)
    PROVE  Register(definitions) \in Seq(S)
<1> DEFINE d == Definition("OPTIONS", {}, FALSE, "none")
<1>1. d \in Def /\ [d EXCEPT !.method = "HEAD"] \in Def /\ d \in OpenDef /\ [d EXCEPT !.method = "HEAD"] \in OpenDef
    <2>1. {} \in AllTypes /\ "OPTIONS" \in AllMethods
        BY DEF AllTypes, AllMethods
    <2> QED BY <2>1, DefsTyped
<1> HIDE DEF d
<1>2. AddView(definitions, d) \in Seq(S)
    BY <1>1, AddViewTyped
<1> QED BY <1>2 DEF Register, d

LEMMA PlainServices ==
    ASSUME NEW method \in AllMethods, NEW types \in AllTypes
    PROVE  PlainService(method, types) \in Seq(OpenDef)
<1> DEFINE d == Definition(method, types, FALSE, "none")
<1>1. d \in OpenDef /\ [d EXCEPT !.method = "HEAD"] \in OpenDef
    BY DefsTyped
<1> HIDE DEF d
<1>2. AddView(<<>>, d) \in Seq(OpenDef)
    <2>1. <<>> \in Seq(OpenDef)
        OBVIOUS
    <2> QED BY <1>1, <2>1, AddViewTyped
<1> QED BY <1>2, RegisterTyped DEF PlainService, d

AddMethod(type, method, definitions) ==
    LET types == CASE method \in {"POST", "PUT"} -> Json
                   [] method = "PATCH" -> PatchTypes
                   [] OTHER -> {}
        d == Definition(method, types, TRUE, "dynamic")
    IN  IF ~EndpointEnabled(type, method) THEN definitions
        ELSE IF method = "PATCH"
             THEN AddView(AddView(definitions, d), [d EXCEPT !.types = {"json-patch"}])
        ELSE AddView(definitions, d)
IsViews(f, type, methods) ==
    f = [i \in 0..Len(methods) |-> IF i = 0 THEN <<>> ELSE AddMethod(type, methods[i], f[i - 1])]

LEMMA AddMethodTyped ==
    ASSUME NEW type, NEW method \in AllMethods, NEW definitions \in Seq(Def)
    PROVE  AddMethod(type, method, definitions) \in Seq(Def)
<1> DEFINE types == CASE method \in {"POST", "PUT"} -> Json
                      [] method = "PATCH" -> PatchTypes
                      [] OTHER -> {}
           d == Definition(method, types, TRUE, "dynamic")
           p == [d EXCEPT !.types = {"json-patch"}]
<1>1. types \in AllTypes
    <2>1. Json = {"json"} /\ PatchTypes = {"json", "merge-patch"}
        BY DEF Json, PatchTypes
    <2> QED BY <2>1 DEF AllTypes
<1> HIDE DEF types
<1>2. d \in Def /\ [d EXCEPT !.method = "HEAD"] \in Def
    BY <1>1, DefsTyped
<1>3. p \in Def /\ [p EXCEPT !.method = "HEAD"] \in Def
    <2>1. {"json-patch"} \in AllTypes
        BY DEF AllTypes
    <2> QED BY <1>2, <2>1, DefsChange
<1> HIDE DEF d, p
<1>4. AddView(definitions, d) \in Seq(Def)
    BY <1>2, AddViewTyped
<1>5. AddView(AddView(definitions, d), p) \in Seq(Def)
    BY <1>3, <1>4, AddViewTyped
<1> QED BY <1>4, <1>5 DEF AddMethod, types, d, p

LEMMA ViewsExist ==
    ASSUME NEW type, NEW methods \in {PluralMethods, ObjectMethods}
    PROVE  \E f : IsViews(f, type, methods)
<1>1. Len(methods) = 4
    BY DEF PluralMethods, ObjectMethods
<1> DEFINE one == AddMethod(type, methods[1], <<>>)
           two == AddMethod(type, methods[2], one)
           three == AddMethod(type, methods[3], two)
           four == AddMethod(type, methods[4], three)
           f == [i \in 0..4 |-> IF i = 0 THEN <<>> ELSE IF i = 1 THEN one ELSE IF i = 2 THEN two
                                ELSE IF i = 3 THEN three ELSE four]
<1>2. f[0] = <<>> /\ f[1] = one /\ f[2] = two /\ f[3] = three /\ f[4] = four
    OBVIOUS
<1>3. f[1] = AddMethod(type, methods[1], f[0]) /\ f[2] = AddMethod(type, methods[2], f[1])
      /\ f[3] = AddMethod(type, methods[3], f[2]) /\ f[4] = AddMethod(type, methods[4], f[3])
    BY <1>2
<1>4. DOMAIN f = 0..4 /\ f = [i \in DOMAIN f |-> f[i]]
    OBVIOUS
<1> HIDE DEF f
<1>5. ASSUME NEW i \in 0..4 PROVE f[i] = IF i = 0 THEN <<>> ELSE AddMethod(type, methods[i], f[i - 1])
    BY <1>2, <1>3
<1>6. f = [i \in 0..4 |-> IF i = 0 THEN <<>> ELSE AddMethod(type, methods[i], f[i - 1])]
    BY <1>4, <1>5
<1> QED BY <1>1, <1>6 DEF IsViews

LEMMA ResourceViewsTyped ==
    ASSUME NEW type, NEW methods \in {PluralMethods, ObjectMethods}
    PROVE  ResourceViews(type, methods) \in Seq(Def)
<1> DEFINE views == CHOOSE f : IsViews(f, type, methods)
<1>1. ResourceViews(type, methods) = views[Len(methods)]
    BY DEF ResourceViews, IsViews, AddMethod
<1>2. IsViews(views, type, methods)
    BY ViewsExist
<1> HIDE DEF views
<1>3. Len(methods) = 4 /\ methods[1] \in AllMethods /\ methods[2] \in AllMethods /\ methods[3] \in AllMethods /\ methods[4] \in AllMethods
    <2>1. CASE methods = PluralMethods
        BY <2>1 DEF PluralMethods, AllMethods
    <2>2. CASE methods = ObjectMethods
        BY <2>2 DEF ObjectMethods, AllMethods
    <2> QED BY <2>1, <2>2
<1>4. \A i \in 0..4 : views[i] = IF i = 0 THEN <<>> ELSE AddMethod(type, methods[i], views[i - 1])
    BY <1>2, <1>3 DEF IsViews
<1>5. /\ views[0] = <<>> /\ views[1] = AddMethod(type, methods[1], views[0])
      /\ views[2] = AddMethod(type, methods[2], views[1]) /\ views[3] = AddMethod(type, methods[3], views[2])
      /\ views[4] = AddMethod(type, methods[4], views[3])
    BY <1>4
<1>6. views[0] \in Seq(Def)
    BY <1>5
<1>7. views[1] \in Seq(Def)
    BY <1>3, <1>5, <1>6, AddMethodTyped
<1>8. views[2] \in Seq(Def)
    BY <1>3, <1>5, <1>7, AddMethodTyped
<1>9. views[3] \in Seq(Def)
    BY <1>3, <1>5, <1>8, AddMethodTyped
<1>10. views[4] \in Seq(Def)
    BY <1>3, <1>5, <1>9, AddMethodTyped
<1> QED BY <1>1, <1>3, <1>10

(***************************************************************************)
(* What is registered, from one step of the sequence to the next           *)
(***************************************************************************)

RegistryFields == {"guarded", "redirects", "backends", "subscribers", "services"}
ServiceNames == {"hello", "batch", "things", "thing", "flush"}
ServicesOf(services) ==
    /\ DOMAIN services \subseteq ServiceNames
    /\ \A s \in DOMAIN services : services[s] \in Seq(Def)
    /\ "hello" \in DOMAIN services => services["hello"] \in Seq(OpenDef)
BackendsOf(backends) == \A kind \in DOMAIN backends : backends[kind] = kind \o ".memory"
Registered ==
    /\ DOMAIN registry = RegistryFields
    /\ ServicesOf(registry.services) /\ BackendsOf(registry.backends)

AsListened == UNION {Subscribe(name) : name \in Setting("event_listeners")}
Remaining(i) == [j \in 1..(9 - i) |-> InitializationSequence[i + j - 1]]
SettingUp ==
    \E i \in 1..9 :
        /\ pending = Remaining(i)
        /\ i > 1 => registry.guarded = IsReadonly
        /\ i > 6 => registry.subscribers = AsListened
Serving ==
    /\ registry.guarded = IsReadonly /\ registry.subscribers = AsListened
    /\ BackendsAreWatched /\ "hello" \in DOMAIN registry.services

StartupInv ==
    /\ deployment \in Deployments /\ Registered
    /\ progress \in {"defaults", "settings", "setup", "serving", "failed"}
    /\ progress = "settings" => Loading
    /\ progress \in {"setup", "serving"} => Configured
    /\ progress = "setup" => SettingUp
    /\ progress = "serving" => Serving

LEMMA OverIs ==
    ASSUME NEW f, NEW g
    PROVE  /\ DOMAIN Over(f, g) = DOMAIN f \cup DOMAIN g
           /\ \A x \in DOMAIN f : Over(f, g)[x] = f[x]
           /\ \A x \in DOMAIN g : x \notin DOMAIN f => Over(f, g)[x] = g[x]
BY DEF Over

LEMMA ServicesAdded ==
    ASSUME NEW f, NEW g, ServicesOf(f), ServicesOf(g)
    PROVE  ServicesOf(Over(f, g))
<1> DEFINE h == Over(f, g)
<1>1. /\ DOMAIN h = DOMAIN f \cup DOMAIN g
      /\ \A x \in DOMAIN h : \/ x \in DOMAIN f /\ h[x] = f[x]
                             \/ x \in DOMAIN g /\ h[x] = g[x]
    BY DEF Over
<1> HIDE DEF h
<1>2. ServicesOf(h)
    BY <1>1 DEF ServicesOf
<1> QED BY <1>2 DEF h

LEMMA StepsInOrder ==
    /\ Remaining(1) = InitializationSequence
    /\ \A i \in 1..9 : Remaining(i) # <<>> =>
          /\ i \in 1..8 /\ Head(Remaining(i)) = InitializationSequence[i]
          /\ Tail(Remaining(i)) = Remaining(i + 1)
    /\ \A i \in 1..8 : /\ InitializationSequence[i] = "readonly" <=> i = 1
                       /\ InitializationSequence[i] = "listeners" <=> i = 6
                       /\ InitializationSequence[i] = "views" <=> i = 8
<1>1. InitializationSequence \in Seq({"readonly", "storage", "permission", "cache", "redirection", "listeners", "includes", "views"})
      /\ Len(InitializationSequence) = 8
    BY DEF InitializationSequence
<1>2. Remaining(1) = InitializationSequence
    BY <1>1 DEF Remaining
<1>3. ASSUME NEW i \in 1..9, Remaining(i) # <<>>
      PROVE  /\ i \in 1..8 /\ Head(Remaining(i)) = InitializationSequence[i]
             /\ Tail(Remaining(i)) = Remaining(i + 1)
    <2>1. i # 9
        <3>1. Remaining(9) = <<>>
            BY DEF Remaining
        <3> QED BY <1>3, <3>1
    <2>2. i \in 1..8 /\ 1 \in 1..(9 - i) /\ 9 - i \in Nat
        BY <2>1
    <2> DEFINE S == {"readonly", "storage", "permission", "cache", "redirection", "listeners", "includes", "views"}
    <2>3. ASSUME NEW j \in 1..(9 - i) PROVE InitializationSequence[i + j - 1] \in S
        <3>1. i + j - 1 \in 1..8
            BY <2>2
        <3> QED BY <1>1, <3>1, ElementOfSeq
    <2> HIDE DEF S
    <2>4. Remaining(i) \in Seq(S) /\ Len(Remaining(i)) = 9 - i
        BY <2>2, <2>3 DEF Remaining
    <2>5. Head(Remaining(i)) = InitializationSequence[i]
        <3>1. Head(Remaining(i)) = Remaining(i)[1]
            BY <2>4, <1>3
        <3> QED BY <2>2, <3>1 DEF Remaining
    <2>6. /\ Tail(Remaining(i)) \in Seq(S) /\ Len(Tail(Remaining(i))) = Len(Remaining(i)) - 1
          /\ \A j \in 1..Len(Tail(Remaining(i))) : Tail(Remaining(i))[j] = Remaining(i)[j + 1]
        BY <2>4, <1>3, HeadTailProperties
    <2> DEFINE rest == Tail(Remaining(i))
    <2> HIDE DEF rest
    <2>7. rest = [j \in 1..Len(rest) |-> rest[j]]
        <3>1. rest \in Seq(S)
            BY <2>6 DEF rest
        <3>2. rest \in [1..Len(rest) -> S]
            BY <3>1, LenProperties
        <3> QED BY <3>2
    <2>8. Tail(Remaining(i)) = Remaining(i + 1)
        <3>1. Len(Remaining(i)) - 1 = 9 - (i + 1)
            BY <2>2, <2>4
        <3>2. ASSUME NEW j \in 1..(9 - (i + 1)) PROVE Remaining(i)[j + 1] = InitializationSequence[(i + 1) + j - 1]
            <4>1. j + 1 \in 1..(9 - i) /\ i + (j + 1) - 1 = (i + 1) + j - 1
                BY <2>2
            <4> QED BY <4>1 DEF Remaining
        <3> QED BY <2>4, <2>6, <2>7, <3>1, <3>2 DEF Remaining, rest
    <2> QED BY <2>2, <2>5, <2>8
<1>4. \A i \in 1..8 : /\ InitializationSequence[i] = "readonly" <=> i = 1
                      /\ InitializationSequence[i] = "listeners" <=> i = 6
                      /\ InitializationSequence[i] = "views" <=> i = 8
    BY DEF InitializationSequence
<1> QED BY <1>2, <1>3, <1>4

\* A step that changes what is registered, and not the settings.
LEMMA AStep ==
    ASSUME StartupInv, NEW step, IsNext(step), NEW changed, StepDone(changed), step # "views",
           DOMAIN changed = RegistryFields, ServicesOf(changed.services), BackendsOf(changed.backends),
           changed.guarded = IF step = "readonly" THEN IsReadonly ELSE registry.guarded,
           changed.subscribers = IF step = "listeners" THEN AsListened ELSE registry.subscribers
    PROVE  StartupInv'
<1>1. /\ progress = "setup" /\ pending # <<>> /\ Head(pending) = step
      /\ registry' = changed /\ pending' = Tail(pending)
      /\ UNCHANGED <<deployment, progress, settings>>
    BY DEF IsNext, StepDone
<1>2. PICK i \in 1..9 :
        /\ pending = Remaining(i)
        /\ i > 1 => registry.guarded = IsReadonly
        /\ i > 6 => registry.subscribers = AsListened
    BY <1>1 DEF StartupInv, SettingUp
<1>3. i \in 1..8 /\ step = InitializationSequence[i] /\ pending' = Remaining(i + 1)
    BY <1>1, <1>2, StepsInOrder
<1>4. IsReadonly' = IsReadonly /\ AsListened' = AsListened
    BY <1>1 DEF IsReadonly, Setting, AsListened, Subscribe, ListenerActions, ListenerSetting, ReadEnv
<1>5. /\ i + 1 \in 1..9 /\ registry'.guarded = IsReadonly
      /\ i + 1 > 6 => registry'.subscribers = AsListened
    <2>1. step = "readonly" <=> i = 1
        BY <1>3, StepsInOrder
    <2>2. step = "listeners" <=> i = 6
        BY <1>3, StepsInOrder
    <2>3. i + 1 > 6 => i = 6 \/ i > 6
        BY <1>3
    <2>4. i = 1 \/ i > 1
        BY <1>3
    <2>5. i + 1 \in 1..9
        BY <1>3
    <2> QED BY <1>1, <1>2, <2>1, <2>2, <2>3, <2>4, <2>5
<1>6. SettingUp'
    BY <1>3, <1>4, <1>5 DEF SettingUp, Remaining
<1>7. Registered'
    BY <1>1 DEF Registered
<1>8. Configured'
    BY <1>1 DEF StartupInv, Configured, Loaded, IsGiven, Given, Agree, Asked
<1> QED BY <1>1, <1>6, <1>7, <1>8 DEF StartupInv

(***************************************************************************)
(* The steps of the start                                                  *)
(***************************************************************************)

LEMMA SetupBackendStep ==
    ASSUME StartupInv, NEW kind \in {"storage", "permission", "cache"}, SetupBackend(kind), progress' # "failed"
    PROVE  StartupInv'
<1> DEFINE value == Setting(kind \o "_backend")
           changed == [registry EXCEPT !.backends = Over([k \in {kind} |-> value], @)]
<1>1. Registered
    BY DEF StartupInv
<1>2. IsNext(kind) /\ kind # "readonly" /\ kind # "listeners" /\ kind # "views"
    BY DEF SetupBackend
<1>3. CASE StepDone(registry)
    BY <1>1, <1>2, <1>3, AStep DEF Registered
<1>4. CASE IsBackend(kind, value) /\ StepDone(changed)
    <2>1. /\ DOMAIN changed = RegistryFields /\ changed.services = registry.services
          /\ changed.guarded = registry.guarded /\ changed.subscribers = registry.subscribers
          /\ changed.backends = Over([k \in {kind} |-> value], registry.backends)
        BY <1>1 DEF Registered, RegistryFields
    <2>2. BackendsOf(changed.backends)
        <3>1. changed.backends = [k \in {kind} \cup DOMAIN registry.backends |->
                                     IF k \in {kind} THEN value ELSE registry.backends[k]]
            BY <2>1 DEF Over
        <3> HIDE DEF changed, value
        <3>2. value = kind \o ".memory"
            BY <1>4 DEF IsBackend
        <3> QED BY <1>1, <3>1, <3>2 DEF Registered, BackendsOf
    <2> HIDE DEF changed
    <2> QED BY <1>1, <1>2, <1>4, <2>1, <2>2, AStep DEF Registered
<1>5. progress = "setup"
    BY DEF SetupBackend, IsNext
<1> QED BY <1>2, <1>3, <1>4, <1>5 DEF SetupBackend, StartupFails

LEMMA OtherSteps ==
    ASSUME StartupInv,
           RestrictIfReadonly \/ SetupVersionRedirection \/ SetupListeners \/ IncludePlugins
    PROVE  StartupInv'
<1>1. Registered
    BY DEF StartupInv
<1>2. CASE RestrictIfReadonly
    <2> DEFINE changed == [registry EXCEPT !.guarded = IsReadonly]
    <2>1. /\ DOMAIN changed = RegistryFields /\ changed.services = registry.services
          /\ changed.guarded = IsReadonly /\ changed.subscribers = registry.subscribers
          /\ changed.backends = registry.backends
        BY <1>1 DEF Registered, RegistryFields
    <2>2. IsNext("readonly") /\ StepDone(changed)
        BY <1>2 DEF RestrictIfReadonly
    <2> HIDE DEF changed
    <2> QED BY <1>1, <2>1, <2>2, AStep DEF Registered
<1>3. CASE SetupVersionRedirection
    <2> DEFINE enabled == Enabled(Setting("version_prefix_redirect_enabled"))
               changed == [registry EXCEPT !.redirects = enabled]
    <2>1. IsNext("redirection") /\ StepDone(changed)
        BY <1>3 DEF SetupVersionRedirection
    <2> HIDE DEF enabled
    <2>2. /\ DOMAIN changed = RegistryFields /\ changed.services = registry.services
          /\ changed.guarded = registry.guarded /\ changed.subscribers = registry.subscribers
          /\ changed.backends = registry.backends
        BY <1>1 DEF Registered, RegistryFields
    <2> HIDE DEF changed
    <2> QED BY <1>1, <2>2, <2>1, AStep DEF Registered
<1>4. CASE SetupListeners
    <2> DEFINE changed == [registry EXCEPT !.subscribers = AsListened]
    <2>1. IsNext("listeners") /\ StepDone(changed)
        BY <1>4 DEF SetupListeners, AsListened
    <2>2. /\ DOMAIN changed = RegistryFields /\ changed.services = registry.services
          /\ changed.guarded = registry.guarded /\ changed.subscribers = AsListened
          /\ changed.backends = registry.backends
        BY <1>1 DEF Registered, RegistryFields
    <2> HIDE DEF changed
    <2> QED BY <1>1, <2>2, <2>1, AStep DEF Registered
<1>5. CASE IncludePlugins /\ "flush" \in Setting("includes")
    <2> DEFINE flush == [flush |-> PlainService("POST", {})]
               changed == [registry EXCEPT !.services = Over(flush, @)]
    <2>1. IsNext("includes") /\ StepDone(changed)
        BY <1>5 DEF IncludePlugins
    <2>2. /\ DOMAIN changed = RegistryFields /\ changed.services = Over(flush, registry.services)
          /\ changed.guarded = registry.guarded /\ changed.subscribers = registry.subscribers
          /\ changed.backends = registry.backends
        BY <1>1 DEF Registered, RegistryFields
    <2>3. PlainService("POST", {}) \in Seq(Def)
        <3>1. PlainService("POST", {}) \in Seq(OpenDef)
            BY PlainServices DEF AllMethods, AllTypes
        <3> QED BY <3>1 DEF OpenDef
    <2>4. ServicesOf(flush)
        BY <2>3 DEF ServicesOf, ServiceNames
    <2> HIDE DEF flush, changed
    <2>5. ServicesOf(changed.services)
        BY <1>1, <2>2, <2>4, ServicesAdded DEF Registered
    <2> QED BY <1>1, <2>2, <2>1, <2>5, AStep DEF Registered
<1>6. CASE IncludePlugins /\ "flush" \notin Setting("includes")
    <2>1. IsNext("includes") /\ StepDone(registry)
        BY <1>6 DEF IncludePlugins
    <2> QED BY <1>1, <2>1, AStep DEF Registered
<1> QED BY <1>2, <1>3, <1>4, <1>5, <1>6

LEMMA CoreServices ==
    /\ ServicesOf([hello |-> PlainService("GET", {}), batch |-> PlainService("POST", Json)])
    /\ ServicesOf(ResourceServices)
<1>1. PlainService("GET", {}) \in Seq(OpenDef) /\ PlainService("POST", Json) \in Seq(OpenDef)
    BY PlainServices DEF AllMethods, AllTypes, Json
<1>2. PlainService("GET", {}) \in Seq(Def) /\ PlainService("POST", Json) \in Seq(Def)
    BY <1>1 DEF OpenDef
<1>3. ServicesOf([hello |-> PlainService("GET", {}), batch |-> PlainService("POST", Json)])
    BY <1>1, <1>2 DEF ServicesOf, ServiceNames
<1>4. \A type : /\ Register(ResourceViews(type, PluralMethods)) \in Seq(Def)
                /\ Register(ResourceViews(type, ObjectMethods)) \in Seq(Def)
    BY ResourceViewsTyped, RegisterTyped
<1>5. ServicesOf(ResourceServices)
    BY <1>4 DEF ServicesOf, ServiceNames, ResourceServices
<1> QED BY <1>3, <1>5

LEMMA ScanViewsStep ==
    ASSUME StartupInv, ScanViews, progress' # "failed" PROVE StartupInv'
<1> DEFINE core == [hello |-> PlainService("GET", {}), batch |-> PlainService("POST", Json)]
           services == Over(core, Over(ResourceServices, registry.services))
<1>1. /\ IsNext("views") /\ BackendsAreWatched
      /\ registry' = [registry EXCEPT !.services = services]
      /\ progress' = "serving" /\ UNCHANGED <<deployment, settings>>
    BY DEF ScanViews, StartupFails
<1>2. Registered
    BY DEF StartupInv
<1>3. "hello" \in DOMAIN core
    OBVIOUS
<1>4. ServicesOf(core)
    BY CoreServices
<1> HIDE DEF core
<1>5. ServicesOf(services) /\ "hello" \in DOMAIN services
    BY <1>2, <1>3, <1>4, CoreServices, ServicesAdded, OverIs DEF Registered
<1> HIDE DEF services
<1>6. /\ DOMAIN registry' = RegistryFields /\ registry'.services = services
      /\ registry'.guarded = registry.guarded /\ registry'.subscribers = registry.subscribers
      /\ registry'.backends = registry.backends
    BY <1>1, <1>2 DEF Registered, RegistryFields
<1>7. Registered'
    BY <1>2, <1>5, <1>6 DEF Registered
<1>8. Configured'
    BY <1>1 DEF StartupInv, IsNext, Configured, Loaded, IsGiven, Given, Agree, Asked
<1>9. registry.guarded = IsReadonly /\ registry.subscribers = AsListened
    <2>1. progress = "setup" /\ pending # <<>> /\ Head(pending) = "views"
        BY <1>1 DEF IsNext
    <2>2. PICK i \in 1..9 :
            /\ pending = Remaining(i)
            /\ i > 1 => registry.guarded = IsReadonly
            /\ i > 6 => registry.subscribers = AsListened
        BY <2>1 DEF StartupInv, SettingUp
    <2>3. i \in 1..8 /\ "views" = InitializationSequence[i]
        BY <2>1, <2>2, StepsInOrder
    <2>4. i = 8
        BY <2>3, StepsInOrder
    <2> QED BY <2>2, <2>4
<1>10. IsReadonly' = IsReadonly /\ AsListened' = AsListened
    BY <1>1 DEF IsReadonly, Setting, AsListened, Subscribe, ListenerActions, ListenerSetting, ReadEnv
<1>11. Serving'
    <2>1. BackendsAreWatched'
        BY <1>1, <1>6 DEF BackendsAreWatched
    <2> QED BY <1>1, <1>5, <1>6, <1>9, <1>10, <2>1 DEF Serving
<1> QED BY <1>1, <1>7, <1>8, <1>11 DEF StartupInv

LEMMA StartupFailsStep ==
    ASSUME StartupInv, progress' = "failed", StartupNext PROVE StartupInv'
<1>1. UNCHANGED <<deployment, registry>>
    BY DEF StartupNext, LoadDefaults, LoadSetting, SettingsLoaded, RestrictIfReadonly, SetupVersionRedirection,
           SetupListeners, IncludePlugins, ScanViews, SetupBackend, StartupFails, StepDone, StartupInv, IsNext
<1> QED BY <1>1 DEF StartupInv, Registered

LEMMA StartupStep ==
    ASSUME StartupInv, StartupNext PROVE StartupInv'
<1>1. CASE progress' = "failed"
    BY <1>1, StartupFailsStep
<1>2. CASE progress' # "failed"
    <2>1. CASE LoadDefaults
        <3>1. Loading'
            BY <2>1, LoadDefaultsStep DEF StartupInv
        <3>2. progress' = "settings" /\ UNCHANGED <<deployment, registry>>
            BY <2>1 DEF LoadDefaults
        <3> QED BY <3>1, <3>2 DEF StartupInv, Registered
    <2>2. CASE LoadSetting
        <3>1. progress = "settings" /\ UNCHANGED <<deployment, registry>>
            BY <2>2 DEF LoadSetting, StartupFails
        <3>2. Loading' /\ progress' = progress
            BY <1>2, <2>2, <3>1, LoadSettingStep DEF StartupInv
        <3> QED BY <3>1, <3>2 DEF StartupInv, Registered
    <2>3. CASE SettingsLoaded
        <3>1. progress = "settings" /\ pending = {} /\ progress' = "setup" /\ pending' = InitializationSequence
              /\ UNCHANGED <<deployment, settings, registry>>
            BY <2>3 DEF SettingsLoaded
        <3>2. Configured
            BY <3>1, AllLoaded DEF StartupInv
        <3>3. Configured'
            BY <3>1, <3>2 DEF Configured, Loaded, IsGiven, Given, Agree, Asked
        <3>4. SettingUp'
            <4>1. pending' = Remaining(1)
                BY <3>1, StepsInOrder
            <4> QED BY <4>1 DEF SettingUp, Remaining
        <3> QED BY <3>1, <3>3, <3>4 DEF StartupInv, Registered
    <2>4. CASE ScanViews
        BY <1>2, <2>4, ScanViewsStep
    <2>5. CASE \E kind \in {"storage", "permission", "cache"} : SetupBackend(kind)
        BY <1>2, <2>5, SetupBackendStep
    <2>6. CASE RestrictIfReadonly \/ SetupVersionRedirection \/ SetupListeners \/ IncludePlugins
        BY <2>6, OtherSteps
    <2> QED BY <2>1, <2>2, <2>3, <2>4, <2>5, <2>6 DEF StartupNext
<1> QED BY <1>1, <1>2

LEMMA StartupStarts == StartupInit => StartupInv
<1> SUFFICES ASSUME StartupInit PROVE StartupInv
    OBVIOUS
<1>1. DOMAIN registry = RegistryFields /\ DOMAIN registry.services = {} /\ DOMAIN registry.backends = {}
    BY DEF StartupInit, RegistryFields
<1>2. Registered
    BY <1>1 DEF Registered, ServicesOf, BackendsOf
<1> QED BY <1>2 DEF StartupInit, StartupInv

\* What it comes to for a server that serves.
LEMMA ServersServe ==
    ASSUME StartupInv PROVE ServersAreAsAsked
<1> SUFFICES ASSUME progress = "serving" PROVE ServersAreAsAsked
    BY DEF ServersAreAsAsked
<1>1. Configured /\ Registered /\ Serving /\ deployment \in Deployments
    BY DEF StartupInv
<1>2. ASSUME NEW n \in DOMAIN Defaults \cup {k[1] : k \in DOMAIN deployment.file}
      PROVE  /\ Setting(n) = Native(n, Asked(n))
             /\ KeysOf(n) \subseteq DOMAIN deployment.file
                   => deployment.file[Plain(n)] = deployment.file[Prefixed(n)]
    <2>1. n \in Names /\ IsGiven(n)
        <3>1. CASE n \in DOMAIN Defaults
            BY <1>1, <3>1, GivenAre DEF Names
        <3>2. CASE \E k \in DOMAIN deployment.file : n = k[1]
            BY <1>1, <3>2, GivenAre, KeyForms
        <3> QED BY <3>1, <3>2
    <2>2. Loaded(n)
        BY <1>1, <2>1 DEF Configured
    <2> QED BY <2>2 DEF Loaded, Setting, Agree
<1> QED BY <1>1, <1>2 DEF ServersAreAsAsked, Registered, BackendsOf, Serving, BackendsAreWatched

(***************************************************************************)
(* What an exchange is, at each of its stages                              *)
(***************************************************************************)

ExchangeFields == {"request", "why", "visited", "at", "service", "definition", "wrapped", "checked",
                   "errors", "raised", "ran", "heard", "response"}
ResponseFields == {"status", "json", "origin", "exposes", "retry", "alert", "backoff", "methods", "location"}
Shaped(e) == DOMAIN e = ExchangeFields /\ DOMAIN e.response = ResponseFields

Root == [version |-> Version, name |-> "", slashes |-> 1]
Bare == [version |-> Version, name |-> "", slashes |-> 0]
\* How many redirections can follow from a path.
Rank(path) ==
    IF path.version = "" THEN 3
    ELSE IF path # Root /\ path.slashes > 0 THEN 2
    ELSE IF path = Bare THEN 1
    ELSE 0

Unanswered == {"received", "new", "route", "lookup", "secure", "validate", "view"}
WithService == {"lookup", "secure", "validate", "view"}
Finished == {"answering", "answered"}

\* Where an exchange is with its service and its view.
Found(e) ==
    /\ IsRequest(e.request) /\ e.at \in Stages /\ e.raised \in Exceptions
    /\ e.service \in {Nobody, ServiceOf(e.request.path)}
    /\ e.at \in {"received", "new"} => e.service = Nobody
    /\ e.at \in WithService => e.service # Nobody
    /\ e.at \in {"secure", "validate", "view"} => e.definition > 0
    /\ e.definition \in Nat
    /\ e.definition > 0 => e.service # Nobody /\ e.definition \in Of(e, e.request.method)

OriginPassed(e) == Origins = {} \/ e.request.origin = Nobody \/ Accepted(e.request.origin)
GuardPassed(e) == registry.guarded => e.request.method \in ReadonlyMethods
\* What has been checked when a view runs, and what its listeners hear.
Allowed(e) ==
    /\ ~e.wrapped => e.service = Nobody /\ ~e.ran /\ e.at \in {"received", "new"} \cup Finished
    /\ e.at = "received" => ~e.wrapped
    /\ e.at \in Unanswered => e.raised = "" /\ ~e.ran
    /\ e.at = "route" \/ e.at \in WithService => GuardPassed(e)
    /\ e.at = "view" => OriginPassed(e)
    /\ e.ran => /\ e.definition > 0 /\ e.request.method # "OPTIONS"
                /\ OriginPassed(e) /\ GuardPassed(e)
    /\ e.ran /\ e.raised = "" => e.heard = Heard(e)

\* What is known of an exception.
RaisedWell(e) ==
    /\ e.raised = "NotFound" => e.request.path # Root
    /\ e.at = "except" => e.raised # ""
    /\ e.at = "except" /\ e.raised = "Forbidden" => e.service # Nobody /\ ~e.checked
    /\ e.at = "except" /\ e.raised = "MethodNotAllowed" => ~e.response.json
    /\ e.raised \in {"Unavailable", "IntegrityError", "BackendError"} => e.ran

Warned(e) ==
    /\ (e.response.alert # "" <=> Dated)
    /\ (e.response.alert = "hard-eol" <=> e.response.status = 410)
    /\ e.response.status = 410 => ~e.wrapped /\ late
Warning(e) ==
    /\ e.at \notin {"callbacks"} \cup Finished => e.response.alert = ""
    /\ e.at \notin Finished => e.response.status # 410
    /\ e.at = "callbacks" => (e.response.alert # "" <=> Dated) /\ e.response.alert # "hard-eol"
    /\ e.at \in Finished => Warned(e)

\* The headers of CORS.
Readable(e) ==
    LET o == e.request.origin
    IN  o # Nobody /\ Accepted(o) /\ (e.service # Nobody \/ Origins \cap {"*", o} # {})
        => e.response.origin \in {"*", o}
Unread(e) == e.request.origin # Nobody /\ ~Accepted(e.request.origin) => e.response.origin = ""
Shared(e) ==
    /\ Unread(e)
    /\ e.response.retry => e.response.exposes
    /\ e.at \in Unanswered \ {"view"} => ~e.checked
    /\ e.at \in {"view"} \cup Finished => Readable(e)
    /\ e.at \in {"tween", "callbacks"} => Readable(e) \/ (e.service # Nobody /\ ~e.checked)

\* What a response tells clients.
Informs(e, r) ==
    /\ r.methods # {} => e.service # Nobody /\ r.methods = DefinedMethods(Definitions(e))
    /\ r.status = 405 =>
          \/ registry.guarded /\ e.request.method \notin ReadonlyMethods
          \/ e.service # Nobody /\ Of(e, e.request.method) = {}
    /\ r.location # Nobody => IsPath(r.location) /\ Rank(r.location) < Rank(e.request.path)
\* What they were told before.
Promised(e) ==
    e.why \in {"preflighted", "allowed"} =>
        LET s == ServiceOf(e.request.path)
        IN  s # Nobody /\ e.request.method \in DefinedMethods(registry.services[s])
Redirected(e) ==
    /\ IsFiniteSet(e.visited) /\ Nobody \notin e.visited
    /\ \A p \in e.visited : Rank(p) >= Rank(e.request.path)
    /\ Cardinality(e.visited) + Rank(e.request.path) <= 4

\* All but the response.
Sound(e) ==
    Shaped(e) /\ Found(e) /\ Allowed(e) /\ RaisedWell(e) /\ Promised(e) /\ Redirected(e)
ExchangeInv(e) == Sound(e) /\ Warning(e) /\ Shared(e) /\ Informs(e, e.response)

DispatchInv ==
    /\ StartupInv /\ late \in BOOLEAN
    /\ exchange.at # "none" => progress = "serving" /\ ExchangeInv(exchange)

(***************************************************************************)
(* What the headers of CORS change, and what they do not                   *)
(***************************************************************************)

\* c is e but for what CORS changes.
Recast(e, c) ==
    /\ Shaped(c)
    /\ c.request = e.request /\ c.why = e.why /\ c.visited = e.visited /\ c.at = e.at
    /\ c.service = e.service /\ c.definition = e.definition /\ c.wrapped = e.wrapped
    /\ c.raised = e.raised /\ c.ran = e.ran /\ c.heard = e.heard
    /\ c.response.status = e.response.status /\ c.response.json = e.response.json
    /\ c.response.retry = e.response.retry /\ c.response.alert = e.response.alert
    /\ c.response.backoff = e.response.backoff /\ c.response.methods = e.response.methods
    /\ c.response.location = e.response.location

LEMMA Checking ==
    ASSUME NEW e, Shaped(e), NEW b
    PROVE  LET c == [e EXCEPT !.checked = b]
           IN  Recast(e, c) /\ c.checked = b /\ c.errors = e.errors /\ c.response = e.response
BY DEF Shaped, Recast, ExchangeFields

LEMMA Exposing ==
    ASSUME NEW e, Shaped(e), NEW b
    PROVE  LET c == [e EXCEPT !.response.exposes = b]
           IN  /\ Recast(e, c) /\ c.checked = e.checked /\ c.errors = e.errors
               /\ c.response.origin = e.response.origin /\ c.response.exposes = b
BY DEF Shaped, Recast, ExchangeFields, ResponseFields

LEMMA EnsureOriginIs ==
    ASSUME NEW e, Shaped(e)
    PROVE  LET c == EnsureOrigin(e)
               o == e.request.origin
           IN  /\ Recast(e, c) /\ c.checked = TRUE /\ c.response.exposes = e.response.exposes
               /\ c.errors = IF ~e.checked /\ o # Nobody /\ ~Accepted(o) THEN e.errors \cup {"Origin"} ELSE e.errors
               /\ Unread(e) => Unread(c)
               /\ Readable(e) \/ ~e.checked => Readable(c)
<1> DEFINE o == e.request.origin
           c == EnsureOrigin(e)
<1>1. CASE e.checked \/ o = Nobody
    <2>1. c = [e EXCEPT !.checked = TRUE]
        BY <1>1 DEF EnsureOrigin
    <2> HIDE DEF c
    <2>2. Recast(e, c) /\ c.checked = TRUE /\ c.errors = e.errors /\ c.response = e.response
        BY <2>1, Checking
    <2> QED BY <1>1, <2>2 DEF c, Recast, Unread, Readable
<1>2. CASE ~e.checked /\ o # Nobody /\ ~Accepted(o)
    <2>1. c = [e EXCEPT !.checked = TRUE, !.errors = e.errors \cup {"Origin"}]
        BY <1>2 DEF EnsureOrigin
    <2> HIDE DEF c
    <2>2. Recast(e, c) /\ c.checked = TRUE /\ c.errors = e.errors \cup {"Origin"} /\ c.response = e.response
        BY <2>1 DEF Shaped, Recast, ExchangeFields
    <2> QED BY <1>2, <2>2 DEF c, Recast, Unread, Readable
<1>3. CASE ~e.checked /\ o # Nobody /\ Accepted(o)
    <2> DEFINE header == IF "*" \in Origins THEN "*" ELSE o
    <2>1. c = [e EXCEPT !.checked = TRUE, !.response.origin = header]
        BY <1>3 DEF EnsureOrigin
    <2>2. header \in {"*", o}
        OBVIOUS
    <2> HIDE DEF c, header
    <2>3. /\ Recast(e, c) /\ c.checked = TRUE /\ c.errors = e.errors
          /\ c.response.origin = header /\ c.response.exposes = e.response.exposes
        BY <2>1 DEF Shaped, Recast, ExchangeFields, ResponseFields
    <2> QED BY <1>3, <2>3, <2>2 DEF c, Recast, Unread, Readable
<1> QED BY <1>1, <1>2, <1>3

\* Views that serve the method of a request.
Serves(e) == e.request.method # "OPTIONS" /\ Of(e, e.request.method) # {}

LEMMA PostRequestIs ==
    ASSUME NEW e, Shaped(e)
    PROVE  LET c == PostRequest(e)
           IN  /\ Recast(e, c)
               /\ e.response.exposes \/ Serves(e) => c.response.exposes
               /\ Unread(e) => Unread(c)
               /\ Readable(e) \/ ~e.checked => Readable(c)
<1> DEFINE d == EnsureOrigin(e)
           c == PostRequest(e)
<1>1. /\ Recast(e, d) /\ d.response.exposes = e.response.exposes
      /\ Unread(e) => Unread(d)
      /\ Readable(e) \/ ~e.checked => Readable(d)
    BY EnsureOriginIs
<1>2. CASE e.request.method = "OPTIONS"
    <2>1. c = d
        BY <1>2 DEF PostRequest
    <2> HIDE DEF c, d
    <2> QED BY <1>1, <1>2, <2>1 DEF Serves, c
<1>3. CASE e.request.method # "OPTIONS"
    <2> DEFINE b == d.response.exposes \/ Of(d, d.request.method) # {}
    <2>1. c = [d EXCEPT !.response.exposes = @ \/ Of(e, e.request.method) # {}]
        BY <1>3 DEF PostRequest
    <2> DEFINE more == d.response.exposes \/ Of(e, e.request.method) # {}
    <2>2. c = [d EXCEPT !.response.exposes = more]
        BY <2>1
    <2>3. e.response.exposes \/ Serves(e) => more
        BY <1>1 DEF Serves
    <2> HIDE DEF c, d, more
    <2>4. Recast(d, c) /\ c.response.origin = d.response.origin /\ c.response.exposes = more
        BY <1>1, <2>2, Exposing DEF Recast
    <2>5. Recast(e, c)
        BY <1>1, <2>4 DEF Recast
    <2>6. (Unread(d) => Unread(c)) /\ (Readable(d) => Readable(c))
        BY <2>4 DEF Unread, Readable, Recast
    <2> QED BY <1>1, <2>3, <2>4, <2>5, <2>6 DEF c
<1> QED BY <1>2, <1>3

LEMMA ReapplyCorsIs ==
    ASSUME NEW e, Shaped(e)
    PROVE  LET c == ReapplyCors(e)
           IN  /\ Recast(e, c) /\ Readable(c)
               /\ e.response.exposes \/ e.service = Nobody \/ Serves(e) => c.response.exposes
               /\ Unread(e) => Unread(c)
<1> DEFINE c == ReapplyCors(e)
           o == e.request.origin
<1>1. CASE e.service # Nobody
    <2> DEFINE d == [e EXCEPT !.checked = FALSE]
    <2>1. c = PostRequest(d)
        BY <1>1 DEF ReapplyCors
    <2>2. Recast(e, d) /\ d.checked = FALSE /\ d.response = e.response
        BY Checking
    <2> HIDE DEF d
    <2>3. (Serves(e) => Serves(d)) /\ (Unread(e) => Unread(d))
        BY <2>2 DEF Recast, Serves, Of, Definitions, Unread
    <2>4. /\ Recast(d, c) /\ Readable(c) /\ (Unread(d) => Unread(c))
          /\ d.response.exposes \/ Serves(d) => c.response.exposes
        BY <2>1, <2>2, PostRequestIs DEF Recast
    <2> HIDE DEF c
    <2>5. Recast(e, c)
        BY <2>2, <2>4 DEF Recast
    <2> QED BY <1>1, <2>2, <2>3, <2>4, <2>5 DEF c
<1>2. CASE e.service = Nobody
    <2> DEFINE matches == Origins \cap {"*", o}
               header == IF o = Nobody \/ matches = {} THEN e.response.origin ELSE CHOOSE x \in matches : TRUE
    <2>1. c = [e EXCEPT !.response.exposes = TRUE, !.response.origin = header]
        BY <1>2 DEF ReapplyCors
    <2>2. o # Nobody /\ matches # {} => header \in {"*", o}
        OBVIOUS
    <2>3. o = Nobody \/ matches = {} => header = e.response.origin
        OBVIOUS
    <2>4. matches # {} => Accepted(o)
        BY DEF Accepted, Matches
    <2> HIDE DEF matches, header, c
    <2>5. Recast(e, c) /\ c.response.origin = header /\ c.response.exposes
        BY <2>1 DEF Shaped, Recast, ExchangeFields, ResponseFields
    <2>6. Unread(e) => Unread(c)
        BY <2>3, <2>4, <2>5 DEF Unread, Recast
    <2>7. Readable(c)
        BY <1>2, <2>2, <2>5 DEF Readable, Recast, matches
    <2> QED BY <2>5, <2>6, <2>7 DEF c
<1> QED BY <1>1, <1>2

(***************************************************************************)
(* From one stage to another                                               *)
(***************************************************************************)

\* a is a later stage of e: the same request, as far as it was looked up and run.
SameRequest(e, a) ==
    /\ Shaped(a)
    /\ a.request = e.request /\ a.why = e.why /\ a.visited = e.visited
    /\ a.service = e.service /\ a.definition = e.definition /\ a.wrapped = e.wrapped
    /\ a.ran = e.ran /\ a.heard = e.heard

LEMMA Moving ==
    ASSUME NEW e, Shaped(e), NEW stage
    PROVE  LET a == At(e, stage)
           IN  /\ SameRequest(e, a) /\ a.at = stage /\ a.response = e.response
               /\ a.raised = e.raised /\ a.checked = e.checked /\ a.errors = e.errors
BY DEF At, Shaped, SameRequest, ExchangeFields

LEMMA Answering ==
    ASSUME NEW e, Shaped(e), NEW response, DOMAIN response = ResponseFields, NEW stage
    PROVE  LET a == Answer(e, response, stage)
           IN  /\ SameRequest(e, a) /\ a.at = stage /\ a.response = response
               /\ a.raised = e.raised /\ a.checked = e.checked /\ a.errors = e.errors
BY DEF Answer, Shaped, SameRequest, ExchangeFields

LEMMA Raising ==
    ASSUME NEW e, Shaped(e), NEW response, DOMAIN response = ResponseFields, NEW kind
    PROVE  LET a == Raise(e, kind, response)
           IN  /\ SameRequest(e, a) /\ a.at = "except" /\ a.response = response
               /\ a.raised = kind /\ a.checked = e.checked /\ a.errors = e.errors
BY DEF Raise, Shaped, SameRequest, ExchangeFields

\* What a response has when nothing was added to it.
Bland(r) ==
    /\ DOMAIN r = ResponseFields /\ r.origin = "" /\ r.alert = "" /\ ~r.retry
    /\ r.methods = {} /\ r.location = Nobody
Clean(r) == r.origin = ""

LEMMA BlandInforms ==
    ASSUME NEW e, NEW r, Bland(r)
    PROVE  Clean(r) /\ DOMAIN r = ResponseFields /\ (r.status # 405 => Informs(e, r))
BY DEF Bland, Clean, Informs

LEMMA Replies ==
    /\ Bland(NoResponse) /\ NoResponse.status = 0 /\ ~NoResponse.json
    /\ \A code : Bland(Reply(code)) /\ Reply(code).status = code /\ Reply(code).json
    /\ \A code : Bland(Page(code)) /\ Page(code).status = code /\ ~Page(code).json
<1>1. Bland(NoResponse) /\ NoResponse.status = 0 /\ ~NoResponse.json
    BY DEF Bland, NoResponse, ResponseFields
<1>2. ASSUME NEW code PROVE Bland(Reply(code)) /\ Reply(code).status = code /\ Reply(code).json
    BY DEF Bland, NoResponse, Reply, ResponseFields
<1>3. ASSUME NEW code PROVE Bland(Page(code)) /\ Page(code).status = code /\ ~Page(code).json
    BY DEF Bland, NoResponse, Page, ResponseFields
<1> QED BY <1>1, <1>2, <1>3

\* The same service has the same views.
LEMMA SameViews ==
    ASSUME NEW e, NEW a, SameRequest(e, a)
    PROVE  /\ Definitions(a) = Definitions(e) /\ View(a) = View(e) /\ Heard(a) = Heard(e)
           /\ \A method : Of(a, method) = Of(e, method)
           /\ Serves(a) <=> Serves(e)
           /\ OriginPassed(a) <=> OriginPassed(e)
           /\ GuardPassed(a) <=> GuardPassed(e)
<1>1. Definitions(a) = Definitions(e)
    BY DEF SameRequest, Definitions
<1>2. \A method : Of(a, method) = Of(e, method)
    BY <1>1 DEF Of
<1>3. View(a) = View(e)
    BY <1>1 DEF View, SameRequest
<1>4. Heard(a) = Heard(e)
    BY <1>3 DEF Heard, SameRequest
<1> QED BY <1>1, <1>2, <1>3, <1>4 DEF SameRequest, Serves, OriginPassed, GuardPassed

LEMMA SameViewsOf ==
    ASSUME NEW e, NEW a, SameRequest(e, a)
    PROVE  Of(a, a.request.method) = Of(e, e.request.method) /\ Definitions(a) = Definitions(e)
<1>1. a.request = e.request
    BY DEF SameRequest
<1>2. \A method : Of(a, method) = Of(e, method)
    BY SameViews
<1> QED BY <1>1, <1>2, SameViews

LEMMA SameParts ==
    ASSUME NEW e, NEW a, SameRequest(e, a)
    PROVE  /\ Shaped(a) /\ a.request = e.request /\ a.why = e.why /\ a.visited = e.visited
           /\ a.service = e.service /\ a.definition = e.definition /\ a.wrapped = e.wrapped
           /\ a.ran = e.ran /\ a.heard = e.heard
BY DEF SameRequest

\* What was told, and is told, stays true.
LEMMA StillTold ==
    ASSUME NEW e, NEW a, SameRequest(e, a)
    PROVE  /\ \A r : Informs(e, r) => Informs(a, r)
           /\ Promised(e) => Promised(a)
           /\ Redirected(e) => Redirected(a)
<1>1. /\ Shaped(a) /\ a.request = e.request /\ a.why = e.why /\ a.visited = e.visited
      /\ a.service = e.service
    BY SameParts
<1>2. Of(a, a.request.method) = Of(e, e.request.method)
    BY SameViewsOf
<1>3. Definitions(a) = Definitions(e)
    BY SameViewsOf
<1> QED BY <1>1, <1>2, <1>3 DEF Informs, Promised, Redirected

\* What is to be shown of a stage after the views.
Later(e, a) ==
    /\ SameRequest(e, a)
    /\ a.at \in {"except", "tween", "callbacks", "answering", "answered"} /\ a.raised \in Exceptions
    /\ e.wrapped \/ a.at \in Finished
    /\ a.ran /\ a.raised = "" => e.raised = ""

LEMMA LaterStages ==
    ASSUME NEW e, NEW a, Sound(e), Later(e, a),
           RaisedWell(a), Warning(a), Shared(a), Informs(e, a.response)
    PROVE  ExchangeInv(a)
<1>1. Found(a)
    <2>1. /\ a.at \in Stages /\ a.at \notin WithService
          /\ a.at \notin {"received", "new"} /\ a.at \notin {"secure", "validate", "view"}
        BY DEF Later, Stages, WithService, Exceptions
    <2>2. Of(a, a.request.method) = Of(e, e.request.method)
        BY SameViewsOf DEF Later
    <2> QED BY <2>1, <2>2 DEF Sound, Found, SameRequest, Later
<1>2. Allowed(a)
    <2>1. /\ SameRequest(e, a) /\ Heard(a) = Heard(e)
          /\ OriginPassed(a) <=> OriginPassed(e)
          /\ GuardPassed(a) <=> GuardPassed(e)
        BY SameViews DEF Later
    <2>2. /\ a.request = e.request /\ a.service = e.service /\ a.definition = e.definition
          /\ a.wrapped = e.wrapped /\ a.ran = e.ran /\ a.heard = e.heard
        BY <2>1 DEF SameRequest
    <2> QED BY <2>1, <2>2 DEF Later, Sound, Allowed, Unanswered, WithService, Finished
<1>3. SameRequest(e, a)
    BY DEF Later
<1>4. Informs(a, a.response) /\ Promised(a) /\ Redirected(a)
    BY <1>3, StillTold DEF Sound
<1> QED BY <1>1, <1>2, <1>3, <1>4 DEF ExchangeInv, Sound, SameRequest

\* An answer with the headers of CORS.
LEMMA Recasting ==
    ASSUME NEW e, Shaped(e), NEW response, DOMAIN response = ResponseFields, NEW stage
    PROVE  LET c == ReapplyCors(Answer(e, response, stage))
           IN  /\ SameRequest(e, c) /\ c.at = stage /\ c.raised = e.raised /\ Readable(c)
               /\ Clean(response) => Unread(c)
               /\ response.exposes \/ e.service = Nobody \/ Serves(e) => c.response.exposes
               /\ c.response.status = response.status /\ c.response.json = response.json
               /\ c.response.retry = response.retry /\ c.response.alert = response.alert
               /\ c.response.methods = response.methods /\ c.response.location = response.location
<1> DEFINE a == Answer(e, response, stage)
           c == ReapplyCors(a)
<1>1. SameRequest(e, a) /\ a.at = stage /\ a.response = response /\ a.raised = e.raised
    BY Answering
<1> HIDE DEF a
<1>2. /\ Recast(a, c) /\ Readable(c) /\ (Unread(a) => Unread(c))
      /\ a.response.exposes \/ a.service = Nobody \/ Serves(a) => c.response.exposes
    BY <1>1, ReapplyCorsIs DEF SameRequest
<1>3. Serves(a) <=> Serves(e)
    BY <1>1, SameViews
<1>4. Clean(response) => Unread(a)
    BY <1>1 DEF Unread, Clean
<1> HIDE DEF c
<1>5. SameRequest(e, c)
    BY <1>1, <1>2 DEF SameRequest, Recast
<1> QED BY <1>1, <1>2, <1>3, <1>4, <1>5 DEF c, Recast, SameRequest, a

LEMMA RecastAt ==
    ASSUME NEW e, Shaped(e), NEW stage
    PROVE  LET c == ReapplyCors(At(e, stage))
           IN  /\ SameRequest(e, c) /\ c.at = stage /\ c.raised = e.raised /\ Readable(c)
               /\ Unread(e) => Unread(c)
               /\ e.response.exposes => c.response.exposes
               /\ c.response.status = e.response.status /\ c.response.json = e.response.json
               /\ c.response.retry = e.response.retry /\ c.response.alert = e.response.alert
               /\ c.response.methods = e.response.methods /\ c.response.location = e.response.location
<1> DEFINE a == At(e, stage)
           c == ReapplyCors(a)
<1>1. SameRequest(e, a) /\ a.at = stage /\ a.response = e.response /\ a.raised = e.raised
    BY Moving
<1> HIDE DEF a
<1>2. /\ Recast(a, c) /\ Readable(c) /\ (Unread(a) => Unread(c))
      /\ a.response.exposes => c.response.exposes
    BY <1>1, ReapplyCorsIs DEF SameRequest
<1>3. Unread(e) => Unread(a)
    BY <1>1 DEF Unread, SameRequest
<1> HIDE DEF c
<1>4. SameRequest(e, c)
    BY <1>1, <1>2 DEF SameRequest, Recast
<1> QED BY <1>1, <1>2, <1>3, <1>4 DEF c, Recast, SameRequest, a

LEMMA HardEndOfService ==
    ASSUME NEW e, ExchangeInv(e), e.at = "received", Dated, late
    PROVE  ExchangeInv(ReapplyCors(Answer(e, [Reply(410) EXCEPT !.alert = "hard-eol"], "answering")))
<1> DEFINE q == Reply(410)
           r == [q EXCEPT !.alert = "hard-eol"]
           a == ReapplyCors(Answer(e, r, "answering"))
<1>1. Shaped(e) /\ Sound(e)
    BY DEF ExchangeInv, Sound
<1>2. e.service = Nobody /\ ~e.wrapped /\ ~e.ran /\ e.raised = ""
    BY DEF ExchangeInv, Sound, Found, Allowed, Unanswered
<1>3. Bland(q) /\ q.status = 410
    BY Replies
<1> HIDE DEF q
<1>4. /\ r.alert = "hard-eol" /\ ~r.retry
      /\ r.methods = {} /\ r.location = Nobody /\ r.status = 410
    BY <1>3 DEF Bland, ResponseFields
<1>5. DOMAIN r = ResponseFields /\ Clean(r)
    BY <1>3 DEF Bland, Clean, ResponseFields
<1> HIDE DEF r
<1>6. /\ SameRequest(e, a) /\ a.at = "answering" /\ a.raised = e.raised /\ Readable(a) /\ Unread(a)
      /\ a.response.status = r.status /\ a.response.retry = r.retry /\ a.response.alert = r.alert
      /\ a.response.methods = r.methods /\ a.response.location = r.location
    BY Recasting, <1>1, <1>5
<1> HIDE DEF a
<1>7. a.wrapped = e.wrapped /\ a.ran = e.ran
    BY <1>6, SameParts
<1>8. RaisedWell(a)
    BY <1>2, <1>6, <1>7 DEF RaisedWell
<1>9. Warned(a)
    BY <1>2, <1>4, <1>6, <1>7 DEF Warned
<1>10. Warning(a)
    BY <1>6, <1>9 DEF Warning, Finished
<1>11. Shared(a)
    BY <1>4, <1>6 DEF Shared, Unanswered
<1>12. Later(e, a)
    <2>1. a.raised \in Exceptions /\ a.at \in Finished
        BY <1>2, <1>6 DEF Exceptions, Finished
    <2> QED BY <1>2, <1>6, <2>1 DEF Later
<1>13. Informs(e, a.response)
    BY <1>4, <1>6 DEF Informs
<1>14. ExchangeInv(a)
    BY <1>1, <1>8, <1>10, <1>11, <1>12, <1>13, LaterStages
<1> QED BY <1>14 DEF a, r, q

\* Another stage with the same response, before any view.
Forward(e, a) ==
    /\ Shaped(a)
    /\ a.request = e.request /\ a.why = e.why /\ a.visited = e.visited
    /\ a.service = e.service /\ a.definition = e.definition
    /\ a.ran = e.ran /\ a.heard = e.heard
    /\ a.response = e.response /\ a.raised = e.raised /\ a.checked = e.checked

LEMMA StillServed ==
    ASSUME NEW e, NEW a, Forward(e, a)
    PROVE  /\ Definitions(a) = Definitions(e)
           /\ Of(a, a.request.method) = Of(e, e.request.method)
           /\ OriginPassed(a) <=> OriginPassed(e)
           /\ GuardPassed(a) <=> GuardPassed(e)
           /\ Unread(e) => Unread(a)
           /\ Readable(e) => Readable(a)
           /\ Informs(e, e.response) => Informs(a, a.response)
           /\ Promised(e) => Promised(a)
           /\ Redirected(e) => Redirected(a)
<1>1. /\ a.request = e.request /\ a.why = e.why /\ a.visited = e.visited
      /\ a.service = e.service /\ a.response = e.response
    BY DEF Forward
<1>2. Definitions(a) = Definitions(e)
    BY <1>1 DEF Definitions
<1>3. Of(a, a.request.method) = Of(e, e.request.method)
    BY <1>1, <1>2 DEF Of
<1>4. (OriginPassed(a) <=> OriginPassed(e)) /\ (GuardPassed(a) <=> GuardPassed(e))
    BY <1>1 DEF OriginPassed, GuardPassed
<1>5. (Unread(e) => Unread(a)) /\ (Readable(e) => Readable(a))
    BY <1>1 DEF Unread, Readable
<1>6. (Promised(e) => Promised(a)) /\ (Redirected(e) => Redirected(a))
    BY <1>1 DEF Promised, Redirected
<1>7. Informs(e, e.response) => Informs(a, a.response)
    BY <1>1, <1>2, <1>3 DEF Informs
<1> QED BY <1>2, <1>3, <1>4, <1>5, <1>6, <1>7

\* From one stage before the views to the next.
Onward(e, a) ==
    /\ Forward(e, a) /\ a.at \in Unanswered \ {"received"} /\ e.at \in Unanswered \ {"view"}
    /\ a.wrapped \/ (a.at = "new" /\ e.at = "received")
    /\ a.at = "new" => e.at \in {"received", "new"}
    /\ a.at \in WithService => e.service # Nobody /\ GuardPassed(e)
    /\ a.at = "route" => GuardPassed(e)
    /\ a.at \in {"secure", "validate"} => e.definition > 0
    /\ a.at # "view"

LEMMA GoingOn ==
    ASSUME NEW e, NEW a, ExchangeInv(e), Onward(e, a)
    PROVE  ExchangeInv(a)
<1>1. Forward(e, a)
    BY DEF Onward
<1>2. /\ Shaped(a) /\ a.request = e.request
      /\ a.service = e.service /\ a.definition = e.definition /\ a.ran = e.ran
      /\ a.response = e.response /\ a.raised = e.raised /\ a.checked = e.checked
    BY <1>1 DEF Forward
<1>3. /\ a.at \in {"new", "route", "lookup", "secure", "validate"}
      /\ e.at \in {"received", "new", "route", "lookup", "secure", "validate"}
    BY DEF Onward, Unanswered
<1>4. e.raised = "" /\ ~e.ran /\ ~e.checked /\ e.response.alert = "" /\ e.response.status # 410
    BY <1>3 DEF ExchangeInv, Sound, Allowed, Shared, Warning, Unanswered, Finished
<1>5. /\ Of(a, a.request.method) = Of(e, e.request.method)
      /\ GuardPassed(a) <=> GuardPassed(e)
    BY <1>1, StillServed
<1>6. Unread(a) /\ Informs(a, a.response) /\ Promised(a) /\ Redirected(a)
    BY <1>1, StillServed DEF ExchangeInv, Sound, Shared
<1>7. Found(a)
    <2>1. a.at \in Stages /\ a.raised \in Exceptions
        BY <1>2, <1>3, <1>4 DEF Stages, Exceptions
    <2>2. a.at \in {"received", "new"} => a.service = Nobody
        BY <1>2, <1>3 DEF Onward, ExchangeInv, Sound, Found
    <2>3. a.at \in WithService => a.service # Nobody
        BY <1>2 DEF Onward
    <2>4. a.at \in {"secure", "validate", "view"} => a.definition > 0
        BY <1>2, <1>3 DEF Onward
    <2> QED BY <1>2, <1>5, <2>1, <2>2, <2>3, <2>4 DEF ExchangeInv, Sound, Found
<1>8. Allowed(a)
    <2>1. ~a.wrapped => a.at = "new" /\ e.at = "received"
        BY DEF Onward
    <2>2. ~a.wrapped => a.service = Nobody
        BY <1>2, <2>1 DEF ExchangeInv, Sound, Found
    <2>3. a.at = "route" \/ a.at \in WithService => GuardPassed(a)
        BY <1>5 DEF Onward
    <2>4. a.raised = e.raised /\ a.ran = e.ran /\ e.raised = "" /\ ~e.ran
        BY <1>2, <1>4
    <2>5. a.raised = "" /\ ~a.ran
        BY <2>4
    <2>6. a.at # "received" /\ a.at # "view" /\ (~a.wrapped => a.at = "new")
        BY <1>3, <2>1
    <2> QED BY <2>2, <2>3, <2>5, <2>6 DEF Allowed
<1>9. RaisedWell(a)
    BY <1>2, <1>3, <1>4 DEF RaisedWell
<1>10. Warning(a)
    <2>1. a.at # "callbacks" /\ a.at \notin Finished
        BY <1>3 DEF Finished
    <2>2. a.response = e.response
        BY <1>2
    <2>3. e.response.alert = ""
        BY <1>4
    <2>4. e.response.status # 410
        BY <1>4
    <2>5. a.response.alert = ""
        BY <2>2, <2>3
    <2>6. a.response.status # 410
        BY <2>2, <2>4
    <2> QED BY <2>1, <2>5, <2>6 DEF Warning
<1>11. Shared(a)
    <2>1. a.response.retry => a.response.exposes
        BY <1>2 DEF ExchangeInv, Shared
    <2> QED BY <1>2, <1>3, <1>4, <1>6, <2>1 DEF Shared, Finished
<1> QED BY <1>2, <1>6, <1>7, <1>8, <1>9, <1>10, <1>11 DEF ExchangeInv, Sound

(***************************************************************************)
(* Exceptions, and answers on their way back                               *)
(***************************************************************************)

\* An exception that is raised before the views of errors see it.
Quiet(r) ==
    /\ DOMAIN r = ResponseFields /\ r.origin = "" /\ r.alert = "" /\ ~r.retry /\ r.status # 410
Reason(e, kind, r) ==
    /\ kind \in Exceptions \ {""}
    /\ kind = "NotFound" => e.request.path # Root
    /\ kind = "Forbidden" => e.service # Nobody /\ ~e.checked
    /\ kind = "MethodNotAllowed" => ~r.json
    /\ kind \in {"Unavailable", "IntegrityError", "BackendError"} => e.ran

LEMMA Excepting ==
    ASSUME NEW e, Sound(e), e.wrapped, NEW kind, NEW r, Quiet(r), Reason(e, kind, r), Informs(e, r)
    PROVE  ExchangeInv(Raise(e, kind, r))
<1> DEFINE a == Raise(e, kind, r)
<1>1. Shaped(e) /\ DOMAIN r = ResponseFields
    BY DEF Sound, Quiet
<1>2. /\ SameRequest(e, a) /\ a.at = "except" /\ a.response = r
      /\ a.raised = kind /\ a.checked = e.checked
    BY <1>1, Raising
<1> HIDE DEF a
<1>3. a.request = e.request /\ a.service = e.service /\ a.ran = e.ran
    BY <1>2, SameParts
<1>4. RaisedWell(a)
    BY <1>2, <1>3 DEF RaisedWell, Reason
<1>5. Warning(a)
    <2>1. a.at # "callbacks" /\ a.at \notin Finished
        BY <1>2 DEF Finished
    <2>2. a.response.alert = "" /\ a.response.status # 410
        BY <1>2 DEF Quiet
    <2> QED BY <2>1, <2>2 DEF Warning
<1>6. Shared(a)
    <2>1. a.at \notin Unanswered /\ a.at \notin {"view", "tween", "callbacks"} \cup Finished
        BY <1>2 DEF Unanswered, Finished
    <2>2. Unread(a) /\ ~a.response.retry
        BY <1>2 DEF Unread, Quiet
    <2> QED BY <2>1, <2>2 DEF Shared
<1>7. Later(e, a)
    <2>1. a.raised \in Exceptions \ {""}
        BY <1>2 DEF Reason
    <2>2. a.raised # ""
        BY <2>1
    <2> QED BY <1>2, <2>1, <2>2 DEF Later
<1>8. ExchangeInv(a)
    BY <1>2, <1>4, <1>5, <1>6, <1>7, LaterStages
<1> QED BY <1>8 DEF a

\* What an answer on its way back is.
Shown(e, a) ==
    /\ SameRequest(e, a) /\ e.wrapped /\ a.at = "tween" /\ a.raised = e.raised
    /\ Unread(a) /\ (Readable(a) \/ (a.service # Nobody /\ ~a.checked))
    /\ a.response.alert = "" /\ a.response.status # 410
    /\ a.response.retry => a.response.exposes

LEMMA Showing ==
    ASSUME NEW e, NEW a, Sound(e), Shown(e, a), Informs(e, a.response)
    PROVE  ExchangeInv(a)
<1>1. a.request = e.request /\ a.ran = e.ran
    <2>1. SameRequest(e, a)
        BY DEF Shown
    <2> QED BY <2>1, SameParts
<1>2. a.at = "tween" /\ a.raised = e.raised
    BY DEF Shown
<1>3. RaisedWell(a)
    BY <1>1, <1>2 DEF RaisedWell, Sound
<1>4. Warning(a)
    <2>1. a.at # "callbacks" /\ a.at \notin Finished
        BY <1>2 DEF Finished
    <2> QED BY <2>1 DEF Warning, Shown
<1>5. Shared(a)
    <2>1. a.at \notin Unanswered /\ a.at \notin {"view"} \cup Finished
        BY <1>2 DEF Unanswered, Finished
    <2> QED BY <2>1 DEF Shared, Shown
<1>6. Later(e, a)
    <2>1. a.raised \in Exceptions
        BY <1>2 DEF Sound, Found
    <2>2. SameRequest(e, a) /\ e.wrapped
        BY DEF Shown
    <2> QED BY <1>2, <2>1, <2>2 DEF Later
<1> QED BY <1>3, <1>4, <1>5, <1>6, LaterStages

\* A reply with the headers of CORS: one that tells to retry is of a view.
Plainly(e, r) ==
    /\ DOMAIN r = ResponseFields /\ r.origin = "" /\ r.alert = "" /\ r.status # 410
    /\ r.retry => e.ran

LEMMA ReplyShown ==
    ASSUME NEW e, Sound(e), e.wrapped, NEW r, Plainly(e, r), Informs(e, r)
    PROVE  ExchangeInv(ReapplyCors(Answer(e, r, "tween")))
<1> DEFINE a == ReapplyCors(Answer(e, r, "tween"))
<1>1. Shaped(e) /\ DOMAIN r = ResponseFields /\ Clean(r)
    BY DEF Sound, Plainly, Clean
<1>2. /\ SameRequest(e, a) /\ a.at = "tween" /\ a.raised = e.raised /\ Readable(a) /\ Unread(a)
      /\ Serves(e) => a.response.exposes
      /\ a.response.status = r.status /\ a.response.retry = r.retry /\ a.response.alert = r.alert
      /\ a.response.methods = r.methods /\ a.response.location = r.location
    BY <1>1, Recasting
<1> HIDE DEF a
<1>3. e.ran => Serves(e)
    BY DEF Sound, Allowed, Found, Serves
<1>4. r.retry => a.response.exposes
    BY <1>2, <1>3 DEF Plainly
<1>5. Shown(e, a)
    <2>1. r.alert = "" /\ r.status # 410
        BY DEF Plainly
    <2>2. a.response.alert = "" /\ a.response.status # 410
        BY <1>2, <2>1
    <2>3. a.response.retry => a.response.exposes
        BY <1>2, <1>4
    <2>4. SameRequest(e, a) /\ a.at = "tween" /\ a.raised = e.raised /\ Readable(a) /\ Unread(a)
        BY <1>2
    <2> QED BY <2>3, <2>2, <2>4 DEF Shown
<1>6. Informs(e, a.response)
    BY <1>2 DEF Informs
<1>7. ExchangeInv(a)
    BY <1>5, <1>6, Showing
<1> QED BY <1>7 DEF a

LEMMA BlandQuiet ==
    ASSUME NEW r, Bland(r), r.status # 410
    PROVE  Quiet(r) /\ \A e : Plainly(e, r)
BY DEF Bland, Quiet, Plainly

\* The codes of the answers.
LEMMA Codes ==
    ASSUME NEW code \in {200, 307, 400, 401, 403, 404, 406, 409, 412, 415, 500, 503}
    PROVE  /\ Bland(Reply(code)) /\ Quiet(Reply(code)) /\ Reply(code).json
           /\ Bland(Page(code)) /\ Quiet(Page(code)) /\ ~Page(code).json
           /\ \A e : /\ Plainly(e, Reply(code)) /\ Plainly(e, Page(code))
                     /\ Informs(e, Reply(code)) /\ Informs(e, Page(code))
<1>1. code # 405 /\ code # 410
    OBVIOUS
<1> DEFINE r == Reply(code)
           p == Page(code)
<1>2. Bland(r) /\ r.status = code /\ r.json /\ Bland(p) /\ p.status = code /\ ~p.json
    BY Replies
<1> HIDE DEF r, p
<1>3. r.status # 405 /\ r.status # 410 /\ p.status # 405 /\ p.status # 410
    BY <1>1, <1>2
<1>4. Quiet(r) /\ Quiet(p) /\ \A e : Plainly(e, r) /\ Plainly(e, p)
    BY <1>2, <1>3, BlandQuiet
<1>5. \A e : Informs(e, r) /\ Informs(e, p)
    BY <1>2, <1>3, BlandInforms
<1> QED BY <1>2, <1>4, <1>5 DEF r, p

LEMMA LocatedIs ==
    ASSUME NEW target
    PROVE  LET r == Located(target)
           IN  Quiet(r) /\ (\A e : Plainly(e, r)) /\ r.status # 405 /\ r.methods = {} /\ r.location = target
<1> DEFINE p == Page(307)
           r == [p EXCEPT !.location = target]
<1>1. Bland(p) /\ p.status = 307
    BY Replies
<1> HIDE DEF p
<1>2. DOMAIN r = ResponseFields /\ r.status = p.status /\ r.location = target
    BY <1>1 DEF Bland, ResponseFields
<1>3. r.origin = "" /\ r.alert = "" /\ ~r.retry /\ r.methods = {}
    BY <1>1 DEF Bland, ResponseFields
<1>4. r.status # 405 /\ r.status # 410
    BY <1>1, <1>2
<1> HIDE DEF r
<1>5. Quiet(r) /\ \A e : Plainly(e, r)
    BY <1>2, <1>3, <1>4 DEF Quiet, Plainly
<1> QED BY <1>2, <1>3, <1>4, <1>5 DEF r, p, Located


LEMMA EndOfServiceStep ==
    ASSUME ExchangeInv(exchange), EndOfService
    PROVE  ExchangeInv(exchange')
<1>1. exchange.at = "received"
    BY DEF EndOfService
<1>2. CASE Dated /\ late
    BY <1>1, <1>2, HardEndOfService DEF EndOfService
<1>3. CASE ~(Dated /\ late)
    <2> DEFINE a == At(exchange, "new")
    <2>1. Shaped(exchange)
        BY DEF ExchangeInv, Sound
    <2>2. /\ SameRequest(exchange, a) /\ a.at = "new" /\ a.response = exchange.response
          /\ a.raised = exchange.raised /\ a.checked = exchange.checked
        BY <2>1, Moving
    <2>3. exchange' = a
        BY <1>3 DEF EndOfService
    <2> HIDE DEF a
    <2>4. Forward(exchange, a)
        BY <2>2 DEF Forward, SameRequest
    <2>5. Onward(exchange, a)
        BY <1>1, <2>2, <2>4 DEF Onward, Unanswered, WithService
    <2> QED BY <2>3, <2>5, GoingOn
<1> QED BY <1>2, <1>3

LEMMA NewRequestStep ==
    ASSUME ExchangeInv(exchange), NewRequest
    PROVE  ExchangeInv(exchange')
<1> DEFINE e == exchange
           w == Wrapped(e)
<1>1. e.at = "new" /\ Shaped(e)
    BY DEF NewRequest, ExchangeInv, Sound
<1>2. Forward(e, w) /\ w.wrapped /\ w.at = e.at
    BY <1>1 DEF Wrapped, Shaped, ExchangeFields, Forward
<1>3. exchange' = IF registry.guarded /\ w.request.method \notin ReadonlyMethods
                  THEN Raise(w, "MethodNotAllowed", Page(405))
                  ELSE IF w.request.path.name = "undecodable" THEN Raise(w, "HTTP", Reply(400))
                  ELSE At(w, "route")
    BY DEF NewRequest
<1> HIDE DEF w, e
<1>4. Onward(e, w)
    BY <1>1, <1>2 DEF Onward, Unanswered, WithService
<1>5. ExchangeInv(w) /\ Sound(w)
    BY <1>4, GoingOn DEF ExchangeInv, e
<1>6. CASE registry.guarded /\ w.request.method \notin ReadonlyMethods
    <2> DEFINE r == Page(405)
               kind == "MethodNotAllowed"
    <2>1. Bland(r) /\ r.status = 405 /\ ~r.json
        BY Replies
    <2>2. exchange' = Raise(w, kind, r)
        BY <1>3, <1>6
    <2> HIDE DEF r
    <2>3. Quiet(r)
        BY <2>1, BlandQuiet
    <2>4. Informs(w, r)
        BY <1>6, <2>1 DEF Informs, Bland
    <2>5. Reason(w, kind, r)
        BY <2>1 DEF Reason, Exceptions
    <2> HIDE DEF kind
    <2> QED BY <1>2, <1>5, <2>2, <2>3, <2>4, <2>5, Excepting
<1>7. CASE w.request.path.name = "undecodable" /\ ~(registry.guarded /\ w.request.method \notin ReadonlyMethods)
    <2> DEFINE r == Reply(400)
               kind == "HTTP"
    <2>1. Quiet(r) /\ Informs(w, r)
        BY Codes
    <2>2. exchange' = Raise(w, kind, r)
        BY <1>3, <1>7
    <2> HIDE DEF r
    <2>3. Reason(w, kind, r)
        BY DEF Reason, Exceptions
    <2> HIDE DEF kind
    <2> QED BY <1>2, <1>5, <2>1, <2>2, <2>3, Excepting
<1>8. CASE w.request.path.name # "undecodable" /\ ~(registry.guarded /\ w.request.method \notin ReadonlyMethods)
    <2> DEFINE a == At(w, "route")
    <2>1. exchange' = a
        BY <1>3, <1>8
    <2>2. Shaped(w)
        BY <1>5 DEF Sound
    <2>3. /\ SameRequest(w, a) /\ a.at = "route" /\ a.response = w.response
          /\ a.raised = w.raised /\ a.checked = w.checked
        BY <2>2, Moving
    <2> HIDE DEF a
    <2>4. Forward(w, a)
        BY <2>3 DEF Forward, SameRequest
    <2>5. GuardPassed(w)
        BY <1>8 DEF GuardPassed
    <2>6. a.wrapped
        BY <1>2, <2>3 DEF SameRequest
    <2>7. Onward(w, a)
        BY <1>1, <1>2, <2>3, <2>4, <2>5, <2>6 DEF Onward, Unanswered, WithService
    <2> QED BY <1>5, <2>1, <2>7, GoingOn
<1> QED BY <1>6, <1>7, <1>8

(***************************************************************************)
(* The stages before the views                                             *)
(***************************************************************************)

LEMMA RootIsHello ==
    ServiceOf(Root) = "hello"
BY DEF Root, ServiceOf

\* A route gives an exchange its service.
LEMMA Routed ==
    ASSUME NEW e, ExchangeInv(e), e.at = "route"
    PROVE  LET v == [e EXCEPT !.service = ServiceOf(e.request.path)]
           IN  ExchangeInv(v) /\ v.at = "route" /\ v.wrapped /\ v.request = e.request
               /\ v.service = ServiceOf(e.request.path)
<1> DEFINE v == [e EXCEPT !.service = ServiceOf(e.request.path)]
<1>1. Shaped(e) /\ Sound(e) /\ e.wrapped /\ e.service \in {Nobody, ServiceOf(e.request.path)}
    BY DEF ExchangeInv, Sound, Allowed, Found, Finished
<1>2. /\ Shaped(v) /\ v.service = ServiceOf(e.request.path)
      /\ v.request = e.request /\ v.why = e.why /\ v.visited = e.visited
      /\ v.definition = e.definition /\ v.wrapped = e.wrapped /\ v.at = e.at
      /\ v.ran = e.ran /\ v.heard = e.heard
      /\ v.response = e.response /\ v.raised = e.raised /\ v.checked = e.checked
    BY <1>1 DEF Shaped, ExchangeFields
<1> HIDE DEF v
<1>3. e.service # Nobody => e.service = v.service
    BY <1>1, <1>2
<1>4. e.service # Nobody => Definitions(v) = Definitions(e) /\ Of(v, v.request.method) = Of(e, e.request.method)
    BY <1>2, <1>3 DEF Definitions, Of
<1>5. e.definition > 0 => e.service # Nobody
    BY DEF ExchangeInv, Sound, Found
<1>6. Found(v)
    <2>1. e.definition > 0 => v.service # Nobody /\ v.definition \in Of(v, v.request.method)
        BY <1>2, <1>3, <1>4, <1>5 DEF ExchangeInv, Sound, Found
    <2>2. v.at \notin {"received", "new", "secure", "validate", "view"} \cup WithService
        BY <1>2 DEF WithService
    <2> QED BY <1>2, <2>1, <2>2 DEF ExchangeInv, Sound, Found
<1>7. Allowed(v)
    <2>1. GuardPassed(v) <=> GuardPassed(e)
        BY <1>2 DEF GuardPassed
    <2>2. ~e.ran /\ e.raised = "" /\ GuardPassed(e)
        BY DEF ExchangeInv, Sound, Allowed, Unanswered
    <2> QED BY <1>1, <1>2, <2>1, <2>2 DEF Allowed
<1>8. RaisedWell(v)
    <2>1. ~e.ran /\ e.raised = ""
        BY DEF ExchangeInv, Sound, Allowed, Unanswered
    <2> QED BY <1>2, <2>1 DEF RaisedWell
<1>9. Warning(v)
    <2>1. e.response.alert = "" /\ e.response.status # 410
        BY DEF ExchangeInv, Warning, Finished
    <2>2. v.at # "callbacks" /\ v.at \notin Finished
        BY <1>2 DEF Finished
    <2>3. v.response = e.response
        BY <1>2
    <2>4. v.response.alert = "" /\ v.response.status # 410
        BY <2>1, <2>3
    <2> QED BY <2>2, <2>4 DEF Warning
<1>10. Shared(v)
    <2>1. ~e.checked /\ Unread(e) /\ (e.response.retry => e.response.exposes)
        BY DEF ExchangeInv, Shared, Unanswered
    <2>2. Unread(v) /\ (v.response.retry => v.response.exposes) /\ ~v.checked
        BY <1>2, <2>1 DEF Unread
    <2> QED BY <1>2, <2>2 DEF Shared, Finished
<1>11. Informs(v, v.response)
    <2>1. Informs(e, e.response)
        BY DEF ExchangeInv
    <2> QED BY <1>2, <1>3, <1>4, <2>1 DEF Informs
<1>12. Promised(v) /\ Redirected(v)
    BY <1>2 DEF ExchangeInv, Sound, Promised, Redirected
<1>13. ExchangeInv(v)
    BY <1>2, <1>6, <1>7, <1>8, <1>9, <1>10, <1>11, <1>12 DEF ExchangeInv, Sound
<1> QED BY <1>1, <1>2, <1>13 DEF v

LEMMA RouteStep ==
    ASSUME ExchangeInv(exchange), Route
    PROVE  ExchangeInv(exchange')
<1> DEFINE path == exchange.request.path
           v == [exchange EXCEPT !.service = ServiceOf(path)]
<1>1. exchange.at = "route"
    BY DEF Route
<1>2. ExchangeInv(v) /\ v.at = "route" /\ v.wrapped /\ v.request = exchange.request /\ v.service = ServiceOf(path)
    BY <1>1, Routed
<1>3. exchange' = IF v.service # Nobody THEN At(v, "lookup")
                  ELSE IF ~Redirects(path) THEN Raise(v, "NotFound", Page(404))
                  ELSE IF v.request.method = "OPTIONS" THEN ReapplyCors(Answer(v, Page(200), "tween"))
                  ELSE Raise(v, "HTTP", Located([path EXCEPT !.version = Version]))
    BY DEF Route
<1>4. IsPath(path)
    BY DEF ExchangeInv, Sound, Found, IsRequest
<1> HIDE DEF v, path
<1>5. Sound(v) /\ Shaped(v) /\ path = v.request.path
    BY <1>2 DEF ExchangeInv, Sound, path
<1>6. CASE v.service # Nobody
    <2> DEFINE a == At(v, "lookup")
    <2>1. exchange' = a
        BY <1>3, <1>6
    <2>2. /\ SameRequest(v, a) /\ a.at = "lookup" /\ a.response = v.response
          /\ a.raised = v.raised /\ a.checked = v.checked
        BY <1>5, Moving
    <2> HIDE DEF a
    <2>3. Forward(v, a) /\ a.wrapped = v.wrapped
        BY <2>2 DEF Forward, SameRequest
    <2>4. GuardPassed(v)
        BY <1>2, <1>5 DEF Sound, Allowed
    <2>5. Onward(v, a)
        BY <1>2, <1>6, <2>2, <2>3, <2>4 DEF Onward, Unanswered, WithService
    <2> QED BY <1>2, <2>1, <2>5, GoingOn
<1>7. CASE v.service = Nobody /\ ~Redirects(path)
    <2> DEFINE r == Page(404)
               kind == "NotFound"
    <2>1. Quiet(r) /\ Informs(v, r)
        BY Codes
    <2>2. exchange' = Raise(v, kind, r)
        BY <1>3, <1>7
    <2> HIDE DEF r
    <2>3. path # Root
        <3>1. ServiceOf(Root) = "hello"
            BY RootIsHello
        <3>2. "hello" # Nobody
            BY RequestsAssumption
        <3> QED BY <1>2, <1>7, <3>1, <3>2
    <2>4. Reason(v, kind, r)
        BY <1>5, <2>3 DEF Reason, Exceptions
    <2> HIDE DEF kind
    <2> QED BY <1>2, <1>5, <2>1, <2>2, <2>4, Excepting
<1>8. CASE v.service = Nobody /\ Redirects(path) /\ v.request.method = "OPTIONS"
    <2> DEFINE r == Page(200)
    <2>1. Plainly(v, r) /\ Informs(v, r)
        BY Codes
    <2>2. exchange' = ReapplyCors(Answer(v, r, "tween"))
        BY <1>3, <1>8
    <2> HIDE DEF r
    <2> QED BY <1>2, <1>5, <2>1, <2>2, ReplyShown
<1>9. CASE v.service = Nobody /\ Redirects(path) /\ v.request.method # "OPTIONS"
    <2> DEFINE target == [path EXCEPT !.version = Version]
               r == Located(target)
               kind == "HTTP"
    <2>1. exchange' = Raise(v, kind, r)
        BY <1>3, <1>9
    <2>2. IsPath(target) /\ Rank(target) < Rank(path)
        <3>1. path.version = "" /\ Rank(path) = 3
            BY <1>9 DEF Redirects, Rank
        <3>2. IsPath(target) /\ target.version = "v1"
            BY <1>4 DEF IsPath, Version
        <3> HIDE DEF target
        <3>3. Rank(target) \in {0, 1, 2}
            BY <3>2 DEF Rank
        <3>4. IsPath(target) /\ Rank(path) = 3
            BY <3>1, <3>2
        <3> QED BY <3>3, <3>4
    <2> HIDE DEF target
    <2>3. Quiet(r) /\ r.status # 405 /\ r.methods = {} /\ r.location = target
        BY LocatedIs
    <2> HIDE DEF r
    <2>4. Informs(v, r)
        BY <1>5, <2>2, <2>3 DEF Informs
    <2>5. Reason(v, kind, r)
        BY DEF Reason, Exceptions
    <2> HIDE DEF kind
    <2> QED BY <1>2, <1>5, <2>1, <2>3, <2>4, <2>5, Excepting
<1> QED BY <1>6, <1>7, <1>8, <1>9

\* A set of numbers that is not empty has a first one.
LEMMA FirstIsIn ==
    ASSUME NEW S \in SUBSET Nat, S # {}
    PROVE  First(S) \in S
<1>1. IsWellFoundedOn(OpToRel(<, Nat), Nat)
    BY NatLessThanWellFounded
<1>2. PICK m \in S : \A s \in S : ~(<<s, m>> \in OpToRel(<, Nat))
    BY <1>1, WFMin
<1>3. \A s \in S : ~(s < m)
    BY <1>2 DEF OpToRel
<1>4. \A s \in S : m <= s
    BY <1>3
<1> QED BY <1>4 DEF First

\* A service is one of those registered, and its views are in order.
LEMMA Serviced ==
    ASSUME StartupInv, NEW e, Sound(e), e.service # Nobody, progress = "serving"
    PROVE  /\ e.service \in DOMAIN registry.services
           /\ Definitions(e) \in Seq(Def)
           /\ \A method : Of(e, method) \subseteq Nat \ {0}
<1>1. e.service = ServiceOf(e.request.path)
    BY DEF Sound, Found
<1>2. "hello" \in DOMAIN registry.services
    BY DEF StartupInv, Serving
<1>3. e.service \in DOMAIN registry.services
    BY <1>1, <1>2 DEF ServiceOf
<1>4. registry.services[e.service] \in Seq(Def)
    BY <1>3 DEF StartupInv, Registered, ServicesOf
<1>5. Definitions(e) \in Seq(Def)
    BY <1>4 DEF Definitions
<1>6. DOMAIN Definitions(e) \subseteq Nat \ {0}
    BY <1>5
<1> QED BY <1>3, <1>5, <1>6 DEF Of

\* The view that a lookup finds.
LEMMA Looked ==
    ASSUME NEW e, ExchangeInv(e), e.at = "lookup", NEW i \in Of(e, e.request.method), i \in Nat, i > 0
    PROVE  LET v == [e EXCEPT !.definition = i]
           IN  ExchangeInv(v) /\ v.at = "lookup" /\ v.wrapped /\ v.service # Nobody /\ v.definition > 0
               /\ [e EXCEPT !.definition = i, !.at = "secure"] = At(v, "secure")
<1> DEFINE v == [e EXCEPT !.definition = i]
<1>1. Shaped(e) /\ Sound(e)
    BY DEF ExchangeInv, Sound
<1>2. /\ Shaped(v) /\ v.definition = i /\ v.service = e.service
      /\ v.request = e.request /\ v.why = e.why /\ v.visited = e.visited
      /\ v.wrapped = e.wrapped /\ v.at = e.at
      /\ v.ran = e.ran /\ v.heard = e.heard
      /\ v.response = e.response /\ v.raised = e.raised /\ v.checked = e.checked
    BY <1>1 DEF Shaped, ExchangeFields
<1>3. [e EXCEPT !.definition = i, !.at = "secure"] = At(v, "secure")
    BY <1>1 DEF Shaped, ExchangeFields, At
<1> HIDE DEF v
<1>4. e.service # Nobody /\ e.wrapped /\ ~e.ran /\ e.raised = ""
    BY DEF ExchangeInv, Sound, Found, Allowed, WithService, Unanswered, Finished
<1>5. Definitions(v) = Definitions(e) /\ Of(v, v.request.method) = Of(e, e.request.method)
    BY <1>2 DEF Definitions, Of
<1>6. Found(v)
    <2>1. v.at \notin {"received", "new"}
        BY <1>2
    <2>2. v.definition \in Nat /\ v.definition > 0 /\ v.definition \in Of(v, v.request.method) /\ v.service # Nobody
        BY <1>2, <1>4, <1>5
    <2>3. /\ v.request = e.request /\ v.service = e.service /\ v.at = e.at /\ v.raised = e.raised
        BY <1>2
    <2>4. Found(e)
        BY <1>1 DEF Sound
    <2> QED BY <2>1, <2>2, <2>3, <2>4 DEF Found
<1>7. Allowed(v)
    <2>1. GuardPassed(v) <=> GuardPassed(e)
        BY <1>2 DEF GuardPassed
    <2>2. GuardPassed(e)
        BY <1>1 DEF Sound, Allowed, WithService
    <2> QED BY <1>2, <1>4, <2>1, <2>2 DEF Allowed
<1>8. RaisedWell(v)
    BY <1>2, <1>4 DEF RaisedWell
<1>9. Warning(v)
    <2>1. e.response.alert = "" /\ e.response.status # 410
        BY DEF ExchangeInv, Warning, Finished
    <2>2. v.at # "callbacks" /\ v.at \notin Finished
        BY <1>2 DEF Finished
    <2>3. v.response = e.response
        BY <1>2
    <2>4. v.response.alert = "" /\ v.response.status # 410
        BY <2>1, <2>3
    <2> QED BY <2>2, <2>4 DEF Warning
<1>10. Shared(v)
    <2>1. ~e.checked /\ Unread(e) /\ (e.response.retry => e.response.exposes)
        BY DEF ExchangeInv, Shared, Unanswered
    <2>2. Unread(v) /\ (v.response.retry => v.response.exposes) /\ ~v.checked
        BY <1>2, <2>1 DEF Unread
    <2> QED BY <1>2, <2>2 DEF Shared, Finished
<1>11. Informs(v, v.response)
    <2>1. Informs(e, e.response)
        BY DEF ExchangeInv
    <2> QED BY <1>2, <1>5, <2>1 DEF Informs
<1>12. Promised(v) /\ Redirected(v)
    BY <1>2 DEF ExchangeInv, Sound, Promised, Redirected
<1>13. ExchangeInv(v)
    BY <1>2, <1>6, <1>7, <1>8, <1>9, <1>10, <1>11, <1>12 DEF ExchangeInv, Sound
<1>14. v.service # Nobody /\ v.wrapped /\ v.definition > 0 /\ v.at = "lookup"
    BY <1>2, <1>4
<1> QED BY <1>3, <1>13, <1>14 DEF v

\* A view is there but does not suit the request.
LEMMA Unsuited ==
    ASSUME NEW e, Sound(e), e.wrapped, NEW code \in {406, 415}
    PROVE  ExchangeInv(At([Invalid(e, code, "except") EXCEPT !.raised = "HTTP"], "except"))
<1> DEFINE r == Reply(code)
           c == ReapplyCors(Answer(e, r, "except"))
           d == [c EXCEPT !.raised = "HTTP"]
           a == At(d, "except")
<1>1. Bland(r) /\ Clean(r) /\ DOMAIN r = ResponseFields /\ Quiet(r) /\ Informs(e, r)
    BY Codes, BlandInforms
<1> HIDE DEF r
<1>2. Shaped(e)
    BY DEF Sound
<1>3. /\ SameRequest(e, c) /\ Unread(c)
      /\ c.response.status = r.status /\ c.response.retry = r.retry /\ c.response.alert = r.alert
      /\ c.response.methods = r.methods /\ c.response.location = r.location
    BY <1>1, <1>2, Recasting
<1> HIDE DEF c
<1>4. Shaped(c)
    BY <1>3, SameParts
<1>5. SameRequest(c, d) /\ d.raised = "HTTP" /\ d.response = c.response
    BY <1>4 DEF SameRequest, Shaped, ExchangeFields
<1> HIDE DEF d
<1>6. Shaped(d)
    BY <1>5, SameParts
<1>7. SameRequest(d, a) /\ a.at = "except" /\ a.raised = d.raised /\ a.response = d.response
    BY <1>6, Moving
<1> HIDE DEF a
<1>8. SameRequest(e, a)
    BY <1>3, <1>5, <1>7 DEF SameRequest
<1>9. a.response = c.response /\ a.request = c.request
    BY <1>5, <1>7 DEF SameRequest
<1>10. r.alert = "" /\ r.status # 410 /\ ~r.retry
    BY <1>1 DEF Quiet
<1>11. RaisedWell(a)
    BY <1>5, <1>7 DEF RaisedWell
<1>12. Warning(a)
    <2>1. a.at # "callbacks" /\ a.at \notin Finished
        BY <1>7 DEF Finished
    <2>2. a.response.alert = r.alert /\ a.response.status = r.status
        BY <1>3, <1>9
    <2>3. a.response.alert = ""
        BY <1>10, <2>2
    <2>4. a.response.status # 410
        BY <1>10, <2>2
    <2> QED BY <2>1, <2>3, <2>4 DEF Warning
<1>13. Shared(a)
    <2>1. a.at \notin Unanswered /\ a.at \notin {"view", "tween", "callbacks"} \cup Finished
        BY <1>7 DEF Unanswered, Finished
    <2>2. a.response.retry = r.retry
        BY <1>3, <1>9
    <2>3. ~a.response.retry
        BY <1>10, <2>2
    <2>4. Unread(a)
        BY <1>3, <1>9 DEF Unread
    <2> QED BY <2>1, <2>3, <2>4 DEF Shared
<1>14. Later(e, a)
    <2>1. a.raised \in Exceptions /\ a.raised # ""
        BY <1>5, <1>7 DEF Exceptions
    <2> QED BY <1>7, <1>8, <2>1 DEF Later
<1>15. Informs(e, a.response)
    BY <1>1, <1>3, <1>9 DEF Informs
<1>16. ExchangeInv(a)
    BY <1>11, <1>12, <1>13, <1>14, <1>15, LaterStages
<1> QED BY <1>16 DEF a, d, c, r, Invalid

LEMMA LookupStep ==
    ASSUME StartupInv, progress = "serving", ExchangeInv(exchange), Lookup
    PROVE  ExchangeInv(exchange')
<1> DEFINE e == exchange
           suitable == {i \in DOMAIN Definitions(e) : Suits(Definitions(e)[i], e.request)}
           mine == Of(e, e.request.method)
<1>1. e.at = "lookup" /\ Sound(e)
    BY DEF Lookup, ExchangeInv
<1>2. e.service # Nobody /\ e.wrapped
    BY <1>1 DEF Sound, Found, Allowed, WithService, Finished
<1>3. exchange' = IF suitable = {} THEN Fallback(e)
                  ELSE [e EXCEPT !.definition = First(suitable), !.at = "secure"]
    BY DEF Lookup
<1>4. suitable \subseteq mine /\ mine \subseteq Nat \ {0}
    <2>1. suitable \subseteq mine
        BY DEF Suits, Of
    <2>2. \A method : Of(e, method) \subseteq Nat \ {0}
        BY <1>1, <1>2, Serviced
    <2> QED BY <2>1, <2>2
<1>5. ExchangeInv(e)
    OBVIOUS
<1> HIDE DEF suitable, e
<1>6. CASE suitable # {}
    <2> DEFINE i == First(suitable)
               v == [e EXCEPT !.definition = i]
               a == At(v, "secure")
    <2>1. i \in mine /\ i \in Nat /\ i > 0
        <3>1. suitable \in SUBSET Nat
            BY <1>4
        <3>2. i \in suitable
            BY <1>6, <3>1, FirstIsIn
        <3> QED BY <1>4, <3>2
    <2> HIDE DEF i
    <2>2. /\ ExchangeInv(v) /\ v.at = "lookup" /\ v.wrapped /\ v.service # Nobody /\ v.definition > 0
          /\ [e EXCEPT !.definition = i, !.at = "secure"] = a
        BY <1>1, <1>5, <2>1, Looked
    <2>3. exchange' = a
        BY <1>3, <1>6, <2>2 DEF i
    <2> HIDE DEF v
    <2>4. Shaped(v) /\ GuardPassed(v)
        BY <2>2 DEF ExchangeInv, Sound, Allowed, WithService
    <2>5. /\ SameRequest(v, a) /\ a.at = "secure" /\ a.response = v.response
          /\ a.raised = v.raised /\ a.checked = v.checked
        BY <2>4, Moving
    <2> HIDE DEF a
    <2>6. Forward(v, a) /\ a.wrapped = v.wrapped
        BY <2>5 DEF Forward, SameRequest
    <2>7. Onward(v, a)
        BY <2>2, <2>4, <2>5, <2>6 DEF Onward, Unanswered, WithService
    <2> QED BY <2>2, <2>3, <2>7, GoingOn
<1>7. CASE suitable = {} /\ mine = {}
    <2> DEFINE p == Page(405)
               known == DefinedMethods(Definitions(e))
               r == [p EXCEPT !.methods = known]
               kind == "MethodNotAllowed"
    <2>1. Bland(p) /\ p.status = 405 /\ ~p.json
        BY Replies
    <2>2. exchange' = Raise(e, kind, r)
        BY <1>3, <1>7 DEF Fallback
    <2> HIDE DEF p, known
    <2>3. DOMAIN r = ResponseFields /\ r.status = p.status /\ r.methods = known /\ r.location = Nobody
        BY <2>1 DEF Bland, ResponseFields
    <2>4. r.origin = "" /\ r.alert = "" /\ ~r.retry /\ ~r.json
        BY <2>1 DEF Bland, ResponseFields
    <2>5. r.status # 410
        BY <2>1, <2>3
    <2> HIDE DEF r
    <2>6. Quiet(r)
        BY <2>3, <2>4, <2>5 DEF Quiet
    <2>7. Informs(e, r)
        BY <1>2, <1>7, <2>3 DEF Informs, known
    <2>8. Reason(e, kind, r)
        BY <2>4 DEF Reason, Exceptions
    <2> HIDE DEF kind
    <2> QED BY <1>1, <1>2, <2>2, <2>6, <2>7, <2>8, Excepting
<1>8. CASE suitable = {} /\ mine # {}
    <2> DEFINE a(code) == At([Invalid(e, code, "except") EXCEPT !.raised = "HTTP"], "except")
    <2>1. exchange' = a(406) \/ exchange' = a(415)
        BY <1>3, <1>8 DEF Fallback
    <2>2. ExchangeInv(a(406)) /\ ExchangeInv(a(415))
        BY <1>1, <1>2, Unsuited
    <2> HIDE DEF a
    <2> QED BY <2>1, <2>2
<1> QED BY <1>6, <1>7, <1>8

LEMMA SecureStep ==
    ASSUME ExchangeInv(exchange), Secure
    PROVE  ExchangeInv(exchange')
<1> DEFINE e == exchange
<1>1. e.at = "secure" /\ Sound(e) /\ Shaped(e)
    BY DEF Secure, ExchangeInv, Sound
<1>2. e.service # Nobody /\ e.wrapped /\ ~e.checked /\ GuardPassed(e) /\ e.definition > 0
    BY <1>1 DEF ExchangeInv, Sound, Found, Allowed, Shared, WithService, Finished, Unanswered
<1>3. exchange' \in {At(e, "validate"), Raise(e, "Forbidden", Page(403))}
    BY DEF Secure
<1>4. ExchangeInv(e)
    OBVIOUS
<1> HIDE DEF e
<1>5. CASE exchange' = At(e, "validate")
    <2> DEFINE a == At(e, "validate")
    <2>1. /\ SameRequest(e, a) /\ a.at = "validate" /\ a.response = e.response
          /\ a.raised = e.raised /\ a.checked = e.checked
        BY <1>1, Moving
    <2>2. exchange' = a
        BY <1>5
    <2> HIDE DEF a
    <2>3. Forward(e, a) /\ a.wrapped = e.wrapped
        BY <2>1 DEF Forward, SameRequest
    <2>4. Onward(e, a)
        BY <1>1, <1>2, <2>1, <2>3 DEF Onward, Unanswered, WithService
    <2> QED BY <1>4, <2>2, <2>4, GoingOn
<1>6. CASE exchange' = Raise(e, "Forbidden", Page(403))
    <2> DEFINE r == Page(403)
               kind == "Forbidden"
    <2>1. Quiet(r) /\ Informs(e, r)
        BY Codes
    <2>2. exchange' = Raise(e, kind, r)
        BY <1>6
    <2> HIDE DEF r
    <2>3. Reason(e, kind, r)
        BY <1>2 DEF Reason, Exceptions
    <2> HIDE DEF kind
    <2> QED BY <1>1, <1>2, <2>1, <2>2, <2>3, Excepting
<1> QED BY <1>3, <1>5, <1>6

\* What the validators of a view leave alone, and what they find.
Validated(e, b) ==
    /\ SameRequest(e, b) /\ b.at = e.at /\ b.raised = e.raised
    /\ Unread(b) /\ Readable(b) /\ (b.errors = {} => OriginPassed(b))
    /\ b.response.status # 405 /\ b.response.status # 410 /\ b.response.alert = "" /\ ~b.response.retry
    /\ b.response.methods = {} /\ b.response.location = Nobody

LEMMA Validators ==
    ASSUME NEW e, Shaped(e), ~e.checked
    PROVE  Validated(e, BodyValidator(CorsValidator([e EXCEPT !.response = Page(200)])))
<1> DEFINE p == Page(200)
           s == [e EXCEPT !.response = p]
           c == CorsValidator(s)
           b == BodyValidator(c)
<1>1. Bland(p) /\ p.status = 200
    BY Replies
<1> HIDE DEF p
<1>2. DOMAIN p = ResponseFields /\ p.origin = ""
    BY <1>1 DEF Bland
<1>3. SameRequest(e, s) /\ s.at = e.at /\ s.raised = e.raised /\ s.checked = e.checked /\ s.response = p
    BY <1>2 DEF Shaped, SameRequest, ExchangeFields
<1> HIDE DEF s
<1>4. Unread(s) /\ Shaped(s) /\ ~s.checked
    BY <1>2, <1>3 DEF Unread, SameRequest
<1>5. /\ Recast(s, c) /\ Unread(c) /\ Readable(c)
      /\ c.errors = {} => OriginPassed(c)
    <2>1. CASE Origins = {}
        <3>1. c = s
            BY <2>1 DEF CorsValidator
        <3>2. Recast(s, s) /\ Readable(s) /\ OriginPassed(s)
            BY <1>4, <2>1 DEF Recast, Readable, Accepted, OriginPassed
        <3> QED BY <1>4, <3>1, <3>2
    <2>2. CASE Origins # {}
        <3> DEFINE o == s.request.origin
        <3>1. c = EnsureOrigin(s)
            BY <2>2 DEF CorsValidator
        <3> HIDE DEF c
        <3>2. /\ Recast(s, c) /\ Unread(c) /\ Readable(c)
              /\ c.errors = IF ~s.checked /\ o # Nobody /\ ~Accepted(o) THEN s.errors \cup {"Origin"} ELSE s.errors
            BY <1>4, <3>1, EnsureOriginIs
        <3>3. c.errors = {} => o = Nobody \/ Accepted(o)
            BY <1>4, <3>2
        <3>4. c.request = s.request
            BY <3>2 DEF Recast
        <3> QED BY <3>2, <3>3, <3>4 DEF OriginPassed
    <2> QED BY <2>1, <2>2
<1> HIDE DEF c
<1>6. Recast(c, b) /\ b.response = c.response /\ (b.errors = {} => c.errors = {})
    <2>1. Shaped(c)
        BY <1>5 DEF Recast
    <2>2. CASE b = c
        BY <2>1, <2>2 DEF Recast
    <2>3. CASE b = [c EXCEPT !.errors = @ \cup {"body"}]
        <3> HIDE DEF b
        <3>1. Recast(c, b) /\ b.response = c.response /\ b.errors = c.errors \cup {"body"}
            BY <2>1, <2>3 DEF Shaped, Recast, ExchangeFields
        <3> QED BY <3>1
    <2> QED BY <2>2, <2>3 DEF BodyValidator
<1> HIDE DEF b
<1>7. SameRequest(e, b) /\ b.at = e.at /\ b.raised = e.raised
    BY <1>3, <1>5, <1>6 DEF Recast, SameRequest
<1>8. /\ b.response.status = p.status /\ b.response.alert = p.alert /\ b.response.retry = p.retry
      /\ b.response.methods = p.methods /\ b.response.location = p.location
    BY <1>3, <1>5, <1>6 DEF Recast
<1>9. b.request = c.request /\ b.service = c.service
    BY <1>6 DEF Recast
<1>10. Unread(b) /\ Readable(b) /\ (OriginPassed(c) => OriginPassed(b))
    BY <1>5, <1>6, <1>9 DEF Unread, Readable, OriginPassed
<1>11. b.response.status # 405 /\ b.response.status # 410
    <2>1. b.response.status = 200
        BY <1>1, <1>8
    <2> QED BY <2>1
<1>12. b.response.alert = "" /\ ~b.response.retry
    BY <1>1, <1>8 DEF Bland
<1>13. b.response.methods = {} /\ b.response.location = Nobody
    BY <1>1, <1>8 DEF Bland
<1>14. Validated(e, b)
    BY <1>5, <1>6, <1>7, <1>10, <1>11, <1>12, <1>13 DEF Validated
<1> QED BY <1>14 DEF b, c, s, p

LEMMA StillSound ==
    ASSUME NEW e, NEW b, Sound(e), SameRequest(e, b), b.at = e.at, b.raised = e.raised, e.at \in Unanswered
    PROVE  Sound(b)
<1>1. /\ Shaped(b) /\ b.request = e.request /\ b.why = e.why /\ b.visited = e.visited
      /\ b.service = e.service /\ b.definition = e.definition /\ b.wrapped = e.wrapped
      /\ b.ran = e.ran /\ b.heard = e.heard
    BY SameParts
<1>2. Of(b, b.request.method) = Of(e, e.request.method)
    BY SameViewsOf
<1>3. Promised(b) /\ Redirected(b)
    BY StillTold DEF Sound
<1>4. Found(b)
    BY <1>1, <1>2 DEF Sound, Found
<1>5. (OriginPassed(b) <=> OriginPassed(e)) /\ (GuardPassed(b) <=> GuardPassed(e))
    BY SameViews
<1>6. e.raised = "" /\ ~e.ran
    BY DEF Sound, Allowed
<1>7. Allowed(b)
    BY <1>1, <1>5, <1>6 DEF Sound, Allowed
<1>8. RaisedWell(b)
    <2>1. b.at # "except"
        BY DEF Unanswered
    <2> QED BY <1>1, <1>6, <2>1 DEF RaisedWell
<1> QED BY <1>1, <1>3, <1>4, <1>7, <1>8 DEF Sound

LEMMA ValidateStep ==
    ASSUME ExchangeInv(exchange), Validate
    PROVE  ExchangeInv(exchange')
<1> DEFINE e == exchange
           b == BodyValidator(CorsValidator([e EXCEPT !.response = Page(200)]))
<1>1. e.at = "validate" /\ Sound(e) /\ Shaped(e)
    BY DEF Validate, ExchangeInv, Sound
<1>2. e.service # Nobody /\ e.wrapped /\ ~e.checked /\ GuardPassed(e) /\ e.definition > 0
      /\ ~e.ran /\ e.raised = ""
    BY <1>1 DEF ExchangeInv, Sound, Found, Allowed, Shared, WithService, Finished, Unanswered
<1>3. exchange' = IF b.errors # {} THEN Invalid(b, 400, "tween") ELSE At(b, "view")
    BY DEF Validate
<1>4. Validated(e, b)
    BY <1>1, <1>2, Validators
<1> HIDE DEF b, e
<1>5. SameRequest(e, b) /\ b.at = e.at /\ b.raised = e.raised /\ Shaped(b)
    BY <1>4 DEF Validated, SameRequest
<1>6. Sound(b)
    <2>1. e.at \in Unanswered
        BY <1>1 DEF Unanswered
    <2> QED BY <1>1, <1>5, <2>1, StillSound
<1>7. /\ b.wrapped = e.wrapped /\ b.service = e.service /\ b.definition = e.definition
      /\ b.request = e.request /\ b.ran = e.ran
    BY <1>5, SameParts
<1>8. CASE b.errors # {}
    <2> DEFINE r == Reply(400)
    <2>1. Plainly(b, r) /\ Informs(b, r)
        BY Codes
    <2>2. exchange' = ReapplyCors(Answer(b, r, "tween"))
        BY <1>3, <1>8 DEF Invalid
    <2> HIDE DEF r
    <2>3. b.wrapped
        BY <1>2, <1>7
    <2> QED BY <1>6, <2>1, <2>2, <2>3, ReplyShown
<1>9. CASE b.errors = {}
    <2> DEFINE a == At(b, "view")
    <2>1. /\ SameRequest(b, a) /\ a.at = "view" /\ a.response = b.response /\ a.raised = b.raised
        BY <1>5, Moving
    <2>2. exchange' = a
        BY <1>3, <1>9
    <2> HIDE DEF a
    <2>3. /\ Shaped(a) /\ a.request = b.request /\ a.why = b.why /\ a.visited = b.visited
          /\ a.service = b.service /\ a.definition = b.definition /\ a.wrapped = b.wrapped
          /\ a.ran = b.ran /\ a.heard = b.heard
        BY <2>1, SameParts
    <2>4. Of(a, a.request.method) = Of(b, b.request.method)
        BY <2>1, SameViewsOf
    <2>5. Promised(a) /\ Redirected(a)
        BY <1>6, <2>1, StillTold DEF Sound
    <2>6. Found(a)
        <3>1. a.at \in Stages /\ a.at \notin {"received", "new"} /\ a.service # Nobody /\ a.definition > 0
            BY <1>2, <1>7, <2>1, <2>3 DEF Stages
        <3>2. Found(b)
            BY <1>6 DEF Sound
        <3>3. a.request = b.request /\ a.service = b.service /\ a.definition = b.definition /\ a.raised = b.raised
            BY <2>1, <2>3
        <3> QED BY <2>4, <3>1, <3>2, <3>3 DEF Found
    <2>7. OriginPassed(a) /\ GuardPassed(a)
        <3>1. OriginPassed(b)
            BY <1>4, <1>9 DEF Validated
        <3>2. GuardPassed(b)
            BY <1>2, <1>7 DEF GuardPassed
        <3> QED BY <3>1, <3>2, <2>3 DEF OriginPassed, GuardPassed
    <2>8. a.wrapped /\ ~a.ran /\ a.raised = ""
        BY <1>2, <1>5, <1>7, <2>1, <2>3
    <2>9. Allowed(a)
        BY <2>1, <2>7, <2>8 DEF Allowed
    <2>10. RaisedWell(a)
        BY <2>1, <2>8 DEF RaisedWell
    <2>11. Warning(a)
        <3>1. a.at # "callbacks" /\ a.at \notin Finished
            BY <2>1 DEF Finished
        <3>2. b.response.alert = "" /\ b.response.status # 410
            BY <1>4 DEF Validated
        <3>3. a.response = b.response
            BY <2>1
        <3>4. a.response.alert = "" /\ a.response.status # 410
            BY <3>2, <3>3
        <3> QED BY <3>1, <3>4 DEF Warning
    <2>12. Shared(a)
        <3>1. Unread(b) /\ Readable(b) /\ ~b.response.retry
            BY <1>4 DEF Validated
        <3>2. Unread(a) /\ Readable(a) /\ ~a.response.retry
            BY <2>1, <2>3, <3>1 DEF Unread, Readable
        <3>3. a.at \notin Unanswered \ {"view"} /\ a.at \notin {"tween", "callbacks"}
            BY <2>1 DEF Unanswered
        <3> QED BY <3>2, <3>3 DEF Shared
    <2>13. Informs(a, a.response)
        <3>1. b.response.status # 405 /\ b.response.methods = {} /\ b.response.location = Nobody
            BY <1>4 DEF Validated
        <3>2. a.response = b.response
            BY <2>1
        <3> QED BY <3>1, <3>2 DEF Informs
    <2>14. ExchangeInv(a)
        BY <2>3, <2>5, <2>6, <2>9, <2>10, <2>11, <2>12, <2>13 DEF ExchangeInv, Sound
    <2> QED BY <2>2, <2>14
<1> QED BY <1>8, <1>9

LEMMA PreflightViewStep ==
    ASSUME ExchangeInv(exchange), PreflightView
    PROVE  ExchangeInv(exchange')
<1> DEFINE e == exchange
           known == DefinedMethods(Definitions(e))
           h == [e EXCEPT !.errors = {"header"}]
           m == [At(e, "tween") EXCEPT !.response.methods = known]
<1>1. e.at = "view" /\ Sound(e) /\ Shaped(e)
    BY DEF PreflightView, ExchangeInv, Sound
<1>2. e.wrapped /\ e.service # Nobody
    BY <1>1 DEF Sound, Found, Allowed, WithService, Finished
<1>3. exchange' = Invalid(h, 400, "tween") \/ exchange' = m
    BY DEF PreflightView
<1>4. ExchangeInv(e)
    OBVIOUS
<1> HIDE DEF e, known
<1>5. CASE exchange' = Invalid(h, 400, "tween")
    <2> DEFINE r == Reply(400)
    <2>1. SameRequest(e, h) /\ h.at = e.at /\ h.raised = e.raised
        BY <1>1 DEF SameRequest, Shaped, ExchangeFields
    <2>2. Plainly(h, r) /\ Informs(h, r)
        BY Codes
    <2>3. exchange' = ReapplyCors(Answer(h, r, "tween"))
        BY <1>5 DEF Invalid
    <2> HIDE DEF r, h
    <2>4. e.at \in Unanswered
        BY <1>1 DEF Unanswered
    <2>5. Sound(h)
        BY <1>1, <2>1, <2>4, StillSound
    <2>6. h.wrapped = e.wrapped
        BY <2>1, SameParts
    <2>7. h.wrapped
        BY <1>2, <2>6
    <2> QED BY <2>2, <2>3, <2>5, <2>7, ReplyShown
<1>6. CASE exchange' = m
    <2> DEFINE t == At(e, "tween")
    <2>1. SameRequest(e, t) /\ t.at = "tween" /\ t.response = e.response /\ t.raised = e.raised
        BY <1>1, Moving
    <2> HIDE DEF t
    <2>2. Shaped(t)
        BY <2>1, SameParts
    <2>3. /\ SameRequest(t, m) /\ m.at = t.at /\ m.raised = t.raised
          /\ m.response.status = t.response.status /\ m.response.alert = t.response.alert
          /\ m.response.retry = t.response.retry /\ m.response.exposes = t.response.exposes
          /\ m.response.origin = t.response.origin /\ m.response.location = t.response.location
          /\ m.response.methods = known
        <3>1. m = [t EXCEPT !.response.methods = known]
            BY DEF t
        <3> HIDE DEF m
        <3> QED BY <2>2, <3>1 DEF SameRequest, Shaped, ExchangeFields, ResponseFields
    <2> HIDE DEF m
    <2>4. SameRequest(e, m)
        BY <2>1, <2>3 DEF SameRequest
    <2>5. m.request = e.request /\ m.service = e.service
        BY <2>4, SameParts
    <2>6. Shown(e, m)
        <3>1. Readable(e) /\ Unread(e) /\ (e.response.retry => e.response.exposes)
            BY <1>1, <1>4 DEF ExchangeInv, Shared
        <3>2. Readable(m) /\ Unread(m) /\ (m.response.retry => m.response.exposes)
            BY <2>1, <2>3, <2>5, <3>1 DEF Readable, Unread
        <3>3. e.response.alert = "" /\ e.response.status # 410
            BY <1>1, <1>4 DEF ExchangeInv, Warning, Finished
        <3>4. m.response.alert = e.response.alert /\ m.response.status = e.response.status
              /\ m.at = "tween" /\ m.raised = e.raised
            BY <2>1, <2>3
        <3>5. m.response.alert = ""
            BY <3>3, <3>4
        <3>6. m.response.status # 410
            BY <3>3, <3>4
        <3> QED BY <1>2, <2>4, <3>2, <3>4, <3>5, <3>6 DEF Shown
    <2>7. Informs(e, m.response)
        <3>1. Informs(e, e.response)
            BY <1>4 DEF ExchangeInv
        <3>2. m.response.status = e.response.status /\ m.response.location = e.response.location
              /\ m.response.methods = known
            BY <2>1, <2>3
        <3> QED BY <1>2, <3>1, <3>2 DEF Informs, known
    <2> QED BY <1>1, <1>6, <2>6, <2>7, Showing
<1> QED BY <1>3, <1>5, <1>6

(***************************************************************************)
(* The views                                                               *)
(***************************************************************************)

\* What is known when a view runs.
AtView(e) ==
    /\ Sound(e) /\ Shaped(e) /\ e.wrapped /\ e.service # Nobody /\ e.definition \in Nat /\ e.definition > 0
    /\ e.raised = "" /\ e.request.method # "OPTIONS" /\ OriginPassed(e) /\ GuardPassed(e)

LEMMA ViewIsRight ==
    ASSUME NEW e, ExchangeInv(e), e.at = "view", View(e).method # "OPTIONS"
    PROVE  AtView(e)
<1>1. Sound(e) /\ Shaped(e) /\ Found(e) /\ Allowed(e)
    BY DEF ExchangeInv, Sound
<1>2. e.service # Nobody /\ e.definition \in Nat /\ e.definition > 0 /\ e.definition \in Of(e, e.request.method)
    BY <1>1 DEF Found, WithService
<1>3. View(e).method = e.request.method
    BY <1>2 DEF View, Of
<1>4. e.wrapped /\ e.raised = "" /\ OriginPassed(e) /\ GuardPassed(e)
    BY <1>1 DEF Allowed, WithService, Unanswered, Finished
<1>5. e.request.method # "OPTIONS"
    BY <1>3
<1> QED BY <1>1, <1>2, <1>4, <1>5 DEF AtView

\* a is e after its view ran, or raised.
RanFrom(e, a) ==
    /\ Shaped(a) /\ a.request = e.request /\ a.why = e.why /\ a.visited = e.visited
    /\ a.service = e.service /\ a.definition = e.definition /\ a.wrapped = e.wrapped /\ a.ran

LEMMA RanIsSound ==
    ASSUME NEW e, NEW a, AtView(e), RanFrom(e, a), a.at \in {"tween", "except"}, a.raised \in {"", "bug"},
           a.raised = "" => a.heard = Heard(e) /\ a.at = "tween"
    PROVE  Sound(a)
<1>1. /\ Shaped(a) /\ a.request = e.request /\ a.why = e.why /\ a.visited = e.visited
      /\ a.service = e.service /\ a.definition = e.definition /\ a.wrapped = e.wrapped /\ a.ran
    BY DEF RanFrom
<1>2. Definitions(a) = Definitions(e)
    BY <1>1 DEF Definitions
<1>3. Of(a, a.request.method) = Of(e, e.request.method)
    BY <1>1, <1>2 DEF Of
<1>4. View(a) = View(e)
    BY <1>1, <1>2 DEF View
<1>5. Heard(a) = Heard(e)
    BY <1>1, <1>4 DEF Heard
<1>6. Found(a)
    <2>1. Found(e) /\ e.service # Nobody /\ e.definition > 0
        BY DEF AtView, Sound
    <2>2. a.at \in Stages /\ a.raised \in Exceptions /\ a.at \notin {"received", "new"}
        BY DEF Stages, Exceptions
    <2> QED BY <1>1, <1>3, <2>1, <2>2 DEF Found
<1>7. Allowed(a)
    <2>1. OriginPassed(a) /\ GuardPassed(a)
        BY <1>1 DEF AtView, OriginPassed, GuardPassed
    <2>2. a.wrapped /\ a.definition > 0 /\ a.request.method # "OPTIONS"
        BY <1>1 DEF AtView
    <2>3. a.at \notin Unanswered /\ a.at \notin WithService /\ a.at # "route" /\ a.at # "view" /\ a.at # "received"
        BY DEF Unanswered, WithService
    <2> QED BY <1>1, <1>5, <2>1, <2>2, <2>3 DEF Allowed
<1>8. RaisedWell(a)
    BY DEF RaisedWell
<1>9. Promised(a) /\ Redirected(a)
    BY <1>1 DEF AtView, Sound, Promised, Redirected
<1> QED BY <1>1, <1>6, <1>7, <1>8, <1>9 DEF Sound

LEMMA CallViewStep ==
    ASSUME ExchangeInv(exchange), CallView
    PROVE  ExchangeInv(exchange')
<1> DEFINE e == exchange
           a == [At(Ran(e), "tween") EXCEPT !.heard = Heard(e)]
<1>1. AtView(e) /\ e.at = "view"
    BY ViewIsRight DEF CallView
<1>2. exchange' = a
    BY DEF CallView
<1>3. ExchangeInv(e) /\ Shaped(e)
    BY DEF ExchangeInv, Sound
<1> HIDE DEF e
<1>4. RanFrom(e, a) /\ a.at = "tween" /\ a.raised = e.raised /\ a.heard = Heard(e)
      /\ a.response = e.response /\ a.checked = e.checked
    BY <1>3 DEF Shaped, ExchangeFields, RanFrom, Ran, At
<1> HIDE DEF a
<1>5. Sound(a)
    <2>1. a.raised = "" /\ a.at \in {"tween", "except"} /\ a.raised \in {"", "bug"}
        BY <1>1, <1>4 DEF AtView
    <2> QED BY <1>1, <1>4, <2>1, RanIsSound
<1>6. a.request = e.request /\ a.service = e.service
    BY <1>4 DEF RanFrom
<1>7. Warning(a)
    <2>1. a.at # "callbacks" /\ a.at \notin Finished
        BY <1>4 DEF Finished
    <2>2. e.response.alert = "" /\ e.response.status # 410
        BY <1>1, <1>3 DEF ExchangeInv, Warning, Finished
    <2>3. a.response = e.response
        BY <1>4
    <2>4. a.response.alert = "" /\ a.response.status # 410
        BY <2>2, <2>3
    <2> QED BY <2>1, <2>4 DEF Warning
<1>8. Shared(a)
    <2>1. Unread(e) /\ Readable(e) /\ (e.response.retry => e.response.exposes)
        BY <1>1, <1>3 DEF ExchangeInv, Shared
    <2>2. Unread(a) /\ Readable(a) /\ (a.response.retry => a.response.exposes)
        BY <1>4, <1>6, <2>1 DEF Unread, Readable
    <2>3. a.at \notin Unanswered
        BY <1>4 DEF Unanswered
    <2> QED BY <2>2, <2>3 DEF Shared
<1>9. Informs(a, a.response)
    <2>1. Informs(e, e.response)
        BY <1>3 DEF ExchangeInv
    <2>2. Definitions(a) = Definitions(e)
        BY <1>6 DEF Definitions
    <2>3. Of(a, a.request.method) = Of(e, e.request.method)
        BY <1>6, <2>2 DEF Of
    <2>4. a.response = e.response
        BY <1>4
    <2> QED BY <1>6, <2>1, <2>2, <2>3, <2>4 DEF Informs
<1>10. ExchangeInv(a)
    BY <1>5, <1>7, <1>8, <1>9 DEF ExchangeInv
<1> QED BY <1>2, <1>10

LEMMA RaisedAgain ==
    ASSUME NEW e, Shaped(e), NEW kind, NEW r, NEW other, NEW reply
    PROVE  Raise(Raise(e, other, reply), kind, r) = Raise(e, kind, r)
BY DEF Shaped, ExchangeFields, Raise

\* The views of the root need no permission.
LEMMA RootIsOpen ==
    ASSUME StartupInv, progress = "serving", NEW e, Sound(e), e.request.path = Root, e.service # Nobody,
           e.definition > 0
    PROVE  View(e).permission = "none"
<1>1. ServiceOf(Root) = "hello"
    BY RootIsHello
<1>2. e.service = "hello" /\ e.definition \in Of(e, e.request.method)
    BY <1>1 DEF Sound, Found
<1>3. registry.services["hello"] \in Seq(OpenDef)
    BY DEF StartupInv, Registered, ServicesOf, Serving
<1>4. Definitions(e) \in Seq(OpenDef)
    BY <1>2, <1>3 DEF Definitions
<1>5. e.definition \in DOMAIN Definitions(e)
    BY <1>2 DEF Of
<1>6. View(e) \in OpenDef
    BY <1>4, <1>5 DEF View
<1> QED BY <1>6 DEF OpenDef

ByViews == Exceptions \ {"", "NotFound", "MethodNotAllowed"}

LEMMA ViewRaisesStep ==
    ASSUME StartupInv, progress = "serving", ExchangeInv(exchange), ViewRaises
    PROVE  ExchangeInv(exchange')
<1> DEFINE e == exchange
           n == [Ran(e) EXCEPT !.checked = FALSE]
           b == Raise(n, "bug", NoResponse)
<1>1. AtView(e) /\ e.at = "view"
    BY ViewIsRight DEF ViewRaises
<1>2. Shaped(e)
    BY DEF ExchangeInv, Sound
<1>3. \/ View(n).permission = "dynamic" /\ exchange' = Raise(n, "NotFound", Reply(404))
      \/ exchange' = Raise(n, "HTTP", Reply(412))
      \/ exchange' = Raise(n, "Forbidden", Page(403))
      \/ exchange' = Raise(n, "Unavailable", Page(503))
      \/ \E kind \in {"IntegrityError", "BackendError", "bug"} : exchange' = Raise(n, kind, NoResponse)
    BY DEF ViewRaises
<1> HIDE DEF e
<1>4. RanFrom(e, n) /\ ~n.checked
    BY <1>2 DEF Shaped, ExchangeFields, RanFrom, Ran
<1> HIDE DEF n
<1>5. Shaped(n)
    BY <1>4 DEF RanFrom
<1>6. SameRequest(n, b) /\ b.at = "except" /\ b.raised = "bug" /\ b.checked = n.checked
    <2>1. DOMAIN NoResponse = ResponseFields
        BY Replies DEF Bland
    <2> QED BY <1>5, <2>1, Raising
<1>7. \A kind, r : Raise(n, kind, r) = Raise(b, kind, r)
    BY <1>5, RaisedAgain
<1> HIDE DEF b
<1>8. RanFrom(e, b)
    BY <1>4, <1>6 DEF RanFrom, SameRequest
<1>9. Sound(b)
    <2>1. b.raised # "" /\ b.raised \in {"", "bug"} /\ b.at \in {"tween", "except"}
        BY <1>6
    <2> QED BY <1>1, <1>8, <2>1, RanIsSound
<1>10. b.wrapped /\ b.service # Nobody /\ b.ran /\ ~b.checked /\ b.request = e.request
    BY <1>1, <1>4, <1>6, <1>8 DEF AtView, RanFrom
<1>11. ASSUME NEW kind \in ByViews, NEW r, Quiet(r), Informs(b, r)
       PROVE  ExchangeInv(Raise(b, kind, r))
    <2>1. Reason(b, kind, r)
        BY <1>10, <1>11 DEF Reason, ByViews
    <2> QED BY <1>9, <1>10, <1>11, <2>1, Excepting
<1>12. /\ Quiet(Reply(404)) /\ Informs(b, Reply(404)) /\ Quiet(Reply(412)) /\ Informs(b, Reply(412))
       /\ Quiet(Page(403)) /\ Informs(b, Page(403)) /\ Quiet(Page(503)) /\ Informs(b, Page(503))
    BY Codes
<1>13. Quiet(NoResponse) /\ Informs(b, NoResponse)
    <2>1. Bland(NoResponse) /\ NoResponse.status # 405 /\ NoResponse.status # 410
        BY Replies
    <2> QED BY <2>1, BlandQuiet, BlandInforms
<1>14. ASSUME View(n).permission = "dynamic"
       PROVE  ExchangeInv(Raise(b, "NotFound", Reply(404)))
    <2> DEFINE kind == "NotFound"
    <2>1. View(n) = View(b)
        BY <1>6, SameViews
    <2>2. b.definition > 0
        BY <1>1, <1>8 DEF AtView, RanFrom
    <2>3. b.request.path # Root
        BY <1>9, <1>10, <1>14, <2>1, <2>2, RootIsOpen
    <2>4. Reason(b, kind, Reply(404))
        BY <2>3 DEF Reason, Exceptions
    <2> HIDE DEF kind
    <2>5. ExchangeInv(Raise(b, kind, Reply(404)))
        BY <1>9, <1>10, <1>12, <2>4, Excepting
    <2> QED BY <2>5 DEF kind
<1>15. /\ ExchangeInv(Raise(b, "HTTP", Reply(412)))
       /\ ExchangeInv(Raise(b, "Forbidden", Page(403)))
       /\ ExchangeInv(Raise(b, "Unavailable", Page(503)))
       /\ \A kind \in {"IntegrityError", "BackendError", "bug"} : ExchangeInv(Raise(b, kind, NoResponse))
    <2>1. "HTTP" \in ByViews /\ "Forbidden" \in ByViews /\ "Unavailable" \in ByViews
          /\ {"IntegrityError", "BackendError", "bug"} \subseteq ByViews
        BY DEF ByViews, Exceptions
    <2>2. ExchangeInv(Raise(b, "HTTP", Reply(412)))
        BY <1>11, <1>12, <2>1
    <2>3. ExchangeInv(Raise(b, "Forbidden", Page(403)))
        BY <1>11, <1>12, <2>1
    <2>4. ExchangeInv(Raise(b, "Unavailable", Page(503)))
        BY <1>11, <1>12, <2>1
    <2>5. \A kind \in {"IntegrityError", "BackendError", "bug"} : ExchangeInv(Raise(b, kind, NoResponse))
        BY <1>11, <1>13, <2>1
    <2> QED BY <2>2, <2>3, <2>4, <2>5
<1> QED BY <1>3, <1>7, <1>14, <1>15

(***************************************************************************)
(* The views of errors                                                     *)
(***************************************************************************)

\* A redirection without slashes at the end, or to the root.
LEMMA SlashesEnd ==
    ASSUME NEW path, IsPath(path), path # Root, SlashRedirection(path) # Nobody
    PROVE  IsPath(SlashRedirection(path)) /\ Rank(SlashRedirection(path)) < Rank(path)
<1> DEFINE on == Enabled(Setting("trailing_slash_redirect_enabled"))
           shorter == [path EXCEPT !.slashes = 0]
           longer == [path EXCEPT !.slashes = 1]
<1>1. \/ path.version \in {"v1", "v10"} /\ path.slashes > 0 /\ SlashRedirection(path) = shorter
      \/ path = Bare /\ SlashRedirection(path) = longer
    <2> DEFINE off == ~on \/ ~StartsWithVersion(path)
    <2>1. SlashRedirection(path) = IF off THEN Nobody ELSE IF path.slashes > 0 THEN shorter
                                   ELSE IF path = Bare THEN longer ELSE Nobody
        BY DEF SlashRedirection, Bare
    <2>2. ~off => path.version \in {"v1", "v10"}
        BY DEF StartsWithVersion, Version
    <2> HIDE DEF off, shorter, longer
    <2>3. ~off
        BY <2>1
    <2>4. CASE path.slashes > 0
        <3>1. SlashRedirection(path) = shorter
            BY <2>1, <2>3, <2>4
        <3> QED BY <2>2, <2>3, <2>4, <3>1
    <2>5. CASE ~(path.slashes > 0)
        <3>1. SlashRedirection(path) = IF path = Bare THEN longer ELSE Nobody
            BY <2>1, <2>3, <2>5
        <3>2. path = Bare
            BY <3>1
        <3> QED BY <3>1, <3>2
    <2> QED BY <2>4, <2>5
<1>2. CASE path.version \in {"v1", "v10"} /\ path.slashes > 0 /\ SlashRedirection(path) = shorter
    <2>1. IsPath(shorter) /\ shorter.version = path.version /\ shorter.slashes = 0
        BY DEF IsPath
    <2> HIDE DEF shorter
    <2>2. Rank(path) = 2
        BY <1>2 DEF Rank
    <2>3. ~(shorter.slashes > 0)
        BY <2>1
    <2>4. path.version # ""
        BY <1>2
    <2>5. shorter.version # ""
        BY <2>1, <2>4
    <2>6. Rank(shorter) \in {0, 1}
        BY <2>3, <2>5 DEF Rank
    <2> QED BY <1>2, <2>1, <2>2, <2>6
<1>3. CASE path = Bare /\ SlashRedirection(path) = longer
    <2>1. longer = Root
        BY <1>3 DEF Bare, Root
    <2>2. IsPath(Root)
        BY DEF IsPath, Root
    <2>3. Root.version # "" /\ Bare.version # "" /\ Root # Bare /\ ~(Bare.slashes > 0)
        <3>1. Root.version = "v1" /\ Bare.version = "v1" /\ Root.slashes = 1 /\ Bare.slashes = 0
            BY DEF Root, Bare, Version
        <3> QED BY <3>1
    <2>4. Rank(Root) = 0
        BY <2>3 DEF Rank
    <2>5. Rank(Bare) = 1
        BY <2>3 DEF Rank
    <2>6. SlashRedirection(path) = Root
        BY <1>3, <2>1
    <2> QED BY <1>3, <2>2, <2>4, <2>5, <2>6
<1> QED BY <1>1, <1>2, <1>3

\* An answer to retry, from a view.
LEMMA RetryShown ==
    ASSUME NEW e, Sound(e), e.wrapped, e.ran, NEW code \in {409, 503}
    PROVE  ExchangeInv(ReapplyCors(Answer(e, Again(code), "tween")))
<1> DEFINE p == Reply(code)
           r == [p EXCEPT !.retry = TRUE]
<1>1. Bland(p) /\ Informs(e, p) /\ Quiet(p)
    BY Codes
<1> HIDE DEF p
<1>2. p.status # 410
    BY <1>1 DEF Quiet
<1>3. DOMAIN r = ResponseFields /\ r.status = p.status /\ r.methods = p.methods /\ r.location = p.location
    BY <1>1 DEF Bland, ResponseFields
<1>4. r.origin = "" /\ r.alert = ""
    BY <1>1 DEF Bland, ResponseFields
<1> HIDE DEF r
<1>5. r.status # 410
    BY <1>2, <1>3
<1>6. Plainly(e, r)
    BY <1>3, <1>5, <1>4 DEF Plainly
<1>7. Informs(e, r)
    BY <1>1, <1>3 DEF Informs
<1>8. ExchangeInv(ReapplyCors(Answer(e, r, "tween")))
    BY <1>6, <1>7, ReplyShown
<1> QED BY <1>8 DEF r, p, Again

\* The response that an exception came with.
Kept(e, x) ==
    /\ SameRequest(e, x) /\ x.raised = e.raised /\ Unread(x)
    /\ x.response.alert = "" /\ x.response.status # 410 /\ (x.response.retry => x.response.exposes)

LEMMA KeptShown ==
    ASSUME NEW e, Sound(e), e.wrapped, NEW x, Kept(e, x), Informs(e, x.response)
    PROVE  ExchangeInv(ReapplyCors(At(x, "tween")))
<1> DEFINE a == ReapplyCors(At(x, "tween"))
<1>1. Shaped(x) /\ Unread(x) /\ SameRequest(e, x) /\ x.raised = e.raised
    BY DEF Kept, SameRequest
<1>2. /\ SameRequest(x, a) /\ a.at = "tween" /\ a.raised = x.raised /\ Readable(a) /\ Unread(a)
      /\ x.response.exposes => a.response.exposes
      /\ a.response.status = x.response.status
      /\ a.response.retry = x.response.retry /\ a.response.alert = x.response.alert
      /\ a.response.methods = x.response.methods /\ a.response.location = x.response.location
    BY <1>1, RecastAt
<1> HIDE DEF a
<1>3. SameRequest(e, a)
    BY <1>1, <1>2 DEF SameRequest
<1>4. Shown(e, a)
    <2>1. x.response.alert = "" /\ x.response.status # 410 /\ (x.response.retry => x.response.exposes)
        BY DEF Kept
    <2>2. a.response.alert = ""
        BY <1>2, <2>1
    <2>3. a.response.status # 410
        BY <1>2, <2>1
    <2>4. a.response.retry => a.response.exposes
        BY <1>2, <2>1
    <2>5. a.at = "tween" /\ a.raised = e.raised /\ Readable(a) /\ Unread(a)
        BY <1>1, <1>2
    <2> QED BY <1>3, <2>2, <2>3, <2>4, <2>5 DEF Shown
<1>5. Informs(e, a.response)
    BY <1>2 DEF Informs
<1>6. ExchangeInv(a)
    BY <1>4, <1>5, Showing
<1> QED BY <1>6 DEF a

LEMMA CodesShown ==
    ASSUME NEW e, Sound(e), e.wrapped, NEW code \in {403, 404, 500}
    PROVE  ExchangeInv(ReapplyCors(Answer(e, Reply(code), "tween")))
<1>1. Plainly(e, Reply(code)) /\ Informs(e, Reply(code))
    BY Codes
<1> QED BY <1>1, ReplyShown

LEMMA ExceptionViewStep ==
    ASSUME ExchangeInv(exchange), ExceptionView
    PROVE  ExchangeInv(exchange')
<1> DEFINE e == exchange
<1>1. e.at = "except" /\ ExchangeInv(e) /\ Sound(e) /\ Shaped(e)
    BY DEF ExceptionView, ExchangeInv, Sound
<1>2. e.wrapped /\ e.raised \in Exceptions /\ e.raised # ""
    BY <1>1 DEF Sound, Allowed, Found, RaisedWell, Finished
<1>3. Unread(e) /\ Informs(e, e.response)
    BY <1>1 DEF ExchangeInv, Shared
<1>4. /\ e.response.alert = "" /\ e.response.status # 410
      /\ e.response.retry => e.response.exposes
    BY <1>1 DEF ExchangeInv, Shared, Warning, Finished
<1>5. Sound(e) /\ e.wrapped /\ Shaped(e)
    BY <1>1, <1>2
<1>6. \A code \in {403, 404, 500} : ExchangeInv(ReapplyCors(Answer(e, Reply(code), "tween")))
    BY <1>5, CodesShown
<1>7. e.ran => \A code \in {409, 503} : ExchangeInv(ReapplyCors(Answer(e, Again(code), "tween")))
    BY <1>5, RetryShown
<1>8. exchange' = CASE e.raised = "NotFound" -> PageNotFound(e)
                    [] e.raised = "Forbidden" -> AuthorizationRequired(e)
                    [] e.raised = "Unavailable" -> ServiceUnavailable(e)
                    [] e.raised = "MethodNotAllowed" -> MethodNotAllowed(e)
                    [] OTHER -> Error(e)
    BY DEF ExceptionView
<1> HIDE DEF e
<1>9. CASE e.raised = "NotFound"
    <2> DEFINE target == SlashRedirection(e.request.path)
               r == Located(target)
    <2>1. exchange' = PageNotFound(e)
        BY <1>8, <1>9
    <2>2. e.request.path # Root /\ IsPath(e.request.path)
        BY <1>1, <1>9 DEF Sound, RaisedWell, Found, IsRequest
    <2>3. CASE target = Nobody
        <3>1. exchange' = ReapplyCors(Answer(e, Reply(404), "tween"))
            BY <2>1, <2>3 DEF PageNotFound
        <3> QED BY <1>6, <3>1
    <2>4. CASE target # Nobody
        <3>1. exchange' = ReapplyCors(Answer(e, r, "tween"))
            BY <2>1, <2>4 DEF PageNotFound
        <3>2. Plainly(e, r) /\ r.status # 405 /\ r.methods = {} /\ r.location = target
            BY LocatedIs
        <3>3. IsPath(target) /\ Rank(target) < Rank(e.request.path)
            BY <2>2, <2>4, SlashesEnd
        <3> HIDE DEF r, target
        <3>4. Informs(e, r)
            BY <3>2, <3>3 DEF Informs
        <3> QED BY <1>5, <3>1, <3>2, <3>4, ReplyShown
    <2> QED BY <2>3, <2>4
<1>10. CASE e.raised = "Forbidden"
    <2>1. exchange' = AuthorizationRequired(e)
        BY <1>8, <1>10
    <2>2. e.service # Nobody /\ ~e.checked
        BY <1>1, <1>10 DEF Sound, RaisedWell
    <2>3. CASE e.request.user = "anonymous"
        <3> DEFINE r == Reply(401)
                   a == Answer(e, r, "tween")
        <3>1. exchange' = a
            BY <2>1, <2>3 DEF AuthorizationRequired
        <3>2. Quiet(r) /\ Informs(e, r)
            BY Codes
        <3> HIDE DEF r
        <3>3. DOMAIN r = ResponseFields
            BY <3>2 DEF Quiet
        <3>4. SameRequest(e, a) /\ a.at = "tween" /\ a.response = r /\ a.raised = e.raised /\ a.checked = e.checked
            BY <1>1, <3>3, Answering
        <3> HIDE DEF a
        <3>5. a.service = e.service
            BY <3>4, SameParts
        <3>6. Unread(a) /\ a.response.alert = "" /\ a.response.status # 410 /\ ~a.response.retry
            BY <3>2, <3>4 DEF Quiet, Unread
        <3>7. a.service # Nobody /\ ~a.checked /\ a.at = "tween" /\ a.raised = e.raised
            BY <2>2, <3>4, <3>5
        <3>8. Shown(e, a)
            BY <1>2, <3>4, <3>6, <3>7 DEF Shown
        <3> QED BY <1>5, <3>1, <3>2, <3>4, <3>8, Showing
    <2>4. CASE e.request.user # "anonymous"
        <3>1. exchange' = ReapplyCors(Answer(e, Reply(403), "tween"))
            BY <2>1, <2>4 DEF AuthorizationRequired
        <3> QED BY <1>6, <3>1
    <2> QED BY <2>3, <2>4
<1>11. CASE e.raised \in {"Unavailable", "BackendError"}
    <2>1. exchange' = ReapplyCors(Answer(e, Again(503), "tween"))
        BY <1>8, <1>11 DEF Error, ServiceUnavailable
    <2>2. e.ran
        BY <1>1, <1>11 DEF Sound, RaisedWell
    <2>3. ExchangeInv(ReapplyCors(Answer(e, Again(503), "tween")))
        BY <1>7, <2>2
    <2> QED BY <2>1, <2>3
<1>12. CASE e.raised = "IntegrityError"
    <2>1. exchange' = ReapplyCors(Answer(e, Again(409), "tween"))
        BY <1>8, <1>12 DEF Error
    <2>2. e.ran
        BY <1>1, <1>12 DEF Sound, RaisedWell
    <2>3. ExchangeInv(ReapplyCors(Answer(e, Again(409), "tween")))
        BY <1>7, <2>2
    <2> QED BY <2>1, <2>3
<1>13. CASE e.raised = "MethodNotAllowed"
    <2> DEFINE q == e.response
               r == [q EXCEPT !.json = TRUE]
               x == [e EXCEPT !.response = r]
    <2>1. exchange' = MethodNotAllowed(e)
        BY <1>8, <1>13
    <2>2. ~e.response.json
        BY <1>1, <1>13 DEF Sound, RaisedWell
    <2>3. exchange' = ReapplyCors(Answer(e, r, "tween"))
        BY <2>1, <2>2 DEF MethodNotAllowed
    <2>4. Answer(e, r, "tween") = At(x, "tween")
        BY <1>1 DEF Shaped, ExchangeFields, Answer, At
    <2>5. DOMAIN q = ResponseFields
        BY <1>1 DEF Shaped
    <2> HIDE DEF q
    <2>6. /\ DOMAIN r = ResponseFields /\ r.status = q.status /\ r.alert = q.alert /\ r.retry = q.retry
          /\ r.exposes = q.exposes /\ r.origin = q.origin /\ r.methods = q.methods /\ r.location = q.location
        BY <2>5 DEF ResponseFields
    <2> HIDE DEF r
    <2>7. SameRequest(e, x) /\ x.raised = e.raised /\ x.response = r
        BY <1>1, <2>6 DEF Shaped, ExchangeFields, SameRequest
    <2> HIDE DEF x
    <2>8. x.request = e.request
        BY <2>7, SameParts
    <2>9. Kept(e, x)
        <3>1. Unread(x)
            BY <1>3, <2>6, <2>7, <2>8 DEF Unread, q
        <3>2. q.alert = "" /\ q.status # 410 /\ (q.retry => q.exposes)
            BY <1>4 DEF q
        <3>3. x.response.alert = q.alert /\ x.response.status = q.status
              /\ x.response.retry = q.retry /\ x.response.exposes = q.exposes
            BY <2>6, <2>7
        <3>4. x.response.alert = ""
            BY <3>2, <3>3
        <3>5. x.response.status # 410
            BY <3>2, <3>3
        <3>6. x.response.retry => x.response.exposes
            BY <3>2, <3>3
        <3> QED BY <2>7, <3>1, <3>4, <3>5, <3>6 DEF Kept
    <2>10. Informs(e, x.response)
        BY <1>3, <2>6, <2>7 DEF Informs, q
    <2>11. ExchangeInv(ReapplyCors(At(x, "tween")))
        BY <1>5, <2>9, <2>10, KeptShown
    <2> QED BY <2>3, <2>4, <2>11
<1>14. CASE e.raised = "HTTP"
    <2>1. exchange' = ReapplyCors(At(e, "tween"))
        BY <1>8, <1>14 DEF Error
    <2>2. SameRequest(e, e)
        BY <1>1 DEF SameRequest
    <2>3. Kept(e, e)
        BY <1>3, <1>4, <2>2 DEF Kept
    <2> QED BY <1>3, <1>5, <2>1, <2>3, KeptShown
<1>15. CASE e.raised = "bug"
    <2>1. exchange' = ReapplyCors(Answer(e, Reply(500), "tween"))
        BY <1>8, <1>15 DEF Error
    <2> QED BY <1>6, <2>1
<1> QED BY <1>2, <1>9, <1>10, <1>11, <1>12, <1>13, <1>14, <1>15 DEF Exceptions

(***************************************************************************)
(* The way back                                                            *)
(***************************************************************************)

\* The same response on its way back, but for what warns of the end of service.
Back(e, a) ==
    /\ SameRequest(e, a) /\ a.raised = e.raised
    /\ a.response.methods = e.response.methods /\ a.response.location = e.response.location
    /\ a.response.status = e.response.status
    /\ Unread(e) => Unread(a)
    /\ a.response.retry => a.response.exposes

LEMMA BackInforms ==
    ASSUME NEW e, NEW a, Informs(e, e.response), Back(e, a)
    PROVE  Informs(e, a.response)
BY DEF Informs, Back

LEMMA GoingBack ==
    ASSUME NEW e, NEW a, ExchangeInv(e), e.at \in {"tween", "callbacks", "answering"}, Back(e, a),
           a.at \in {"callbacks", "answering", "answered"}, e.wrapped \/ a.at \in Finished,
           Warning(a), Readable(a) \/ (a.at = "callbacks" /\ a.service # Nobody /\ ~a.checked)
    PROVE  ExchangeInv(a)
<1>1. Sound(e) /\ Informs(e, e.response) /\ Unread(e)
    BY DEF ExchangeInv, Shared
<1>2. SameRequest(e, a) /\ a.raised = e.raised /\ e.raised \in Exceptions
    BY <1>1 DEF Back, Sound, Found
<1>3. Later(e, a)
    BY <1>2 DEF Later
<1>4. a.at # "except" /\ a.request = e.request /\ a.ran = e.ran
    BY <1>2, SameParts
<1>5. RaisedWell(a)
    <2>1. /\ e.raised = "NotFound" => e.request.path # Root
          /\ e.raised \in {"Unavailable", "IntegrityError", "BackendError"} => e.ran
        BY <1>1 DEF Sound, RaisedWell
    <2>2. /\ a.raised = "NotFound" => a.request.path # Root
          /\ a.raised \in {"Unavailable", "IntegrityError", "BackendError"} => a.ran
        BY <1>2, <1>4, <2>1
    <2> QED BY <1>4, <2>2 DEF RaisedWell
<1>6. Unread(a) /\ (a.response.retry => a.response.exposes)
    BY <1>1 DEF Back
<1>7. Shared(a)
    BY <1>6 DEF Shared, Unanswered, Finished
<1>8. Informs(e, a.response)
    BY <1>1, BackInforms
<1> QED BY <1>1, <1>3, <1>5, <1>7, <1>8, LaterStages

LEMMA StillReadable ==
    ASSUME NEW e, NEW a, SameRequest(e, a), a.response.origin = e.response.origin
    PROVE  /\ Readable(e) => Readable(a)
           /\ Unread(e) => Unread(a)
BY DEF SameRequest, Readable, Unread

LEMMA MovingBack ==
    ASSUME NEW e, Shaped(e), e.response.retry => e.response.exposes, NEW stage
    PROVE  LET a == At(e, stage)
           IN  Back(e, a) /\ a.at = stage /\ a.response = e.response /\ (Readable(e) => Readable(a))
               /\ a.checked = e.checked
<1> DEFINE a == At(e, stage)
<1>1. SameRequest(e, a) /\ a.at = stage /\ a.response = e.response /\ a.raised = e.raised /\ a.checked = e.checked
    BY Moving
<1> HIDE DEF a
<1>2. (Unread(e) => Unread(a)) /\ (Readable(e) => Readable(a))
    BY <1>1, StillReadable
<1>3. Back(e, a)
    BY <1>1, <1>2 DEF Back
<1> QED BY <1>1, <1>2, <1>3 DEF a

LEMMA SoftEndOfServiceStep ==
    ASSUME ExchangeInv(exchange), SoftEndOfService
    PROVE  ExchangeInv(exchange')
<1> DEFINE e == exchange
<1>1. e.at = "tween" /\ ExchangeInv(e) /\ Shaped(e) /\ Sound(e)
    BY DEF SoftEndOfService, ExchangeInv, Sound
<1>2. /\ e.response.alert = "" /\ e.response.status # 410
      /\ e.response.retry => e.response.exposes
      /\ Unread(e) /\ (Readable(e) \/ (e.service # Nobody /\ ~e.checked))
    BY <1>1 DEF ExchangeInv, Shared, Warning, Finished
<1>3. e.response.retry => e.response.exposes
    BY <1>2
<1>4. e.wrapped
    BY <1>1 DEF Sound, Allowed, Finished
<1>5. exchange' = IF Dated THEN ReapplyCors(At([e EXCEPT !.response.alert = "soft-eol"], "callbacks"))
                  ELSE At(e, "callbacks")
    BY DEF SoftEndOfService
<1> HIDE DEF e
<1>6. CASE ~Dated
    <2> DEFINE a == At(e, "callbacks")
    <2>1. exchange' = a
        BY <1>5, <1>6
    <2>2. Back(e, a) /\ a.at = "callbacks" /\ a.response = e.response /\ (Readable(e) => Readable(a))
          /\ a.checked = e.checked
        BY <1>1, <1>3, MovingBack
    <2> HIDE DEF a
    <2>3. a.service = e.service
        BY <2>2, SameParts DEF Back
    <2>4. Readable(a) \/ (a.at = "callbacks" /\ a.service # Nobody /\ ~a.checked)
        BY <1>2, <2>2, <2>3
    <2>5. a.response.alert = ""
        BY <1>2, <2>2
    <2>6. a.response.status # 410
        BY <1>2, <2>2
    <2>7. Warning(a)
        BY <1>6, <2>2, <2>5, <2>6 DEF Warning, Finished
    <2>8. ExchangeInv(a)
        BY <1>1, <1>4, <2>2, <2>4, <2>7, GoingBack
    <2> QED BY <2>1, <2>8
<1>7. CASE Dated
    <2> DEFINE x == [e EXCEPT !.response.alert = "soft-eol"]
               a == ReapplyCors(At(x, "callbacks"))
    <2>1. exchange' = a
        BY <1>5, <1>7
    <2>2. /\ SameRequest(e, x) /\ x.raised = e.raised /\ x.response.status = e.response.status
          /\ x.response.origin = e.response.origin /\ x.response.exposes = e.response.exposes
          /\ x.response.retry = e.response.retry /\ x.response.methods = e.response.methods
          /\ x.response.location = e.response.location /\ x.response.alert = "soft-eol"
        BY <1>1 DEF Shaped, ExchangeFields, ResponseFields, SameRequest
    <2> HIDE DEF x
    <2>3. Shaped(x) /\ (Unread(e) => Unread(x))
        BY <2>2, StillReadable DEF SameRequest
    <2>4. /\ SameRequest(x, a) /\ a.at = "callbacks" /\ a.raised = x.raised /\ Readable(a)
          /\ Unread(x) => Unread(a)
          /\ x.response.exposes => a.response.exposes
          /\ a.response.status = x.response.status
          /\ a.response.retry = x.response.retry /\ a.response.alert = x.response.alert
          /\ a.response.methods = x.response.methods /\ a.response.location = x.response.location
        BY <2>3, RecastAt
    <2> HIDE DEF a
    <2>5. SameRequest(e, a)
        BY <2>2, <2>4 DEF SameRequest
    <2>6. a.response.retry => a.response.exposes
        BY <1>2, <2>2, <2>4
    <2>7. Back(e, a)
        BY <2>2, <2>3, <2>4, <2>5, <2>6 DEF Back
    <2>8. a.response.alert = "soft-eol"
        BY <2>2, <2>4
    <2>9. a.response.status # 410
        BY <1>2, <2>2, <2>4
    <2>10. Warning(a)
        BY <1>7, <2>4, <2>8, <2>9 DEF Warning, Finished
    <2>11. ExchangeInv(a)
        BY <1>1, <1>4, <2>4, <2>7, <2>10, GoingBack
    <2> QED BY <2>1, <2>11
<1> QED BY <1>6, <1>7

\* Without a service or without origins, a response that was not checked is
\* not one that an origin may read.
LEMMA NothingToShare ==
    ASSUME NEW e, Readable(e) \/ (e.service # Nobody /\ ~e.checked), e.service = Nobody \/ Origins = {}
    PROVE  Readable(e)
BY DEF Readable, Accepted

LEMMA ApplyFiltersStep ==
    ASSUME ExchangeInv(exchange), ApplyFilters
    PROVE  ExchangeInv(exchange')
<1> DEFINE e == exchange
           b == At(e, "answering")
<1>1. e.at = "callbacks" /\ ExchangeInv(e) /\ Shaped(e) /\ Sound(e)
    BY DEF ApplyFilters, ExchangeInv, Sound
<1>2. /\ e.response.retry => e.response.exposes
      /\ Unread(e) /\ (Readable(e) \/ (e.service # Nobody /\ ~e.checked))
    BY <1>1 DEF ExchangeInv, Shared
<1>3. /\ e.response.alert # "" <=> Dated
      /\ e.response.alert # "hard-eol"
      /\ e.response.status # 410
    BY <1>1 DEF ExchangeInv, Warning, Finished
<1>4. e.wrapped
    BY <1>1 DEF Sound, Allowed, Finished
<1>5. exchange' = IF e.wrapped /\ e.service # Nobody /\ Origins # {} THEN PostRequest(b) ELSE b
    BY DEF ApplyFilters
<1> HIDE DEF e
<1>6. /\ Back(e, b) /\ b.at = "answering" /\ b.response = e.response /\ (Readable(e) => Readable(b))
      /\ b.checked = e.checked
    BY <1>1, <1>2, MovingBack
<1>7. SameRequest(e, b) /\ b.raised = e.raised
    BY <1>6 DEF Back
<1>8. Shaped(b) /\ b.service = e.service
    BY <1>7, SameParts
<1> HIDE DEF b
<1>9. CASE ~(e.service # Nobody /\ Origins # {})
    <2>1. exchange' = b
        BY <1>5, <1>9
    <2>2. Readable(e)
        BY <1>2, <1>9, NothingToShare
    <2>3. /\ b.response.alert # "" <=> Dated
          /\ b.response.alert # "hard-eol"
        BY <1>6, <1>3
    <2>4. b.response.status # 410
        BY <1>6, <1>3
    <2>5. Warning(b)
        BY <1>6, <2>3, <2>4 DEF Warning, Finished, Warned
    <2>6. ExchangeInv(b)
        BY <1>1, <1>4, <1>6, <2>2, <2>5, GoingBack
    <2> QED BY <2>1, <2>6
<1>10. CASE e.service # Nobody /\ Origins # {}
    <2> DEFINE a == PostRequest(b)
    <2>1. exchange' = a
        BY <1>4, <1>5, <1>10
    <2>2. /\ Recast(b, a)
          /\ b.response.exposes => a.response.exposes
          /\ Unread(b) => Unread(a)
          /\ Readable(b) \/ ~b.checked => Readable(a)
        BY <1>8, PostRequestIs
    <2> HIDE DEF a
    <2>3. /\ SameRequest(b, a) /\ a.at = b.at /\ a.raised = b.raised
          /\ a.response.status = b.response.status /\ a.response.alert = b.response.alert
          /\ a.response.retry = b.response.retry /\ a.response.methods = b.response.methods
          /\ a.response.location = b.response.location
        BY <2>2 DEF Recast, SameRequest
    <2>4. SameRequest(e, a)
        BY <1>7, <2>3 DEF SameRequest
    <2>5. a.response.retry => a.response.exposes
        BY <1>2, <1>6, <2>2, <2>3
    <2>6. Back(e, a)
        BY <1>6, <2>2, <2>3, <2>4, <2>5 DEF Back
    <2>7. a.response.alert = e.response.alert /\ a.response.status = e.response.status /\ a.at = b.at
        BY <1>6, <2>3
    <2>8. /\ a.response.alert # "" <=> Dated
          /\ a.response.alert # "hard-eol"
        BY <1>3, <2>7
    <2>9. a.response.status # 410
        BY <1>3, <2>7
    <2>10. a.at = "answering"
        BY <1>6, <2>7
    <2>11. Warning(a)
        BY <2>8, <2>9, <2>10 DEF Warning, Finished, Warned
    <2>12. Readable(a)
        BY <1>2, <1>6, <2>2
    <2>13. ExchangeInv(a)
        BY <1>1, <1>4, <2>6, <2>10, <2>11, <2>12, GoingBack
    <2> QED BY <2>1, <2>13
<1> QED BY <1>9, <1>10

LEMMA NewResponseStep ==
    ASSUME ExchangeInv(exchange), NewResponse
    PROVE  ExchangeInv(exchange')
<1> DEFINE e == exchange
           x == [e EXCEPT !.response.backoff = Setting("backoff") # Nobody]
           a == At(x, "answered")
<1>1. e.at = "answering" /\ ExchangeInv(e) /\ Shaped(e) /\ exchange' = a
    BY DEF NewResponse, ExchangeInv, Sound
<1>2. /\ e.response.retry => e.response.exposes
      /\ Unread(e) /\ Readable(e)
    BY <1>1 DEF ExchangeInv, Shared, Finished
<1>3. Warned(e)
    BY <1>1 DEF ExchangeInv, Warning, Finished
<1> HIDE DEF e
<1>4. /\ SameRequest(e, x) /\ x.raised = e.raised /\ x.response.status = e.response.status
      /\ x.response.origin = e.response.origin /\ x.response.exposes = e.response.exposes
      /\ x.response.retry = e.response.retry /\ x.response.methods = e.response.methods
      /\ x.response.location = e.response.location /\ x.response.alert = e.response.alert
    BY <1>1 DEF Shaped, ExchangeFields, ResponseFields, SameRequest
<1> HIDE DEF x
<1>5. SameRequest(x, a) /\ a.at = "answered" /\ a.response = x.response /\ a.raised = x.raised
    BY <1>4, Moving DEF SameRequest
<1> HIDE DEF a
<1>6. SameRequest(e, a)
    BY <1>4, <1>5 DEF SameRequest
<1>7. a.response.origin = e.response.origin
    BY <1>4, <1>5
<1>8. Readable(a) /\ Unread(a)
    BY <1>2, <1>6, <1>7, StillReadable
<1>9. a.response.retry => a.response.exposes
    BY <1>2, <1>4, <1>5
<1>10. Back(e, a)
    BY <1>4, <1>5, <1>6, <1>8, <1>9 DEF Back
<1>11. a.response.alert = e.response.alert /\ a.response.status = e.response.status /\ a.wrapped = e.wrapped
    BY <1>4, <1>5, <1>6, SameParts
<1>12. Warned(a)
    <2>1. a.response.alert # "" <=> Dated
        BY <1>3, <1>11 DEF Warned
    <2>2. e.response.alert = "hard-eol" <=> e.response.status = 410
        BY <1>3 DEF Warned
    <2>3. a.response.alert = "hard-eol" <=> a.response.status = 410
        BY <1>11, <2>2
    <2>4. e.response.status = 410 => ~e.wrapped /\ late
        BY <1>3 DEF Warned
    <2>5. a.response.status = 410 => ~a.wrapped /\ late
        BY <1>11, <2>4
    <2> QED BY <2>1, <2>3, <2>5 DEF Warned
<1>13. Warning(a)
    BY <1>5, <1>12 DEF Warning, Finished
<1>14. a.at \in Finished
    BY <1>5 DEF Finished
<1>15. ExchangeInv(a)
    BY <1>1, <1>5, <1>8, <1>10, <1>13, <1>14, GoingBack
<1> QED BY <1>1, <1>15

(***************************************************************************)
(* What clients send                                                       *)
(***************************************************************************)

LEMMA RankIs ==
    ASSUME NEW path PROVE Rank(path) \in 0..3
BY DEF Rank

\* A request that is received.
LEMMA Received ==
    ASSUME NEW r, IsRequest(r), NEW why, NEW visited, Receive(r, why, visited),
           Promised(exchange'), Redirected(exchange')
    PROVE  ExchangeInv(exchange')
<1> DEFINE x == [request |-> r, why |-> why, visited |-> visited, at |-> "received",
                 service |-> Nobody, definition |-> 0, wrapped |-> FALSE, checked |-> FALSE,
                 errors |-> {}, raised |-> "", ran |-> FALSE, heard |-> {}, response |-> NoResponse]
<1>1. exchange' = x
    BY DEF Receive
<1>2. Bland(NoResponse) /\ NoResponse.status # 405
    <2>1. NoResponse.status = 0
        BY Replies
    <2> QED BY <2>1, Replies
<1>3. NoResponse.status # 410
    <2>1. NoResponse.status = 0
        BY Replies
    <2> QED BY <2>1
<1>4. x.definition = 0 /\ 0 \in Nat /\ ~(0 > 0)
    OBVIOUS
<1>5. /\ Shaped(x) /\ x.request = r /\ x.at = "received" /\ x.service = Nobody
      /\ ~x.wrapped /\ ~x.checked /\ x.raised = "" /\ ~x.ran /\ x.response = NoResponse
    BY <1>2 DEF Shaped, ExchangeFields, Bland
<1> HIDE DEF x
<1>6. Found(x)
    <2>1. x.at \in Stages /\ x.raised \in Exceptions /\ x.at \notin {"secure", "validate", "view"}
          /\ x.at \notin WithService
        BY <1>5 DEF Stages, Exceptions, WithService
    <2>2. x.definition \in Nat /\ ~(x.definition > 0)
        BY <1>4
    <2> QED BY <1>5, <2>1, <2>2 DEF Found
<1>7. Allowed(x)
    <2>1. x.at \in Unanswered /\ x.at \notin WithService /\ x.at # "route" /\ x.at # "view"
        BY <1>5 DEF Unanswered, WithService
    <2>2. ~(x.definition > 0)
        BY <1>4
    <2> QED BY <1>5, <2>1, <2>2 DEF Allowed
<1>8. RaisedWell(x)
    BY <1>5 DEF RaisedWell
<1>9. x.response.origin = "" /\ x.response.alert = "" /\ ~x.response.retry
    BY <1>2, <1>5 DEF Bland
<1>10. x.response.status # 410
    BY <1>5, <1>3
<1>11. Warning(x)
    <2>1. x.at \notin {"callbacks"} \cup Finished /\ x.at \notin Finished /\ x.at # "callbacks"
        BY <1>5 DEF Finished
    <2> QED BY <1>9, <1>10, <2>1 DEF Warning
<1>12. Shared(x)
    <2>1. x.at \notin {"view"} \cup Finished /\ x.at \notin {"tween", "callbacks"}
        BY <1>5 DEF Finished
    <2>2. Unread(x)
        BY <1>9 DEF Unread
    <2> QED BY <1>5, <1>9, <2>1, <2>2 DEF Shared
<1>13. Informs(x, x.response)
    <2>1. Informs(x, NoResponse)
        BY <1>2, BlandInforms
    <2> QED BY <1>5, <2>1
<1>14. Promised(x) /\ Redirected(x)
    BY <1>1
<1>15. ExchangeInv(x)
    BY <1>5, <1>6, <1>7, <1>8, <1>11, <1>12, <1>13, <1>14 DEF ExchangeInv, Sound
<1> QED BY <1>1, <1>15

LEMMA ReceivedIs ==
    ASSUME NEW r, NEW why, NEW visited, Receive(r, why, visited)
    PROVE  exchange'.request = r /\ exchange'.why = why /\ exchange'.visited = visited
BY DEF Receive

\* A request of its own, and not one that follows a redirection.
LEMMA Anew ==
    ASSUME NEW x, x.visited = {x.request.path}, x.request.path # Nobody PROVE Redirected(x)
<1>1. IsFiniteSet(x.visited) /\ Cardinality(x.visited) = 1
    BY FS_Singleton
<1>2. Rank(x.request.path) \in 0..3
    BY RankIs
<1> QED BY <1>1, <1>2 DEF Redirected

LEMMA SendStep ==
    ASSUME Send PROVE ExchangeInv(exchange')
<1>1. PICK r \in Requests : Receive(r, "asked", {r.path})
    BY DEF Send
<1>2. IsRequest(r)
    BY RequestsAssumption
<1>3. exchange'.request = r /\ exchange'.why = "asked" /\ exchange'.visited = {r.path}
    BY <1>1, ReceivedIs
<1>4. Promised(exchange')
    BY <1>3 DEF Promised
<1>5. exchange'.visited = {exchange'.request.path}
    BY <1>3
<1>6. exchange'.request.path # Nobody
    BY <1>2, <1>3 DEF IsRequest
<1>7. Redirected(exchange')
    BY <1>5, <1>6, Anew
<1> QED BY <1>1, <1>2, <1>4, <1>7, Received

LEMMA FollowRedirectionStep ==
    ASSUME ExchangeInv(exchange), FollowRedirection
    PROVE  ExchangeInv(exchange')
<1> DEFINE e == exchange
           l == e.response.location
           r == [e.request EXCEPT !.path = l]
<1>1. ExchangeInv(e) /\ l # Nobody /\ l \notin e.visited /\ Receive(r, "followed", e.visited \cup {l})
    BY DEF FollowRedirection
<1>2. IsRequest(e.request) /\ Redirected(e)
    BY <1>1 DEF ExchangeInv, Sound, Found
<1>3. IsPath(l) /\ Rank(l) < Rank(e.request.path)
    BY <1>1 DEF ExchangeInv, Informs
<1> HIDE DEF e
<1>4. IsRequest(r) /\ r.path = l
    BY <1>1, <1>2, <1>3 DEF IsRequest
<1> HIDE DEF r, l
<1>5. exchange'.request = r /\ exchange'.why = "followed" /\ exchange'.visited = e.visited \cup {l}
    BY <1>1, ReceivedIs
<1>6. Promised(exchange')
    BY <1>5 DEF Promised
<1>7. Redirected(exchange')
    <2>1. IsFiniteSet(e.visited) /\ Nobody \notin e.visited /\ Cardinality(e.visited) + Rank(e.request.path) <= 4
          /\ \A p \in e.visited : Rank(p) >= Rank(e.request.path)
        BY <1>2 DEF Redirected
    <2>2. IsFiniteSet(e.visited \cup {l}) /\ Cardinality(e.visited \cup {l}) = Cardinality(e.visited) + 1
        BY <1>1, <2>1, FS_AddElement
    <2>3. \A p : Rank(p) \in 0..3
        BY RankIs
    <2>4. Cardinality(e.visited) \in Nat
        BY <2>1, FS_CardinalityType
    <2>5. \A p \in e.visited \cup {l} : Rank(p) >= Rank(l)
        BY <1>3, <2>1, <2>3
    <2>6. Cardinality(e.visited \cup {l}) + Rank(l) <= 4
        BY <1>3, <2>1, <2>2, <2>3, <2>4
    <2>7. Nobody \notin e.visited \cup {l}
        BY <1>1, <2>1 DEF l
    <2> QED BY <1>4, <1>5, <2>2, <2>5, <2>6, <2>7 DEF Redirected
<1> QED BY <1>1, <1>4, <1>6, <1>7, Received

\* A method that a client was told of is one that the service has.
LEMMA ToldMethods ==
    ASSUME NEW e, ExchangeInv(e), NEW method \in e.response.methods, NEW why,
           Receive([e.request EXCEPT !.method = method], why, {e.request.path})
    PROVE  ExchangeInv(exchange')
<1> DEFINE r == [e.request EXCEPT !.method = method]
<1>1. IsRequest(e.request) /\ e.service \in {Nobody, ServiceOf(e.request.path)}
    BY DEF ExchangeInv, Sound, Found
<1>2. e.service # Nobody /\ e.response.methods = DefinedMethods(Definitions(e))
    BY DEF ExchangeInv, Informs
<1>3. IsRequest(r) /\ r.path = e.request.path /\ r.method = method
    BY <1>1 DEF IsRequest
<1> HIDE DEF r
<1>4. exchange'.request = r /\ exchange'.why = why /\ exchange'.visited = {e.request.path}
    BY ReceivedIs DEF r
<1>5. ServiceOf(e.request.path) = e.service
    BY <1>1, <1>2
<1>6. Promised(exchange')
    BY <1>2, <1>3, <1>4, <1>5 DEF Promised, Definitions
<1>7. exchange'.visited = {exchange'.request.path}
    BY <1>3, <1>4
<1>8. exchange'.request.path # Nobody
    BY <1>3, <1>4 DEF IsRequest
<1>9. Redirected(exchange')
    BY <1>7, <1>8, Anew
<1> QED BY <1>3, <1>6, <1>9, Received DEF r

LEMMA SendPreflightedStep ==
    ASSUME ExchangeInv(exchange), SendPreflighted
    PROVE  ExchangeInv(exchange')
BY ToldMethods DEF SendPreflighted, Preflighted

LEMMA RetryAllowedStep ==
    ASSUME ExchangeInv(exchange), RetryAllowed
    PROVE  ExchangeInv(exchange')
BY ToldMethods DEF RetryAllowed

\* What an exchange is stays so on a server that serves, and when the date passes.
LEMMA Carried ==
    ASSUME ExchangeInv(exchange'), UNCHANGED startupVars, late => late'
    PROVE  ExchangeInv(exchange)'
<1>1. registry' = registry /\ settings' = settings
    BY DEF startupVars
<1>2. Shaped(exchange)' /\ RaisedWell(exchange)' /\ Redirected(exchange)'
    <2>1. Shaped(exchange') /\ RaisedWell(exchange') /\ Redirected(exchange')
        BY DEF ExchangeInv, Sound
    <2>2. Shaped(exchange)'
        BY <2>1 DEF Shaped
    <2>3. RaisedWell(exchange)'
        BY <2>1 DEF RaisedWell
    <2>4. Redirected(exchange)'
        BY <2>1 DEF Redirected
    <2> QED BY <2>2, <2>3, <2>4
<1>3. Found(exchange)'
    <2>1. Found(exchange')
        BY DEF ExchangeInv, Sound
    <2> QED BY <1>1, <2>1 DEF Found, Of, Definitions, ServiceOf
<1>4. Allowed(exchange)'
    <2>1. Allowed(exchange')
        BY DEF ExchangeInv, Sound
    <2> QED BY <1>1, <2>1
        DEF Allowed, OriginPassed, GuardPassed, Heard, View, Definitions, Accepted, Origins, Setting
<1>5. Promised(exchange)'
    <2>1. Promised(exchange')
        BY DEF ExchangeInv, Sound
    <2> QED BY <1>1, <2>1 DEF Promised, ServiceOf, DefinedMethods
<1>6. Warning(exchange)'
    <2>1. Warning(exchange')
        BY DEF ExchangeInv
    <2> QED BY <1>1, <2>1 DEF Warning, Warned, Dated, Setting
<1>7. Shared(exchange)'
    <2>1. Shared(exchange')
        BY DEF ExchangeInv
    <2> QED BY <1>1, <2>1 DEF Shared, Unread, Readable, Accepted, Origins, Setting
<1>8. Informs(exchange, exchange.response)'
    <2>1. Informs(exchange', exchange'.response)
        BY DEF ExchangeInv
    <2> QED BY <1>1, <2>1 DEF Informs, Definitions, Of, DefinedMethods
<1> QED BY <1>2, <1>3, <1>4, <1>5, <1>6, <1>7, <1>8 DEF ExchangeInv, Sound

(***************************************************************************)
(* The inductive invariant, and what it comes to                           *)
(***************************************************************************)

LEMMA ServerStays ==
    ASSUME StartupInv, UNCHANGED startupVars
    PROVE  StartupInv' /\ progress' = progress
<1>1. /\ deployment' = deployment /\ progress' = progress /\ pending' = pending
      /\ settings' = settings /\ registry' = registry
    BY DEF startupVars
<1>2. Registered'
    BY <1>1 DEF StartupInv, Registered, ServicesOf, BackendsOf
<1>3. progress' = "settings" => Loading'
    BY <1>1 DEF StartupInv, Loading, Given, IsGiven, Untouched, Loaded, Snapshot, Asked, Agree
<1>4. progress' \in {"setup", "serving"} => Configured'
    BY <1>1 DEF StartupInv, Configured, IsGiven, Given, Loaded, Asked, Agree
<1>5. progress' = "setup" => SettingUp'
    BY <1>1 DEF StartupInv, SettingUp, IsReadonly, Setting, AsListened, Subscribe, ListenerActions,
                ListenerSetting, ReadEnv
<1>6. progress' = "serving" => Serving'
    BY <1>1 DEF StartupInv, Serving, BackendsAreWatched, IsReadonly, Setting, AsListened, Subscribe, ListenerActions,
                ListenerSetting, ReadEnv
<1> QED BY <1>1, <1>2, <1>3, <1>4, <1>5, <1>6 DEF StartupInv

\* Servers that serve have started.
LEMMA StartupIsOver ==
    ASSUME StartupNext PROVE progress # "serving"
BY DEF StartupNext, LoadDefaults, LoadSetting, SettingsLoaded, RestrictIfReadonly, SetupVersionRedirection,
       SetupListeners, IncludePlugins, ScanViews, SetupBackend, IsNext

LEMMA ServeStep ==
    ASSUME DispatchInv, Serve
    PROVE  progress = "serving" /\ ExchangeInv(exchange')
<1>1. exchange.at # "none"
    BY DEF Serve, EndOfService, NewRequest, Route, Lookup, Secure, Validate, PreflightView, CallView, ViewRaises,
           ExceptionView, SoftEndOfService, ApplyFilters, NewResponse
<1>2. progress = "serving" /\ ExchangeInv(exchange) /\ StartupInv
    BY <1>1 DEF DispatchInv
<1> QED BY <1>2, EndOfServiceStep, NewRequestStep, RouteStep, LookupStep, SecureStep, ValidateStep,
           PreflightViewStep, CallViewStep, ViewRaisesStep, ExceptionViewStep, SoftEndOfServiceStep,
           ApplyFiltersStep, NewResponseStep DEF Serve

LEMMA ClientsStep ==
    ASSUME DispatchInv, Clients
    PROVE  Leave \/ (progress = "serving" /\ ExchangeInv(exchange'))
<1>1. CASE Send
    BY <1>1, SendStep DEF Send
<1>2. CASE FollowRedirection \/ SendPreflighted \/ RetryAllowed
    <2>1. exchange.at # "none"
        BY <1>2 DEF FollowRedirection, SendPreflighted, RetryAllowed, Answered
    <2>2. progress = "serving" /\ ExchangeInv(exchange)
        BY <2>1 DEF DispatchInv
    <2> QED BY <1>2, <2>2, FollowRedirectionStep, SendPreflightedStep, RetryAllowedStep
<1> QED BY <1>1, <1>2 DEF Clients

LEMMA DispatchStep ==
    ASSUME DispatchInv, [DispatchNext]_dispatchVars
    PROVE  DispatchInv'
<1>1. StartupInv /\ late \in BOOLEAN /\ (exchange.at # "none" => progress = "serving" /\ ExchangeInv(exchange))
    BY DEF DispatchInv
<1>2. CASE StartupNext /\ UNCHANGED <<late, exchange>>
    <2>1. StartupInv'
        BY <1>1, <1>2, StartupStep
    <2>2. exchange.at = "none"
        BY <1>1, <1>2, StartupIsOver
    <2>3. exchange'.at = "none"
        BY <1>2, <2>2
    <2> QED BY <1>1, <1>2, <2>1, <2>3 DEF DispatchInv
<1>3. CASE UNCHANGED <<startupVars, late>> /\ (Serve \/ Clients)
    <2>1. StartupInv' /\ progress' = progress
        BY <1>1, <1>3, ServerStays
    <2>2. CASE Leave
        <3>1. exchange' = [at |-> "none"]
            BY <2>2 DEF Leave
        <3>2. exchange'.at = "none"
            BY <3>1
        <3> QED BY <1>1, <1>3, <2>1, <3>2 DEF DispatchInv
    <2>3. CASE ~Leave
        <3>1. progress = "serving" /\ ExchangeInv(exchange')
            BY <1>3, <2>3, ServeStep, ClientsStep
        <3>2. ExchangeInv(exchange)'
            BY <1>3, <3>1, Carried
        <3> QED BY <1>1, <1>3, <2>1, <3>1, <3>2 DEF DispatchInv
    <2> QED BY <2>2, <2>3
<1>4. CASE UNCHANGED <<startupVars, exchange>> /\ late' \in BOOLEAN /\ (late => late')
    <2>1. StartupInv' /\ progress' = progress
        BY <1>1, <1>4, ServerStays
    <2>2. CASE exchange.at = "none"
        <3>1. exchange'.at = "none"
            BY <1>4, <2>2
        <3> QED BY <1>4, <2>1, <3>1 DEF DispatchInv
    <2>3. CASE exchange.at # "none"
        <3>1. progress = "serving" /\ ExchangeInv(exchange')
            BY <1>1, <1>4, <2>3
        <3>2. ExchangeInv(exchange)'
            BY <1>4, <3>1, Carried
        <3> QED BY <1>4, <2>1, <3>1, <3>2 DEF DispatchInv
    <2> QED BY <2>2, <2>3
<1>5. CASE DatePasses
    <2>1. UNCHANGED <<startupVars, exchange>> /\ late' = TRUE
        BY <1>5 DEF DatePasses
    <2> QED BY <1>4, <2>1
<1>6. CASE UNCHANGED dispatchVars
    BY <1>1, <1>4, <1>6 DEF dispatchVars
<1> QED BY <1>2, <1>3, <1>5, <1>6 DEF DispatchNext

LEMMA DispatchStarts == DispatchInit => DispatchInv
<1> SUFFICES ASSUME DispatchInit PROVE DispatchInv
    OBVIOUS
<1>1. StartupInv /\ late \in BOOLEAN
    BY StartupStarts DEF DispatchInit
<1>2. exchange.at = "none"
    BY DEF DispatchInit
<1> QED BY <1>1, <1>2 DEF DispatchInv

(* Whatever the deployment and the requests, settings and registry are on   *)
(* their way to what was asked for, and an exchange is at each stage what  *)
(* the stages before it, guards and validators, have made sure of.         *)
THEOREM DispatchInvariant == DispatchSpec => []DispatchInv
<1>1. DispatchInit => DispatchInv
    BY DispatchStarts
<1>2. DispatchInv /\ [DispatchNext]_dispatchVars => DispatchInv'
    BY DispatchStep
<1> QED BY <1>1, <1>2, PTL DEF DispatchSpec

\* What a listener is subscribed with is what was asked of it.
LEMMA ListenersAreAsked ==
    ASSUME deployment \in Deployments, Configured,
           NEW n \in {"event_listeners.audit.actions", "event_listeners.audit.resources"}
    PROVE  ListenerSetting(n) = AskedOfListener(n)
<1>1. n \in Names /\ n \notin Flags /\ n \notin DOMAIN Defaults
    BY DEF Names, Optional, Flags, Defaults
<1>2. IsGiven(n) <=> KeysOf(n) \cap DOMAIN deployment.file # {}
    BY <1>1, KeysDiffer DEF IsGiven, Given
<1>3. Plain(n) \in DOMAIN settings <=> IsGiven(n)
    <2>1. Plain(n) \in DOMAIN settings => IsGiven(n)
        <3>1. Plain(n)[1] = n
            BY KeysDiffer
        <3> QED BY <3>1 DEF Configured
    <2>2. IsGiven(n) => Plain(n) \in DOMAIN settings
        BY <1>1 DEF Configured, Loaded
    <2> QED BY <2>1, <2>2
<1>4. IsGiven(n) => Setting(n) = Asked(n)
    BY <1>1 DEF Configured, Loaded, Setting, Native
<1>5. CASE Prefixed(n) \in DOMAIN deployment.env
    <2>1. ListenerSetting(n) = deployment.env[Prefixed(n)]
        <3>1. Prefixed(n)[1] = n
            BY KeysDiffer
        <3> QED BY <1>1, <1>5, <3>1 DEF ListenerSetting, ReadEnv, Native
    <2>2. Asked(n) = deployment.env[Prefixed(n)]
        <3>1. Prefixed(n) \in DOMAIN deployment.env \cap KeysOf(n)
            BY <1>5, KeysDiffer
        <3> QED BY <3>1 DEF Asked
    <2> QED BY <1>5, <2>1, <2>2 DEF AskedOfListener
<1>6. CASE Prefixed(n) \notin DOMAIN deployment.env
    BY <1>2, <1>3, <1>4, <1>6 DEF AskedOfListener, ListenerSetting, ReadEnv
<1> QED BY <1>5, <1>6

\* What a listener that was asked for is subscribed to.
To(name, class) == [listener |-> name, class |-> class, actions |-> ListenerActions,
                    resources |-> ListenerSetting("event_listeners.audit.resources")]
Class(action) == IF action = "read" THEN "ResourceRead" ELSE "ResourceChanged"
Wanted(action) ==
    LET resources == ListenerSetting("event_listeners.audit.resources")
    IN  action \in ListenerActions /\ (resources # {} => "thing" \in resources)
HeardEvent(action) == [action |-> action, resource |-> "thing"]

LEMMA ListenersHear ==
    ASSUME NEW names, NEW name \in names, NEW action
    PROVE  {s \in UNION {Subscribe(n) : n \in names} : Hears(s, HeardEvent(action)) /\ s.listener = name}
               = IF Wanted(action) THEN {To(name, Class(action))} ELSE {}
<1> DEFINE H == {s \in UNION {Subscribe(n) : n \in names} : Hears(s, HeardEvent(action)) /\ s.listener = name}
           t == To(name, Class(action))
<1>1. ASSUME NEW s \in H PROVE s = t /\ Wanted(action)
    <2>1. PICK n \in names : s \in Subscribe(n)
        OBVIOUS
    <2>2. Hears(s, HeardEvent(action)) /\ s.listener = name
        OBVIOUS
    <2>3. PICK class \in {"ResourceRead", "ResourceChanged"} : s = To(n, class)
        BY <2>1 DEF Subscribe, To
    <2>4. /\ s.listener = n /\ s.class = class /\ s.actions = ListenerActions
          /\ s.resources = ListenerSetting("event_listeners.audit.resources")
        BY <2>3 DEF To
    <2>5. HeardEvent(action).action = action /\ HeardEvent(action).resource = "thing"
        BY DEF HeardEvent
    <2>6. class = Class(action) /\ Wanted(action)
        BY <2>2, <2>4, <2>5 DEF Hears, Class, Wanted
    <2>7. n = name
        BY <2>2, <2>4
    <2> QED BY <2>3, <2>6, <2>7
<1>2. ASSUME Wanted(action) PROVE t \in H
    <2>1. t \in Subscribe(name)
        BY <1>2 DEF Subscribe, To, Class, Wanted
    <2>2. /\ t.listener = name /\ t.class = Class(action) /\ t.actions = ListenerActions
          /\ t.resources = ListenerSetting("event_listeners.audit.resources")
        BY DEF To
    <2>3. HeardEvent(action).action = action /\ HeardEvent(action).resource = "thing"
        BY DEF HeardEvent
    <2> HIDE DEF t
    <2>4. Hears(t, HeardEvent(action))
        BY <1>2, <2>2, <2>3 DEF Hears, Class, Wanted
    <2> QED BY <2>1, <2>2, <2>4
<1> HIDE DEF H, t
<1>3. H = IF Wanted(action) THEN {t} ELSE {}
    BY <1>1, <1>2
<1> QED BY <1>3 DEF H, t

LEMMA ListenersHearWhatTheyWant ==
    ASSUME DispatchInv PROVE ListenersHearTheirEvents
<1> SUFFICES ASSUME Answered, exchange.ran, exchange.raised = "", View(exchange).permission = "dynamic",
                    NEW name \in Asked("event_listeners")
             PROVE  LET actions == AskedOfListener("event_listeners.audit.actions")
                        resources == AskedOfListener("event_listeners.audit.resources")
                        wanted == /\ ActionOf(exchange.request.method) \in (IF actions = {} THEN Writes ELSE actions)
                                  /\ resources # {} => "thing" \in resources
                    IN  Cardinality({s \in exchange.heard : s.listener = name}) = IF wanted THEN 1 ELSE 0
    BY DEF ListenersHearTheirEvents
<1> DEFINE action == ActionOf(exchange.request.method)
           names == Setting("event_listeners")
<1>1. StartupInv /\ progress = "serving" /\ ExchangeInv(exchange)
    BY DEF DispatchInv, Answered
<1>2. deployment \in Deployments /\ Configured /\ Serving
    BY <1>1 DEF StartupInv
<1>3. exchange.heard = Heard(exchange)
    BY <1>1 DEF ExchangeInv, Sound, Allowed
<1>4. names = Asked("event_listeners")
    <2>1. "event_listeners" \in DOMAIN Defaults /\ "event_listeners" \in Names /\ "event_listeners" \notin Flags
        BY DEF Defaults, Names, Flags
    <2>2. IsGiven("event_listeners")
        BY <1>2, <2>1, GivenAre
    <2> QED BY <1>2, <2>1, <2>2 DEF Configured, Loaded, Setting, Native
<1>5. exchange.heard = {s \in UNION {Subscribe(n) : n \in names} : Hears(s, HeardEvent(action))}
    BY <1>2, <1>3 DEF Heard, Serving, AsListened, HeardEvent
<1>6. {s \in exchange.heard : s.listener = name}
          = IF Wanted(action) THEN {To(name, Class(action))} ELSE {}
    <2> HIDE DEF action, names
    <2>1. {s \in UNION {Subscribe(n) : n \in names} : Hears(s, HeardEvent(action)) /\ s.listener = name}
             = IF Wanted(action) THEN {To(name, Class(action))} ELSE {}
        BY <1>4, ListenersHear
    <2>2. {s \in exchange.heard : s.listener = name}
            = {s \in UNION {Subscribe(n) : n \in names} : Hears(s, HeardEvent(action)) /\ s.listener = name}
        BY <1>5
    <2> QED BY <2>1, <2>2
<1>7. /\ ListenerSetting("event_listeners.audit.actions") = AskedOfListener("event_listeners.audit.actions")
      /\ ListenerSetting("event_listeners.audit.resources") = AskedOfListener("event_listeners.audit.resources")
    BY <1>2, ListenersAreAsked
<1>8. Cardinality({s \in exchange.heard : s.listener = name}) = IF Wanted(action) THEN 1 ELSE 0
    BY <1>6, FS_Singleton, FS_EmptySet
<1> QED BY <1>7, <1>8 DEF Wanted, ListenerActions

LEMMA ListenersOfServers ==
    ASSUME DispatchInv PROVE ServersDoAsAsked
BY ServersServe, ListenersHearWhatTheyWant DEF DispatchInv, ServersDoAsAsked

LEMMA CompleteAnswers ==
    ASSUME DispatchInv PROVE AnswersAreComplete
<1> SUFFICES ASSUME Answered PROVE AnswersAreComplete
    BY DEF AnswersAreComplete, AnswersAreReadable, EveryAnswerWarns
<1>1. ExchangeInv(exchange) /\ exchange.at = "answered"
    BY DEF DispatchInv, Answered
<1>2. exchange.at \in Finished /\ exchange.at \in {"view"} \cup Finished
    BY <1>1 DEF Finished
<1>3. Readable(exchange) /\ (exchange.response.retry => exchange.response.exposes)
    BY <1>1, <1>2 DEF ExchangeInv, Shared
<1>4. Warned(exchange)
    BY <1>1, <1>2 DEF ExchangeInv, Warning
<1>5. AnswersAreReadable
    BY <1>3 DEF AnswersAreReadable, Readable
<1>6. EveryAnswerWarns
    BY <1>4 DEF EveryAnswerWarns, Warned
<1> QED BY <1>5, <1>6 DEF AnswersAreComplete

LEMMA ForbiddenViews ==
    ASSUME DispatchInv PROVE NothingForbiddenRuns
<1>1. ForeignOriginsRunNothing
    <2> SUFFICES ASSUME Answered, exchange.request.origin # Nobody, ~Accepted(exchange.request.origin)
                 PROVE  exchange.response.origin = "" /\ (exchange.ran => Origins = {})
        BY DEF ForeignOriginsRunNothing
    <2>1. ExchangeInv(exchange)
        BY DEF DispatchInv, Answered
    <2>2. Unread(exchange) /\ (exchange.ran => OriginPassed(exchange))
        BY <2>1 DEF ExchangeInv, Shared, Sound, Allowed
    <2> QED BY <2>2 DEF Unread, OriginPassed
<1>2. ReadonlyServersRunNoWrites
    <2> SUFFICES ASSUME exchange.at # "none", exchange.ran, Native("readonly", Asked("readonly")) = "True"
                 PROVE  exchange.request.method \in ReadonlyMethods
        BY DEF ReadonlyServersRunNoWrites
    <2>1. StartupInv /\ progress = "serving" /\ ExchangeInv(exchange)
        BY DEF DispatchInv
    <2>2. deployment \in Deployments /\ Configured /\ registry.guarded = IsReadonly
        BY <2>1 DEF StartupInv, Serving
    <2>3. "readonly" \in DOMAIN Defaults /\ "readonly" \in Names
        BY DEF Defaults, Names
    <2>4. IsGiven("readonly")
        BY <2>2, <2>3, GivenAre
    <2>5. Setting("readonly") = Native("readonly", Asked("readonly"))
        BY <2>2, <2>3, <2>4 DEF Configured, Loaded, Setting
    <2>6. registry.guarded
        BY <2>2, <2>5 DEF IsReadonly, Enabled
    <2>7. GuardPassed(exchange)
        BY <2>1 DEF ExchangeInv, Sound, Allowed
    <2> QED BY <2>6, <2>7 DEF GuardPassed
<1> QED BY <1>1, <1>2 DEF NothingForbiddenRuns

LEMMA ClientsGoOn ==
    ASSUME DispatchInv PROVE ClientsGetOn
<1> SUFFICES ASSUME Answered PROVE ClientsGetOn
    BY DEF ClientsGetOn, PromisesAreKept, RedirectionsAdvance
<1>1. ExchangeInv(exchange)
    BY DEF DispatchInv, Answered
<1>2. PromisesAreKept
    <2> DEFINE e == exchange
    <2> SUFFICES ASSUME e.why \in {"preflighted", "allowed"}, e.response.status = 405
                 PROVE  registry.guarded /\ e.request.method \notin ReadonlyMethods
        BY DEF PromisesAreKept
    <2>1. \/ registry.guarded /\ e.request.method \notin ReadonlyMethods
          \/ e.service # Nobody /\ Of(e, e.request.method) = {}
        BY <1>1 DEF ExchangeInv, Informs
    <2>2. ASSUME e.service # Nobody PROVE Of(e, e.request.method) # {}
        <3>1. e.service = ServiceOf(e.request.path)
            BY <1>1, <2>2 DEF ExchangeInv, Sound, Found
        <3>2. e.request.method \in DefinedMethods(Definitions(e))
            BY <1>1, <3>1 DEF ExchangeInv, Sound, Promised, Definitions
        <3> QED BY <3>2 DEF Of, DefinedMethods
    <2> QED BY <2>1, <2>2
<1>3. RedirectionsAdvance
    <2> DEFINE e == exchange
    <2>1. /\ IsFiniteSet(e.visited) /\ Nobody \notin e.visited
          /\ \A p \in e.visited : Rank(p) >= Rank(e.request.path)
          /\ Cardinality(e.visited) + Rank(e.request.path) <= 4
        BY <1>1 DEF ExchangeInv, Sound, Redirected
    <2>2. e.response.location # Nobody => Rank(e.response.location) < Rank(e.request.path)
        BY <1>1 DEF ExchangeInv, Informs
    <2>3. \A p : Rank(p) \in 0..3
        BY RankIs
    <2>4. e.response.location \notin e.visited
        BY <2>1, <2>2, <2>3
    <2>5. Cardinality(e.visited) <= 4
        BY <2>1, <2>3, FS_CardinalityType
    <2> QED BY <2>4, <2>5 DEF RedirectionsAdvance
<1> QED BY <1>2, <1>3 DEF ClientsGetOn


(* load_default_settings(), setup_listeners(): a server that serves has    *)
(* the settings that the operator asked for, and its listeners hear once   *)
(* of each event that they ask for, and of no other.                       *)
THEOREM ServersAsAsked == DispatchSpec => []ServersDoAsAsked
BY DispatchInvariant, ListenersOfServers, PTL

(* reapply_cors() and the tween of the end of service: the answers that     *)
(* views of errors make have the headers that the others have.             *)
THEOREM EveryAnswerComplete == DispatchSpec => []AnswersAreComplete
BY DispatchInvariant, CompleteAnswers, PTL

(* The validator of CORS and the guard of read-only servers come before    *)
(* every view, those of plugins included.                                  *)
THEOREM NoForbiddenRuns == DispatchSpec => []NothingForbiddenRuns
BY DispatchInvariant, ForbiddenViews, PTL

(* get_cors_preflight_view(), get_fallback_view() and the redirections:     *)
(* what they tell a client to do next is neither refused nor endless.      *)
THEOREM EveryClientGetsOn == DispatchSpec => []ClientsGetOn
BY DispatchInvariant, ClientsGoOn, PTL
=============================================================================
