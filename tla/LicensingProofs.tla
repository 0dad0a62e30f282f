-------------------------- MODULE LicensingProofs --------------------------
(***************************************************************************)
(* What Licensing promises, proved for any keys, commands and bounds.      *)
(***************************************************************************)
EXTENDS Licensing, FiniteSetTheorems, SequenceTheorems, TLAPS

-----------------------------------------------------------------------------
(* Lists of calls.                                                         *)

CallsOf(o) == {o.todo[n] : n \in DOMAIN o.todo}
SetOf(t) == {t[n] : n \in DOMAIN t}

\* What may come right after what.  Nothing comes after any other step.
Follows ==
  {<<"row", "key">>, <<"confirm", "mint">>, <<"release", "forget">>,
   <<"forget", "seat">>, <<"forget", "untoken">>, <<"forget", "persist">>,
   <<"forget", "ensure">>, <<"unkey", "release">>, <<"untoken", "persist">>,
   <<"seat", "mint">>, <<"seat", "untoken">>, <<"seat", "persist">>,
   <<"record", "mint">>, <<"record", "untoken">>, <<"record", "persist">>,
   <<"ensure", "token">>, <<"check", "token">>, <<"obtain", "token">>}

Paired(t, n) == n + 1 \in DOMAIN t /\ t[n + 1] = Call("forget", t[n].key, t[n].id)

Ordered(t) ==
  /\ \A n \in DOMAIN t : n + 1 \in DOMAIN t => <<t[n].step, t[n + 1].step>> \in Follows
  /\ \A n \in DOMAIN t : t[n].step = "release" => Paired(t, n)

\* The steps that name an instance and its key.
Naming == {"release", "forget", "seat", "record", "untoken", "persist", "save",
           "ensure", "check", "obtain"}

CallOK(o, c) ==
  /\ c.step \in Naming => c.key \in Keys /\ c.id # 0
  /\ c.step \in {"untoken", "persist", "save"} =>
       o.kind = "activate" /\ o.id # 0 /\ c.id = o.id /\ c.key = o.key
  /\ c.step \in {"row", "key"} => o.kind \in {"activate", "deactivate"}
  /\ c.step \in {"row", "key", "confirm"} => ~o.retried /\ o.id = 0
  /\ c.step = "row" => o.todo = <<Call("row", o.key, 0), Call("key", o.key, 0)>>
  /\ c.step = "key" /\ o.kind = "deactivate" => o.oldId # 0 \/ o.todo[1].step = "row"
  /\ c.step \in {"confirm", "mint"} => o.kind = "activate"
  /\ c.step = "clear" => c.id = o.oldId /\ c.key = o.oldKey /\ c.id # 0
  /\ c.step = "token" => c.id # 0

OpOK(o) ==
  /\ Ordered(o.todo)
  /\ \A c \in CallsOf(o) : CallOK(o, c)
  /\ o.kind = "activate" => o.key \in Keys
  /\ o.lost => o.todo # <<>> /\ Head(o.todo).step = "forget"

OpMinted(o, m) ==
  /\ o.id <= m /\ o.oldId <= m
  /\ \A c \in CallsOf(o) : c.id <= m
  /\ \A r \in o.list \cup o.done : r.id <= m

-----------------------------------------------------------------------------
(* The invariant, first part: lists, instances and locks.                  *)

StoredMinted ==
  /\ row <= minted
  /\ \A s \in seats : s[2] <= minted
  /\ \A c \in creds : c.id <= minted
  /\ \A r \in owed : r.id <= minted
  /\ \A i \in learned : i <= minted

\* Who holds which lock, and what stands still meanwhile.
HolderOK(a) ==
  /\ Doing(a, "save") \/ Doing(a, "unkey") => mutation = a
  /\ mutation = a => \/ Doing(a, "save")
                     \/ row = 0 /\ (Doing(a, "unkey") \/ Doing(a, "record"))
  /\ credential = a <=> \E step \in {"forget", "check", "obtain"} : Doing(a, step)
  /\ Doing(a, "save") => /\ row = op[a].oldId /\ key = Now(a).key
                         /\ row # 0 => op[a].oldKey \in Keys

Finite == IsFiniteSet(creds) /\ \A a \in Actors : IsFiniteSet(op[a].shown)

Base ==
  /\ TypeOK
  /\ Finite
  /\ StoredMinted
  /\ \A a \in Actors : OpOK(op[a]) /\ OpMinted(op[a], minted) /\ HolderOK(a)
  /\ mutation = NoOne /\ row # 0 => key \in Keys

-----------------------------------------------------------------------------
(* Facts about lists of calls.                                             *)

LEMMA HeadAndTail ==
  ASSUME NEW t \in Seq(Calls), t # <<>>
  PROVE  /\ 1 \in DOMAIN t /\ Head(t) = t[1] /\ Head(t) \in Calls
         /\ Tail(t) \in Seq(Calls)
         /\ DOMAIN t = 1..Len(t) /\ DOMAIN Tail(t) = 1..(Len(t) - 1)
         /\ \A n \in DOMAIN Tail(t) : n + 1 \in DOMAIN t /\ Tail(t)[n] = t[n + 1]
         /\ \A n \in DOMAIN t : n = 1 \/ (n - 1 \in DOMAIN Tail(t) /\ t[n] = Tail(t)[n - 1])
BY HeadTailProperties

LEMMA Cons ==
  ASSUME NEW t \in Seq(Calls), NEW c \in Calls
  PROVE  /\ <<c>> \o t \in Seq(Calls) /\ <<c>> \o t # <<>>
         /\ Head(<<c>> \o t) = c /\ (<<c>> \o t)[1] = c
         /\ DOMAIN (<<c>> \o t) = 1..(Len(t) + 1)
         /\ \A n \in DOMAIN t : n + 1 \in DOMAIN (<<c>> \o t) /\ (<<c>> \o t)[n + 1] = t[n]
         /\ \A n \in DOMAIN (<<c>> \o t) : n = 1 \/ (n - 1 \in DOMAIN t /\ (<<c>> \o t)[n] = t[n - 1])
<1>1. <<c>> \in Seq(Calls) /\ Len(<<c>>) = 1 /\ <<c>>[1] = c
  OBVIOUS
<1> QED
  BY <1>1, ConcatProperties

LEMMA Front ==
  ASSUME NEW t \in Seq(Calls), t # <<>>, NEW step \in Steps
  PROVE  LET u == [t EXCEPT ![1].step = step]
         IN  /\ u \in Seq(Calls) /\ u # <<>> /\ Head(u) = u[1]
             /\ DOMAIN u = DOMAIN t
             /\ u[1] = Call(step, Head(t).key, Head(t).id)
             /\ \A n \in DOMAIN t : n # 1 => u[n] = t[n]
             /\ Tail(u) = Tail(t)
<1> DEFINE u == [t EXCEPT ![1].step = step]
<1>1. t[1] \in Calls /\ Head(t) = t[1] /\ 1 \in DOMAIN t
  BY HeadAndTail
<1>2. u = [t EXCEPT ![1] = [t[1] EXCEPT !.step = step]]
  OBVIOUS
<1>3. [t[1] EXCEPT !.step = step] = Call(step, t[1].key, t[1].id)
  BY <1>1 DEF Calls, Call
<1>4. Call(step, t[1].key, t[1].id) \in Calls
  BY <1>1 DEF Calls, Call
<1>5. u = [t EXCEPT ![1] = Call(step, t[1].key, t[1].id)]
  BY <1>2, <1>3
<1> HIDE DEF u
<1>6. u \in Seq(Calls) /\ Len(u) = Len(t) /\ u # <<>>
  BY <1>1, <1>4, <1>5, ExceptSeq
<1>7. /\ DOMAIN u = DOMAIN t /\ u[1] = Call(step, t[1].key, t[1].id)
      /\ \A n \in DOMAIN t : n # 1 => u[n] = t[n]
  BY <1>1, <1>5
<1>8. Tail(u) = Tail(t)
  <2>1. /\ Tail(u) \in Seq(Calls) /\ Tail(t) \in Seq(Calls)
        /\ Len(Tail(u)) = Len(Tail(t))
    BY <1>6, HeadTailProperties
  <2>2. \A n \in 1..Len(Tail(t)) : Tail(u)[n] = Tail(t)[n]
    BY <1>6, <1>7, HeadTailProperties
  <2> QED
    BY <2>1, <2>2, SeqEqual
<1>9. Head(u) = u[1]
  BY <1>6, HeadAndTail
<1> QED
  BY <1>1, <1>6, <1>7, <1>8, <1>9 DEF u

-----------------------------------------------------------------------------
(* What an operation becomes when its list changes.                        *)

\* Everything but the list, `lost`, and what the loop has read.
SameCommand(o, u) ==
  /\ u.kind = o.kind /\ u.key = o.key /\ u.id = o.id
  /\ u.oldKey = o.oldKey /\ u.oldId = o.oldId /\ u.retried = o.retried

Ending == {"key", "mint", "persist", "save", "clear", "token", "tick", "use",
           "reject", "drain"}

LEMMA Fields ==
  ASSUME NEW o \in Ops
  PROVE  /\ o.todo \in Seq(Calls) /\ o.id \in Nat /\ o.oldId \in Nat
         /\ o.id \in {0} \cup Instances /\ o.oldId \in {0} \cup Instances
         /\ o.key \in Keys \cup {NoKey} /\ o.oldKey \in Keys \cup {NoKey}
         /\ o.retried \in BOOLEAN /\ o.lost \in BOOLEAN
         /\ o.list \subseteq Releases /\ o.done \subseteq Releases
         /\ CallsOf(o) \subseteq Calls
         /\ o.todo # <<>> => Head(o.todo) \in CallsOf(o) /\ Head(o.todo) = o.todo[1]
<1>1. /\ o.todo \in Seq(Calls) /\ o.id \in {0} \cup Instances /\ o.oldId \in {0} \cup Instances
      /\ o.key \in Keys \cup {NoKey} /\ o.oldKey \in Keys \cup {NoKey}
      /\ o.retried \in BOOLEAN /\ o.lost \in BOOLEAN
      /\ o.list \subseteq Releases /\ o.done \subseteq Releases
  BY DEF Ops
<1>2. CallsOf(o) \subseteq Calls
  BY <1>1 DEF CallsOf
<1>3. o.todo # <<>> => Head(o.todo) \in CallsOf(o) /\ Head(o.todo) = o.todo[1]
  BY <1>1, HeadAndTail DEF CallsOf
<1> QED
  BY <1>1, <1>2, <1>3, BoundsAssumption DEF Instances

\* The first call is made, the rest remains.
LEMMA Dropped ==
  ASSUME NEW o \in Ops, OpOK(o), o.todo # <<>>, NEW u \in Ops,
         u.todo = Tail(o.todo), SameCommand(o, u), Head(o.todo).step # "row",
         u.lost => Head(o.todo).step = "release"
  PROVE  /\ OpOK(u)
         /\ CallsOf(u) \subseteq CallsOf(o)
         /\ CallsOf(o) \subseteq CallsOf(u) \cup {Head(o.todo)}
         /\ u.todo # <<>> => <<Head(o.todo).step, Head(u.todo).step>> \in Follows
         /\ Head(o.todo).step = "release" =>
              u.todo # <<>> /\ Head(u.todo) = Call("forget", Head(o.todo).key, Head(o.todo).id)
<1> DEFINE t == o.todo
<1>1. /\ t \in Seq(Calls) /\ u.todo \in Seq(Calls)
      /\ 1 \in DOMAIN t /\ Head(t) = t[1]
      /\ DOMAIN t = 1..Len(t) /\ DOMAIN u.todo = 1..(Len(t) - 1)
      /\ \A n \in DOMAIN u.todo : n + 1 \in DOMAIN t /\ u.todo[n] = t[n + 1]
      /\ \A n \in DOMAIN t : n = 1 \/ (n - 1 \in DOMAIN u.todo /\ t[n] = u.todo[n - 1])
  BY Fields, HeadAndTail
<1>2. u.todo # <<>> => 1 \in DOMAIN u.todo /\ Head(u.todo) = u.todo[1]
  BY <1>1, HeadAndTail
<1>3. Ordered(t)
  BY DEF OpOK
<1>4. Ordered(u.todo)
  <2>1. ASSUME NEW n \in DOMAIN u.todo, n + 1 \in DOMAIN u.todo
        PROVE  <<u.todo[n].step, u.todo[n + 1].step>> \in Follows
    BY <1>1, <1>3, <2>1 DEF Ordered
  <2>2. ASSUME NEW n \in DOMAIN u.todo, u.todo[n].step = "release"
        PROVE  Paired(u.todo, n)
    <3>1. t[n + 1].step = "release" /\ n + 1 \in DOMAIN t
      BY <1>1, <2>2
    <3>2. Paired(t, n + 1)
      BY <1>3, <3>1 DEF Ordered
    <3>3. (n + 1) - 1 = n /\ (n + 1) + 1 \in DOMAIN t /\ n + 1 \in DOMAIN u.todo
      BY <1>1, <3>2 DEF Paired
    <3> QED
      BY <1>1, <3>2, <3>3 DEF Paired
  <2> QED
    BY <2>1, <2>2 DEF Ordered
<1>5. /\ CallsOf(u) \subseteq CallsOf(o)
      /\ CallsOf(o) \subseteq CallsOf(u) \cup {Head(t)}
  BY <1>1 DEF CallsOf
<1>6. u.todo # <<>> => <<Head(t).step, Head(u.todo).step>> \in Follows
  <2> SUFFICES ASSUME u.todo # <<>> PROVE <<t[1].step, t[1 + 1].step>> \in Follows
    BY <1>1, <1>2
  <2> QED
    BY <1>1, <1>2, <1>3 DEF Ordered
<1>7. Head(t).step = "release" =>
        u.todo # <<>> /\ Head(u.todo) = Call("forget", Head(t).key, Head(t).id)
  <2> SUFFICES ASSUME t[1].step = "release"
               PROVE  u.todo # <<>> /\ u.todo[1] = Call("forget", t[1].key, t[1].id)
    BY <1>1, <1>2
  <2>1. Paired(t, 1)
    BY <1>1, <1>3 DEF Ordered
  <2>2. 1 \in DOMAIN u.todo
    BY <1>1, <2>1 DEF Paired
  <2> QED
    BY <1>1, <2>1, <2>2 DEF Paired
<1>8. \A c \in CallsOf(u) : CallOK(u, c)
  <2> SUFFICES ASSUME NEW c \in CallsOf(u) PROVE CallOK(u, c)
    OBVIOUS
  <2>1. CallOK(o, c)
    BY <1>5 DEF OpOK
  <2>2. c.step = "key" /\ o.kind = "deactivate" => o.oldId # 0
    BY <1>1, <2>1 DEF CallOK
  <2>3. c.step # "row"
    <3>1. <<Call("row", o.key, 0), Call("key", o.key, 0)>>[1].step = "row"
      BY DEF Call
    <3> QED
      BY <1>1, <2>1, <3>1 DEF CallOK
  <2> QED
    BY <2>1, <2>2, <2>3 DEF CallOK, SameCommand
<1>9. (o.kind = "activate" => o.key \in Keys) /\ (u.kind = "activate" => u.key \in Keys)
  BY DEF OpOK, SameCommand
<1>10. u.lost => u.todo # <<>> /\ Head(u.todo).step = "forget"
  BY <1>7 DEF Call
<1> QED
  BY <1>4, <1>5, <1>6, <1>7, <1>8, <1>9, <1>10 DEF OpOK

\* An ending step is the last of its list.
LEMMA Alone ==
  ASSUME NEW o \in Ops, OpOK(o), o.todo # <<>>, Head(o.todo).step \in Ending
  PROVE  Tail(o.todo) = <<>> /\ CallsOf(o) = {Head(o.todo)} /\ Len(o.todo) = 1
<1> DEFINE t == o.todo
<1>1. /\ t \in Seq(Calls) /\ 1 \in DOMAIN t /\ Head(t) = t[1]
      /\ DOMAIN t = 1..Len(t) /\ Len(t) \in Nat
      /\ Tail(t) \in Seq(Calls) /\ Len(Tail(t)) = Len(t) - 1
  BY Fields, HeadAndTail, HeadTailProperties
<1>2. \A x : <<t[1].step, x>> \notin Follows
  BY <1>1 DEF Follows, Ending
<1>3. 1 + 1 \notin DOMAIN t
  BY <1>1, <1>2 DEF OpOK, Ordered
<1>4. Len(t) = 1
  <2>1. \A m \in Nat : 1 \in 1..m /\ 2 \notin 1..m => m = 1
    OBVIOUS
  <2>2. Len(t) \in Nat /\ 1 \in 1..Len(t) /\ 2 \notin 1..Len(t)
    BY <1>1, <1>3
  <2> HIDE DEF t
  <2> QED
    BY <2>1, <2>2
<1>5. Tail(t) = <<>>
  <2>1. Len(Tail(t)) = 0 /\ Tail(t) \in Seq(Calls)
    BY <1>1, <1>4
  <2> QED
    BY <2>1, EmptySeq
<1>6. DOMAIN t = {1}
  BY <1>1, <1>4
<1> QED
  BY <1>1, <1>4, <1>5, <1>6 DEF CallsOf

\* A list of one call, and a call put before a list.
LEMMA OneCall ==
  ASSUME NEW u \in Ops, NEW c \in Calls, u.todo = <<c>>, c.step # "release",
         CallOK(u, c), u.kind = "activate" => u.key \in Keys, ~u.lost
  PROVE  OpOK(u) /\ CallsOf(u) = {c} /\ Head(u.todo) = c
<1>1. DOMAIN u.todo = {1} /\ u.todo[1] = c /\ Head(u.todo) = c
  OBVIOUS
<1>2. Ordered(u.todo)
  BY <1>1 DEF Ordered
<1> QED
  BY <1>1, <1>2 DEF OpOK, CallsOf

LEMMA NoCalls ==
  ASSUME NEW u \in Ops, u.todo = <<>>, u.kind = "activate" => u.key \in Keys, ~u.lost
  PROVE  OpOK(u) /\ CallsOf(u) = {}
BY DEF OpOK, CallsOf, Ordered

\* A call put before a list of which every call is fine.
LEMMA Before ==
  ASSUME NEW t \in Seq(Calls), Ordered(t), NEW c \in Calls, c.step # "release",
         t # <<>> => <<c.step, Head(t).step>> \in Follows
  PROVE  /\ Ordered(<<c>> \o t) /\ Head(<<c>> \o t) = c /\ <<c>> \o t \in Seq(Calls)
         /\ SetOf(<<c>> \o t) = {c} \cup SetOf(t)
<1> DEFINE u == <<c>> \o t
<1>1. /\ u \in Seq(Calls) /\ Head(u) = c /\ u[1] = c /\ 1 \in DOMAIN u
      /\ DOMAIN u = 1..(Len(t) + 1) /\ DOMAIN t = 1..Len(t)
      /\ \A n \in DOMAIN t : n + 1 \in DOMAIN u /\ u[n + 1] = t[n]
      /\ \A n \in DOMAIN u : n = 1 \/ (n - 1 \in DOMAIN t /\ u[n] = t[n - 1])
  BY Cons
<1>2. t # <<>> => 1 \in DOMAIN t /\ Head(t) = t[1]
  BY HeadAndTail
<1> HIDE DEF u
<1>3. ASSUME NEW n \in DOMAIN u, n + 1 \in DOMAIN u
      PROVE  <<u[n].step, u[n + 1].step>> \in Follows
  <2>1. CASE n = 1
    <3>1. 1 \in DOMAIN t /\ t # <<>>
      BY <1>1, <1>3, <2>1
    <3> QED
      BY <1>1, <1>2, <2>1, <3>1
  <2>2. CASE n # 1
    <3>1. n - 1 \in DOMAIN t /\ (n - 1) + 1 \in DOMAIN t /\ u[n] = t[n - 1]
          /\ u[n + 1] = t[(n - 1) + 1]
      BY <1>1, <1>3, <2>2
    <3> QED
      BY <3>1 DEF Ordered
  <2> QED
    BY <2>1, <2>2
<1>4. ASSUME NEW n \in DOMAIN u, u[n].step = "release" PROVE Paired(u, n)
  <2>1. n - 1 \in DOMAIN t /\ u[n] = t[n - 1]
    BY <1>1, <1>4
  <2>2. Paired(t, n - 1)
    BY <1>4, <2>1 DEF Ordered
  <2>3. (n - 1) + 1 = n /\ n \in DOMAIN t
    BY <1>1, <2>1, <2>2 DEF Paired
  <2> QED
    BY <1>1, <2>1, <2>2, <2>3 DEF Paired
<1>5. {u[n] : n \in DOMAIN u} = {c} \cup {t[n] : n \in DOMAIN t}
  <2>1. ASSUME NEW n \in DOMAIN u PROVE u[n] \in {c} \cup {t[m] : m \in DOMAIN t}
    BY <1>1
  <2>2. ASSUME NEW m \in DOMAIN t PROVE t[m] \in {u[n] : n \in DOMAIN u}
    <3>1. m + 1 \in DOMAIN u /\ u[m + 1] = t[m]
      BY <1>1
    <3> QED
      BY <3>1
  <2>3. c \in {u[n] : n \in DOMAIN u}
    BY <1>1
  <2> QED
    BY <2>1, <2>2, <2>3
<1> QED
  BY <1>1, <1>3, <1>4, <1>5 DEF u, Ordered, SetOf

\* A release put before its second half.
LEMMA BeforeForget ==
  ASSUME NEW t \in Seq(Calls), Ordered(t), NEW k \in Keys, NEW i \in Instances,
         t # <<>>, Head(t) = Call("forget", k, i)
  PROVE  /\ Ordered(<<Call("release", k, i)>> \o t)
         /\ Head(<<Call("release", k, i)>> \o t) = Call("release", k, i)
         /\ <<Call("release", k, i)>> \o t \in Seq(Calls)
         /\ SetOf(<<Call("release", k, i)>> \o t) = {Call("release", k, i)} \cup SetOf(t)
<1> DEFINE c == Call("release", k, i)
           u == <<c>> \o t
<1>0. c \in Calls /\ c.step = "release" /\ c.key = k /\ c.id = i
  BY DEF Call, Calls, Steps
<1>1. /\ u \in Seq(Calls) /\ Head(u) = c /\ u[1] = c /\ 1 \in DOMAIN u
      /\ DOMAIN u = 1..(Len(t) + 1) /\ DOMAIN t = 1..Len(t)
      /\ \A n \in DOMAIN t : n + 1 \in DOMAIN u /\ u[n + 1] = t[n]
      /\ \A n \in DOMAIN u : n = 1 \/ (n - 1 \in DOMAIN t /\ u[n] = t[n - 1])
  BY <1>0, Cons
<1>2. 1 \in DOMAIN t /\ t[1] = Call("forget", k, i) /\ t[1].step = "forget"
  BY HeadAndTail DEF Call
<1> HIDE DEF u, c
<1>3. ASSUME NEW n \in DOMAIN u, n + 1 \in DOMAIN u
      PROVE  <<u[n].step, u[n + 1].step>> \in Follows
  <2>1. CASE n = 1
    <3>1. u[n].step = "release" /\ u[n + 1].step = "forget"
      BY <1>0, <1>1, <1>2, <2>1
    <3> QED
      BY <3>1 DEF Follows
  <2>2. CASE n # 1
    <3>1. n - 1 \in DOMAIN t /\ (n - 1) + 1 \in DOMAIN t /\ u[n] = t[n - 1]
          /\ u[n + 1] = t[(n - 1) + 1]
      BY <1>1, <1>3, <2>2
    <3> QED
      BY <3>1 DEF Ordered
  <2> QED
    BY <2>1, <2>2
<1>4. ASSUME NEW n \in DOMAIN u, u[n].step = "release" PROVE Paired(u, n)
  <2>1. CASE n = 1
    BY <1>0, <1>1, <1>2, <2>1 DEF Paired
  <2>2. CASE n # 1
    <3>1. n - 1 \in DOMAIN t /\ u[n] = t[n - 1]
      BY <1>1, <2>2
    <3>2. Paired(t, n - 1)
      BY <1>4, <3>1 DEF Ordered
    <3>3. (n - 1) + 1 = n /\ n \in DOMAIN t
      BY <1>1, <3>1, <3>2 DEF Paired
    <3> QED
      BY <1>1, <3>1, <3>2, <3>3 DEF Paired
  <2> QED
    BY <2>1, <2>2
<1>5. {u[n] : n \in DOMAIN u} = {c} \cup {t[n] : n \in DOMAIN t}
  <2>1. ASSUME NEW n \in DOMAIN u PROVE u[n] \in {c} \cup {t[m] : m \in DOMAIN t}
    BY <1>1
  <2>2. ASSUME NEW m \in DOMAIN t PROVE t[m] \in {u[n] : n \in DOMAIN u}
    <3>1. m + 1 \in DOMAIN u /\ u[m + 1] = t[m]
      BY <1>1
    <3> QED
      BY <3>1
  <2>3. c \in {u[n] : n \in DOMAIN u}
    BY <1>1
  <2> QED
    BY <2>1, <2>2, <2>3
<1> QED
  BY <1>1, <1>3, <1>4, <1>5 DEF u, c, Ordered, SetOf

LEMMA Joined ==
  ASSUME NEW a \in Calls, NEW b \in Calls, NEW c \in Calls
  PROVE  /\ <<a, b>> \o <<c>> = <<a, b, c>>
         /\ <<a>> \o <<b, c>> = <<a, b, c>>
         /\ <<a>> \o <<b>> = <<a, b>>
<1>1. <<a, b>> \in Seq(Calls) /\ <<b, c>> \in Seq(Calls) /\ <<a>> \in Seq(Calls)
      /\ <<b>> \in Seq(Calls) /\ <<c>> \in Seq(Calls) /\ <<a, b, c>> \in Seq(Calls)
  OBVIOUS
<1>2. <<a, b>> \o <<c>> = <<a, b, c>>
  <2>1. Len(<<a, b>> \o <<c>>) = 3 /\ <<a, b>> \o <<c>> \in Seq(Calls)
    BY <1>1, ConcatProperties
  <2>2. \A n \in 1..3 : (<<a, b>> \o <<c>>)[n] = <<a, b, c>>[n]
    BY <1>1, ConcatProperties
  <2> QED
    BY <1>1, <2>1, <2>2, SeqEqual
<1>3. <<a>> \o <<b, c>> = <<a, b, c>>
  <2>1. Len(<<a>> \o <<b, c>>) = 3 /\ <<a>> \o <<b, c>> \in Seq(Calls)
    BY <1>1, ConcatProperties
  <2>2. \A n \in 1..3 : (<<a>> \o <<b, c>>)[n] = <<a, b, c>>[n]
    BY <1>1, ConcatProperties
  <2> QED
    BY <1>1, <2>1, <2>2, SeqEqual
<1>4. <<a>> \o <<b>> = <<a, b>>
  <2>1. Len(<<a>> \o <<b>>) = 2 /\ <<a>> \o <<b>> \in Seq(Calls)
    BY <1>1, ConcatProperties
  <2>2. \A n \in 1..2 : (<<a>> \o <<b>>)[n] = <<a, b>>[n]
    BY <1>1, ConcatProperties
  <2> QED
    BY <1>1, <2>1, <2>2, SeqEqual
<1> QED
  BY <1>2, <1>3, <1>4

-----------------------------------------------------------------------------
(* The first part is kept.                                                 *)

Stored ==
  /\ row \in {0} \cup Instances /\ entitled \in BOOLEAN
  /\ key \in Keys \cup {NoKey}
  /\ token \in Credentials \cup {NoCred} /\ nonce \in Credentials \cup {NoCred}
  /\ owed \subseteq Releases
  /\ mutation \in Actors \cup {NoOne} /\ credential \in Actors \cup {NoOne}
  /\ seats \subseteq Keys \X Instances /\ creds \subseteq Credentials
  /\ learned \subseteq Instances /\ abandoned \subseteq Releases
  /\ minted \in {0} \cup Instances /\ faults \in 0..MaxFaults

LEMMA Numbers ==
  /\ Instances \subseteq Nat \ {0} /\ {0} \cup Instances \subseteq Nat
  /\ Releases = [key : Keys, id : Instances, side : Sides]
  /\ NoOne \notin Actors /\ NoKey \notin Keys /\ Loop \in Actors
BY ActorsAssumption, KeysAssumption, BoundsAssumption DEF Instances, Releases, Actors

\* One operation moves.
OneMoves(a) ==
  /\ op' \in [Actors -> Ops]
  /\ \A b \in Actors : b # a => op'[b] = op[b]

LEMMA Kept ==
  ASSUME Base, NEW a \in Actors, OneMoves(a),
         Stored', IsFiniteSet(creds'), IsFiniteSet(op'[a].shown), StoredMinted',
         OpOK(op'[a]), OpMinted(op'[a], minted'), minted <= minted', HolderOK(a)',
         mutation' = mutation \/ {mutation, mutation'} \subseteq {a, NoOne},
         credential' = credential \/ {credential, credential'} \subseteq {a, NoOne},
         UNCHANGED <<row, key>> \/ mutation \in {a, NoOne},
         mutation' = NoOne /\ row' # 0 => key' \in Keys
  PROVE  Base'
<1>1. TypeOK'
  BY DEF Stored, OneMoves, TypeOK
<1>2. Finite'
  BY DEF OneMoves, Base, Finite
<1>3. ASSUME NEW b \in Actors PROVE OpOK(op'[b]) /\ OpMinted(op'[b], minted') /\ HolderOK(b)'
  <2>1. CASE b = a
    BY <2>1
  <2>2. CASE b # a
    <3>1. op'[b] = op[b]
      BY <2>2 DEF OneMoves
    <3>2. OpOK(op[b]) /\ OpMinted(op[b], minted) /\ HolderOK(b)
      BY DEF Base
    <3>3. OpMinted(op[b], minted')
      <4>1. minted \in Nat /\ minted' \in Nat
        BY <1>1, Numbers DEF Base, TypeOK
      <4>2. \A n \in Nat : n <= minted => n <= minted'
        BY <4>1
      <4>3. op[b] \in Ops
        BY DEF Base, TypeOK
      <4>4. /\ op[b].id \in Nat /\ op[b].oldId \in Nat
            /\ \A c \in CallsOf(op[b]) : c.id \in Nat
            /\ \A r \in op[b].list \cup op[b].done : r.id \in Nat
        BY <4>3, Fields, Numbers DEF Calls, Releases
      <4> QED
        BY <3>2, <4>2, <4>4 DEF OpMinted
    <3>4. /\ mutation' = b <=> mutation = b
          /\ credential' = b <=> credential = b
      BY <2>2, Numbers
    <3>5. mutation = b => UNCHANGED <<row, key>>
      BY <2>2, Numbers
    <3>6. HolderOK(b)'
      BY <3>1, <3>2, <3>4, <3>5 DEF HolderOK, Doing, Now
    <3> QED
      BY <3>1, <3>2, <3>3, <3>6
  <2> QED
    BY <2>1, <2>2
<1> QED
  BY <1>1, <1>2, <1>3 DEF Base

\* What the usual ways of writing an operation do to it.
LEMMA ThenMoves ==
  ASSUME TypeOK, NEW a \in Actors, NEW t \in Seq(Calls), Then(a, t)
  PROVE  /\ OneMoves(a) /\ op'[a] = [op[a] EXCEPT !.todo = t] /\ op'[a] \in Ops
         /\ SameCommand(op[a], op'[a]) /\ op'[a].todo = t /\ op'[a].lost = op[a].lost
         /\ op'[a].list = op[a].list /\ op'[a].done = op[a].done
         /\ op'[a].shown = op[a].shown
<1> DEFINE u == [op[a] EXCEPT !.todo = t]
<1>1. op[a] \in Ops
  BY DEF TypeOK
<1>2. /\ u \in Ops /\ SameCommand(op[a], u) /\ u.todo = t /\ u.lost = op[a].lost
      /\ u.list = op[a].list /\ u.done = op[a].done /\ u.shown = op[a].shown
  BY <1>1 DEF Ops, SameCommand
<1>3. op' = [op EXCEPT ![a] = u]
  BY DEF Then
<1> HIDE DEF u
<1>4. op'[a] = u /\ OneMoves(a)
  BY <1>2, <1>3 DEF OneMoves, TypeOK
<1> QED
  BY <1>2, <1>4 DEF u

LEMMA RestingOK ==
  /\ Resting \in Ops /\ OpOK(Resting) /\ CallsOf(Resting) = {}
  /\ Resting.todo = <<>> /\ Resting.list = {} /\ Resting.done = {} /\ Resting.shown = {}
  /\ Resting.id = 0 /\ Resting.oldId = 0 /\ Resting.kind = "none"
<1>1. Resting \in Ops
  <2>1. <<>> \in Seq(Calls)
    OBVIOUS
  <2> QED
    BY <2>1 DEF Resting, Ops
<1>2. /\ Resting.todo = <<>> /\ Resting.list = {} /\ Resting.done = {} /\ Resting.shown = {}
      /\ Resting.id = 0 /\ Resting.oldId = 0 /\ Resting.kind = "none" /\ ~Resting.lost
  BY DEF Resting
<1> QED
  BY <1>1, <1>2, NoCalls

LEMMA FinishMoves ==
  ASSUME TypeOK, NEW a \in Actors, Finish(a)
  PROVE  OneMoves(a) /\ op'[a] = Resting
BY RestingOK DEF Finish, OneMoves, TypeOK

\* What a step knows of its operation before it.
LEMMA Known ==
  ASSUME Base, NEW a \in Actors
  PROVE  /\ op[a] \in Ops /\ OpOK(op[a]) /\ OpMinted(op[a], minted) /\ HolderOK(a)
         /\ IsFiniteSet(op[a].shown) /\ minted \in Nat /\ row \in Nat
         /\ op[a].todo # <<>> => /\ Now(a) \in CallsOf(op[a]) /\ Now(a) \in Calls
                                 /\ CallOK(op[a], Now(a)) /\ Now(a).id <= minted
BY Fields, Numbers DEF Base, TypeOK, Finite, Now, OpOK, OpMinted

\* An operation written down whole.
LEMMA Becomes ==
  ASSUME TypeOK, NEW a \in Actors, NEW u \in Ops, op' = [op EXCEPT ![a] = u]
  PROVE  OneMoves(a) /\ op'[a] = u
BY DEF OneMoves, TypeOK

\* The list becomes one call.
LEMMA ThenOne ==
  ASSUME Base, NEW a \in Actors, NEW c \in Calls, Then(a, <<c>>),
         CallOK(op[a], c), c.step \notin {"release", "key", "row"}, c.id <= minted,
         op[a].todo = <<>> \/ Now(a).step # "forget"
  PROVE  /\ OneMoves(a) /\ SameCommand(op[a], op'[a]) /\ OpOK(op'[a])
         /\ OpMinted(op'[a], minted) /\ IsFiniteSet(op'[a].shown)
         /\ op'[a].todo = <<c>> /\ CallsOf(op'[a]) = {c} /\ ~op'[a].lost
         /\ op'[a].list = op[a].list /\ op'[a].done = op[a].done
         /\ op'[a].todo # <<>> /\ Head(op'[a].todo) = c
<1>1. <<c>> \in Seq(Calls) /\ TypeOK
  BY DEF Base
<1>2. /\ OneMoves(a) /\ SameCommand(op[a], op'[a]) /\ op'[a] \in Ops /\ op'[a].todo = <<c>>
      /\ op'[a].lost = op[a].lost /\ op'[a].list = op[a].list /\ op'[a].done = op[a].done
      /\ op'[a].shown = op[a].shown
  BY <1>1, ThenMoves
<1>3. /\ ~op[a].lost /\ (op[a].kind = "activate" => op[a].key \in Keys)
      /\ IsFiniteSet(op[a].shown) /\ OpMinted(op[a], minted)
  BY Known DEF OpOK, Now
<1>4. CallOK(op'[a], c)
  BY <1>2 DEF CallOK, SameCommand
<1>5. OpOK(op'[a]) /\ CallsOf(op'[a]) = {c} /\ Head(op'[a].todo) = c
  BY <1>2, <1>3, <1>4, OneCall DEF SameCommand
<1>6. OpMinted(op'[a], minted)
  BY <1>2, <1>3, <1>5 DEF OpMinted, SameCommand
<1> QED
  BY <1>2, <1>3, <1>5, <1>6

\* The first call is made and nothing else changes in the operation.
LEMMA ThenRest ==
  ASSUME Base, NEW a \in Actors, op[a].todo # <<>>, Then(a, Rest(a)),
         Now(a).step \notin {"row", "release", "forget"}
  PROVE  /\ OneMoves(a) /\ SameCommand(op[a], op'[a]) /\ OpOK(op'[a])
         /\ OpMinted(op'[a], minted) /\ IsFiniteSet(op'[a].shown) /\ ~op'[a].lost
         /\ op'[a].list = op[a].list /\ op'[a].done = op[a].done
         /\ CallsOf(op'[a]) \subseteq CallsOf(op[a])
         /\ CallsOf(op[a]) \subseteq CallsOf(op'[a]) \cup {Now(a)}
         /\ op'[a].todo # <<>> => <<Now(a).step, Head(op'[a].todo).step>> \in Follows
<1>1. /\ op[a] \in Ops /\ OpOK(op[a]) /\ OpMinted(op[a], minted)
      /\ IsFiniteSet(op[a].shown) /\ ~op[a].lost
  BY Known DEF OpOK, Now
<1>2. Rest(a) \in Seq(Calls) /\ TypeOK
  BY <1>1, Fields, HeadAndTail DEF Rest, Base
<1>3. /\ OneMoves(a) /\ SameCommand(op[a], op'[a]) /\ op'[a] \in Ops
      /\ op'[a].todo = Tail(op[a].todo)
      /\ op'[a].lost = op[a].lost /\ op'[a].list = op[a].list /\ op'[a].done = op[a].done
      /\ op'[a].shown = op[a].shown
  BY <1>2, ThenMoves DEF Rest
<1>4. /\ OpOK(op'[a]) /\ CallsOf(op'[a]) \subseteq CallsOf(op[a])
      /\ CallsOf(op[a]) \subseteq CallsOf(op'[a]) \cup {Now(a)}
      /\ op'[a].todo # <<>> => <<Now(a).step, Head(op'[a].todo).step>> \in Follows
  BY <1>1, <1>3, Dropped DEF Now
<1>5. OpMinted(op'[a], minted)
  BY <1>1, <1>3, <1>4 DEF OpMinted, SameCommand
<1> QED
  BY <1>1, <1>3, <1>4, <1>5

\* The operation is over.
LEMMA Finished ==
  ASSUME Base, NEW a \in Actors, Finish(a), minted' \in Nat
  PROVE  /\ OneMoves(a) /\ op'[a] = Resting /\ OpOK(op'[a]) /\ OpMinted(op'[a], minted')
         /\ IsFiniteSet(op'[a].shown) /\ CallsOf(op'[a]) = {} /\ op'[a].todo = <<>>
<1>1. OneMoves(a) /\ op'[a] = Resting
  BY FinishMoves DEF Base
<1>2. OpMinted(Resting, minted')
  BY RestingOK DEF OpMinted
<1> QED
  BY <1>1, <1>2, RestingOK, FS_EmptySet

\* The first call gets another name.
LEMMA Renamed ==
  ASSUME Base, NEW a \in Actors, NEW step \in Steps \ {"release", "key", "row"},
         op[a].todo # <<>>, Now(a).step \notin {"release", "forget", "row"},
         op' = [op EXCEPT ![a].todo[1].step = step],
         \A x : <<Now(a).step, x>> \in Follows => <<step, x>> \in Follows,
         CallOK(op[a], Call(step, Now(a).key, Now(a).id))
  PROVE  /\ OneMoves(a) /\ SameCommand(op[a], op'[a]) /\ OpOK(op'[a])
         /\ OpMinted(op'[a], minted) /\ IsFiniteSet(op'[a].shown) /\ ~op'[a].lost
         /\ op'[a].list = op[a].list /\ op'[a].done = op[a].done
         /\ CallsOf(op'[a]) \subseteq CallsOf(op[a]) \cup {Call(step, Now(a).key, Now(a).id)}
         /\ CallsOf(op[a]) \subseteq CallsOf(op'[a]) \cup {Now(a)}
         /\ op'[a].todo # <<>> /\ Head(op'[a].todo) = Call(step, Now(a).key, Now(a).id)
         /\ Head(op'[a].todo) \in CallsOf(op'[a])
<1> DEFINE o == op[a]
           t == o.todo
           u == [t EXCEPT ![1].step = step]
           c == Call(step, Now(a).key, Now(a).id)
<1>1. /\ o \in Ops /\ OpOK(o) /\ OpMinted(o, minted) /\ Now(a).id <= minted
      /\ IsFiniteSet(o.shown) /\ ~o.lost /\ t \in Seq(Calls) /\ TypeOK
      /\ Ordered(t) /\ Now(a) = t[1]
  BY Known, Fields DEF OpOK, Now, Base
<1>2. /\ u \in Seq(Calls) /\ u # <<>> /\ Head(u) = u[1] /\ DOMAIN u = DOMAIN t /\ u[1] = c
      /\ \A n \in DOMAIN t : n # 1 => u[n] = t[n]
      /\ 1 \in DOMAIN t /\ DOMAIN t = 1..Len(t)
  BY <1>1, Front, HeadAndTail DEF Now
<1>3. Then(a, u)
  BY <1>1 DEF Then, TypeOK
<1> HIDE DEF u
<1>4. /\ OneMoves(a) /\ SameCommand(o, op'[a]) /\ op'[a] \in Ops /\ op'[a].todo = u
      /\ op'[a].lost = o.lost /\ op'[a].list = o.list /\ op'[a].done = o.done
      /\ op'[a].shown = o.shown
  BY <1>1, <1>2, <1>3, ThenMoves
<1>5. c.step = step /\ c.key = Now(a).key /\ c.id = Now(a).id
  BY DEF Call
<1>6. Ordered(u)
  <2>1. ASSUME NEW n \in DOMAIN u, n + 1 \in DOMAIN u
        PROVE  <<u[n].step, u[n + 1].step>> \in Follows
    <3>1. <<t[n].step, t[n + 1].step>> \in Follows /\ u[n + 1] = t[n + 1]
      BY <1>1, <1>2, <2>1 DEF Ordered
    <3>2. CASE n = 1
      BY <1>1, <1>2, <1>5, <3>1, <3>2
    <3>3. CASE n # 1
      BY <1>2, <3>1, <3>3
    <3> QED
      BY <3>2, <3>3
  <2>2. ASSUME NEW n \in DOMAIN u, u[n].step = "release" PROVE Paired(u, n)
    <3>1. n # 1 /\ u[n] = t[n]
      BY <1>2, <1>5, <2>2
    <3>2. Paired(t, n)
      BY <1>1, <1>2, <2>2, <3>1 DEF Ordered
    <3>3. n + 1 # 1
      BY <1>2, <3>1
    <3> QED
      BY <1>2, <3>1, <3>2, <3>3 DEF Paired
  <2> QED
    BY <2>1, <2>2 DEF Ordered
<1>7. /\ CallsOf(op'[a]) \subseteq CallsOf(o) \cup {c}
      /\ CallsOf(o) \subseteq CallsOf(op'[a]) \cup {Now(a)}
      /\ c \in CallsOf(op'[a])
  <2>1. CallsOf(op'[a]) = {u[n] : n \in DOMAIN t}
    BY <1>2, <1>4 DEF CallsOf
  <2>2. CallsOf(o) = {t[n] : n \in DOMAIN t}
    BY DEF CallsOf
  <2>3. \A n \in DOMAIN t : u[n] \in {c, t[n]} /\ t[n] \in {Now(a), u[n]}
    BY <1>1, <1>2
  <2>4. \A n \in DOMAIN t : u[n] \in CallsOf(o) \cup {c}
    BY <2>2, <2>3
  <2>5. \A n \in DOMAIN t : t[n] \in CallsOf(op'[a]) \cup {Now(a)}
    BY <2>1, <2>3
  <2>6. c \in CallsOf(op'[a])
    BY <1>2, <2>1
  <2> QED
    BY <2>1, <2>2, <2>4, <2>5, <2>6
<1>8. \A d \in CallsOf(op'[a]) : CallOK(op'[a], d)
  <2> SUFFICES ASSUME NEW d \in CallsOf(op'[a]) PROVE CallOK(op'[a], d)
    OBVIOUS
  <2>1. CallOK(o, d)
    BY <1>1, <1>7 DEF OpOK
  <2>2. t[1].step # "row" /\ u[1].step # "row"
    BY <1>1, <1>2, <1>5
  <2>3. d.step # "row"
    <3>1. <<Call("row", o.key, 0), Call("key", o.key, 0)>>[1].step = "row"
      BY DEF Call
    <3>2. d = c \/ CallOK(o, d)
      BY <1>1, <1>7 DEF OpOK
    <3> QED
      BY <1>5, <2>2, <3>1, <3>2 DEF CallOK
  <2> QED
    BY <1>4, <2>1, <2>2, <2>3 DEF CallOK, SameCommand
<1>9. OpOK(op'[a])
  BY <1>1, <1>4, <1>6, <1>8 DEF OpOK, SameCommand
<1>10. OpMinted(op'[a], minted)
  BY <1>1, <1>4, <1>5, <1>7 DEF OpMinted, SameCommand
<1> QED
  BY <1>1, <1>2, <1>4, <1>7, <1>9, <1>10

\* A step that holds no lock before or after.
Locking == {"save", "unkey", "forget", "check", "obtain"}

LEMMA LockFree ==
  ASSUME Base, NEW a \in Actors, OneMoves(a), Stored', IsFiniteSet(creds'), StoredMinted',
         IsFiniteSet(op'[a].shown), OpOK(op'[a]), OpMinted(op'[a], minted'),
         minted <= minted', UNCHANGED <<row, key, mutation, credential>>,
         op[a].todo = <<>> \/ Now(a).step \notin Locking,
         mutation # a,
         op'[a].todo = <<>> \/ Head(op'[a].todo).step \notin Locking
  PROVE  Base'
<1>1. HolderOK(a)
  BY DEF Base
<1>2. credential # a
  BY <1>1 DEF HolderOK, Doing, Now, Locking
<1>3. \A step \in Locking : ~Doing(a, step)'
  BY DEF Doing
<1>4. HolderOK(a)'
  BY <1>2, <1>3 DEF HolderOK, Locking
<1>5. mutation' = NoOne /\ row' # 0 => key' \in Keys
  BY DEF Base
<1> QED
  BY <1>4, <1>5, Kept

\* Only who saves, deletes the key or records may hold LICENSE_MUTATION.
LEMMA NotHolding ==
  ASSUME Base, NEW a \in Actors,
         op[a].todo = <<>> \/ Now(a).step \notin {"save", "unkey", "record"}
  PROVE  mutation # a
BY DEF Base, HolderOK, Doing, Now

-----------------------------------------------------------------------------
(* The commands' steps.                                                    *)

LEMMA TwoCalls ==
  ASSUME NEW u \in Ops, NEW c \in Calls, NEW d \in Calls, u.todo = <<c, d>>,
         <<c.step, d.step>> \in Follows, c.step # "release", d.step # "release",
         CallOK(u, c), CallOK(u, d), u.kind = "activate" => u.key \in Keys, ~u.lost
  PROVE  OpOK(u) /\ CallsOf(u) = {c, d} /\ u.todo # <<>> /\ Head(u.todo) = c
<1>1. DOMAIN u.todo = {1, 2} /\ u.todo[1] = c /\ u.todo[2] = d /\ Head(u.todo) = c
      /\ u.todo # <<>>
  OBVIOUS
<1>2. Ordered(u.todo)
  BY <1>1 DEF Ordered
<1>3. CallsOf(u) = {c, d}
  BY <1>1 DEF CallsOf
<1> QED
  BY <1>1, <1>2, <1>3 DEF OpOK

LEMMA StoredStays ==
  ASSUME Base, UNCHANGED <<local, secrets, locks, service, learned, abandoned, minted>>,
         faults' \in 0..MaxFaults
  PROVE  /\ Stored' /\ IsFiniteSet(creds') /\ StoredMinted' /\ minted' = minted
         /\ minted' <= minted /\ minted <= minted'
         /\ UNCHANGED <<row, key, mutation, credential, owed, abandoned, seats, creds, learned>>
BY Numbers DEF Base, TypeOK, Finite, Stored, StoredMinted, local, secrets, locks, service

\* A command that begins.
Begun(u, kind, k) ==
  /\ u \in Ops /\ u.kind = kind /\ u.key = k
  /\ u.todo = <<Call("row", k, 0), Call("key", k, 0)>>
  /\ u.id = 0 /\ u.oldId = 0 /\ ~u.retried /\ ~u.lost
  /\ u.list = {} /\ u.done = {} /\ u.shown = {}

LEMMA Begins ==
  ASSUME Base, NEW a \in Actors, NEW kind \in {"activate", "deactivate"},
         NEW k \in Keys \cup {NoKey}, kind = "activate" => k \in Keys,
         op[a] = Resting, NEW u, Begun(u, kind, k), op' = [op EXCEPT ![a] = u],
         UNCHANGED <<local, secrets, locks, service, learned, abandoned, minted, faults>>
  PROVE  /\ Base' /\ OneMoves(a)
         /\ CallsOf(op'[a]) = {Call("row", k, 0), Call("key", k, 0)}
         /\ op'[a].todo # <<>> /\ Head(op'[a].todo).step = "row"
         /\ ~op'[a].retried /\ op'[a].id = 0 /\ op'[a].done = {}
<1> DEFINE c == Call("row", k, 0)
           d == Call("key", k, 0)
<1>1. /\ c \in Calls /\ d \in Calls /\ c.step = "row" /\ d.step = "key"
      /\ c.id = 0 /\ d.id = 0
  BY DEF Call, Calls, Steps
<1>3. /\ u \in Ops /\ u.todo = <<c, d>> /\ u.kind = kind /\ u.key = k /\ u.id = 0
      /\ u.oldId = 0 /\ ~u.retried /\ ~u.lost /\ u.list = {} /\ u.done = {} /\ u.shown = {}
  BY DEF Begun
<1>5. u.todo[1] = c /\ u.todo = <<Call("row", u.key, 0), Call("key", u.key, 0)>>
  BY <1>3
<1> HIDE DEF c, d
<1>6. OneMoves(a) /\ op'[a] = u
  BY <1>3, Becomes DEF Base
<1>7. CallOK(u, c) /\ CallOK(u, d)
  BY <1>1, <1>3, <1>5 DEF CallOK, Naming
<1>8. <<c.step, d.step>> \in Follows
  BY <1>1 DEF Follows
<1>9. OpOK(u) /\ CallsOf(u) = {c, d} /\ u.todo # <<>> /\ Head(u.todo) = c
  BY <1>1, <1>3, <1>7, <1>8, TwoCalls
<1>10. OpMinted(u, minted)
  BY <1>1, <1>3, <1>9, Known DEF OpMinted
<1>11. mutation # a
  BY RestingOK, NotHolding
<1>12. Base'
  <2>1. Stored' /\ IsFiniteSet(creds') /\ StoredMinted' /\ minted' = minted /\ minted <= minted'
        /\ UNCHANGED <<row, key, mutation, credential>>
    BY StoredStays DEF Base, TypeOK
  <2>2. IsFiniteSet(u.shown)
    BY <1>3, FS_EmptySet
  <2>3. op[a].todo = <<>> /\ Head(u.todo).step \notin Locking
    BY <1>1, <1>9, RestingOK DEF Locking
  <2> QED
    BY <1>6, <1>9, <1>10, <1>11, <2>1, <2>2, <2>3, LockFree
<1> QED
  BY <1>1, <1>3, <1>6, <1>9, <1>12 DEF c, d

LEMMA StartActivationBase ==
  ASSUME Base, NEW a \in Commands, NEW k \in Keys, StartActivation(a, k)
  PROVE  /\ Base' /\ OneMoves(a)
         /\ CallsOf(op'[a]) = {Call("row", k, 0), Call("key", k, 0)}
         /\ op'[a].todo # <<>> /\ Head(op'[a].todo).step = "row"
         /\ ~op'[a].retried /\ op'[a].id = 0 /\ op'[a].done = {}
<1> DEFINE t == <<Call("row", k, 0), Call("key", k, 0)>>
           u == [Resting EXCEPT !.kind = "activate", !.key = k, !.todo = t]
<1>1. a \in Actors /\ t \in Seq(Calls)
  BY DEF Actors, Call, Calls, Steps
<1>2. op' = [op EXCEPT ![a] = u]
  BY DEF StartActivation
<1> HIDE DEF t
<1>3. Begun(u, "activate", k)
  <2>1. u.todo = t
    BY DEF Resting
  <2> QED
    BY <1>1, <2>1, RestingOK DEF Ops, Resting, Begun, t
<1> HIDE DEF u
<1> QED
  BY <1>1, <1>2, <1>3, Begins DEF StartActivation

LEMMA StartDeactivationBase ==
  ASSUME Base, NEW a \in Commands, StartDeactivation(a)
  PROVE  /\ Base' /\ OneMoves(a)
         /\ CallsOf(op'[a]) = {Call("row", NoKey, 0), Call("key", NoKey, 0)}
         /\ op'[a].todo # <<>> /\ Head(op'[a].todo).step = "row"
         /\ ~op'[a].retried /\ op'[a].id = 0 /\ op'[a].done = {}
<1> DEFINE t == <<Call("row", NoKey, 0), Call("key", NoKey, 0)>>
           u == [Resting EXCEPT !.kind = "deactivate", !.todo = t]
<1>1. a \in Actors /\ t \in Seq(Calls)
  BY DEF Actors, Call, Calls, Steps
<1>2. op' = [op EXCEPT ![a] = u]
  BY DEF StartDeactivation
<1> HIDE DEF t
<1>3. Begun(u, "deactivate", NoKey)
  <2>1. u.todo = t
    BY DEF Resting
  <2> QED
    BY <1>1, <2>1, RestingOK DEF Ops, Resting, Begun, t
<1> HIDE DEF u
<1> QED
  BY <1>1, <1>2, <1>3, Begins DEF StartDeactivation

LEMMA ReadRowBase ==
  ASSUME Base, NEW a \in Actors, ReadRow(a)
  PROVE  /\ Base' /\ OneMoves(a)
         /\ op'[a].todo = <<>> \/ op'[a].todo = <<Call("key", op[a].key, 0)>>
         /\ CallsOf(op'[a]) \subseteq {Call("key", op[a].key, 0)}
         /\ CallsOf(op[a]) = {Call("row", op[a].key, 0), Call("key", op[a].key, 0)}
         /\ ~op'[a].retried /\ op'[a].id = 0 /\ op'[a].done \subseteq op[a].done
         /\ Now(a).step = "row" /\ op[a].todo # <<>>
<1> DEFINE o == op[a]
           c == Call("row", o.key, 0)
           d == Call("key", o.key, 0)
<1>1. /\ o \in Ops /\ OpOK(o) /\ OpMinted(o, minted) /\ IsFiniteSet(o.shown) /\ row \in Nat
      /\ o.todo # <<>> /\ Now(a).step = "row" /\ CallOK(o, Now(a)) /\ ~o.lost /\ TypeOK
  BY Known DEF ReadRow, Doing, Now, OpOK, Base
<1>2. o.todo = <<c, d>> /\ o.kind \in {"activate", "deactivate"} /\ ~o.retried /\ o.id = 0
  BY <1>1 DEF CallOK
<1>3. /\ c \in Calls /\ d \in Calls /\ c.step = "row" /\ d.step = "key" /\ d.id = 0
  BY <1>1 DEF Call, Calls, Steps, Ops
<1>4. Rest(a) = <<d>> /\ CallsOf(o) = {c, d} /\ <<d>> \in Seq(Calls)
  BY <1>2, <1>3 DEF Rest, CallsOf
<1>5. /\ Stored' /\ IsFiniteSet(creds') /\ StoredMinted' /\ minted' = minted /\ minted \in Nat
      /\ UNCHANGED <<row, key, mutation, credential>> /\ minted <= minted'
  BY StoredStays, Known DEF ReadRow, bounds, Base, TypeOK
<1>6. mutation # a
  BY <1>1, NotHolding
<1>7. CASE op[a].kind = "deactivate" /\ row = 0
  <2>1. Finish(a)
    BY <1>7 DEF ReadRow
  <2>2. /\ OneMoves(a) /\ op'[a] = Resting /\ OpOK(op'[a]) /\ OpMinted(op'[a], minted')
        /\ IsFiniteSet(op'[a].shown) /\ CallsOf(op'[a]) = {} /\ op'[a].todo = <<>>
    BY <1>5, <2>1, Finished
  <2>3. Base'
    BY <1>1, <1>5, <1>6, <2>2, LockFree DEF Locking
  <2>4. Resting.id = 0 /\ ~Resting.retried /\ Resting.done = {}
    BY DEF Resting
  <2> QED
    BY <1>1, <1>4, <2>2, <2>3, <2>4
<1>8. CASE ~(op[a].kind = "deactivate" /\ row = 0)
  <2> DEFINE w == row # 0 /\ entitled
             u == [o EXCEPT !.todo = <<d>>, !.oldId = row, !.wasEntitled = w]
  <2>0. w \in BOOLEAN /\ row \in {0} \cup Instances
    BY <1>1 DEF TypeOK
  <2> HIDE DEF w
  <2>1. /\ u \in Ops /\ u.todo = <<d>> /\ u.kind = o.kind /\ u.key = o.key /\ u.id = 0
        /\ u.oldId = row /\ ~u.retried /\ ~u.lost /\ u.list = o.list /\ u.done = o.done
        /\ u.shown = o.shown
    BY <1>1, <1>2, <1>4, <2>0 DEF Ops
  <2>2. op' = [op EXCEPT ![a] = u]
    BY <1>4, <1>8 DEF ReadRow, w
  <2> HIDE DEF u
  <2>3. OneMoves(a) /\ op'[a] = u
    BY <1>1, <2>1, <2>2, Becomes
  <2>4. CallOK(u, d)
    BY <1>2, <1>3, <1>8, <2>1 DEF CallOK, Naming
  <2>5. OpOK(u) /\ CallsOf(u) = {d} /\ Head(u.todo) = d
    BY <1>1, <1>3, <2>1, <2>4, OneCall DEF OpOK
  <2>6. OpMinted(u, minted)
    BY <1>1, <1>3, <1>5, <2>1, <2>5 DEF OpMinted, Base, StoredMinted
  <2>7. Base'
    BY <1>1, <1>3, <1>5, <1>6, <2>1, <2>3, <2>5, <2>6, LockFree DEF Locking
  <2> QED
    BY <1>1, <1>4, <2>1, <2>3, <2>5, <2>7
<1> QED
  BY <1>7, <1>8

LEMMA ReadKeyBase ==
  ASSUME Base, NEW a \in Actors, ReadKey(a)
  PROVE  /\ Base' /\ OneMoves(a)
         /\ CallsOf(op[a]) = {Now(a)} /\ Now(a).step = "key" /\ op[a].todo # <<>>
         /\ \A c \in CallsOf(op'[a]) : c.step \in {"clear", "ensure", "confirm", "mint"}
         /\ op'[a].todo # <<>>
         /\ Head(op'[a].todo).step \in {"clear", "ensure", "confirm", "mint"}
         /\ ~op'[a].retried /\ op'[a].id = 0 /\ op'[a].done = op[a].done
<1> DEFINE o == op[a]
           k == o.key
           old == o.oldId
           installed == old # 0 /\ key # NoKey
           calls == IF o.kind = "deactivate" THEN <<Call("clear", key, old)>>
                    ELSE IF installed /\ key = k /\ o.wasEntitled THEN <<Call("ensure", k, old)>>
                    ELSE IF installed /\ o.wasEntitled
                      THEN <<Call("confirm", k, 0), Call("mint", k, 0)>>
                    ELSE <<Call("mint", k, 0)>>
           u == [o EXCEPT !.oldKey = key, !.todo = calls]
<1>1. /\ o \in Ops /\ OpOK(o) /\ OpMinted(o, minted) /\ IsFiniteSet(o.shown)
      /\ o.todo # <<>> /\ Now(a).step = "key" /\ CallOK(o, Now(a)) /\ ~o.lost /\ TypeOK
  BY Known DEF ReadKey, Doing, Now, OpOK, Base
<1>2. /\ CallsOf(o) = {Now(a)} /\ o.kind \in {"activate", "deactivate"}
      /\ ~o.retried /\ o.id = 0
  BY <1>1, Alone DEF CallOK, Now, Ending
<1>3. o.kind = "deactivate" => old # 0
  <2>1. o.todo[1].step = "key"
    BY <1>1, Fields DEF Now
  <2> QED
    BY <1>1, <2>1 DEF CallOK
<1>4. /\ o.kind = "activate" => k \in Keys
      /\ key \in Keys \cup {NoKey} /\ k \in Keys \cup {NoKey} /\ old \in {0} \cup Instances
      /\ old <= minted /\ 0 <= minted
  BY <1>1, Known, Fields DEF OpOK, TypeOK, OpMinted
<1>5. /\ Call("clear", key, old) \in Calls /\ Call("ensure", k, old) \in Calls
      /\ Call("confirm", k, 0) \in Calls /\ Call("mint", k, 0) \in Calls
  BY <1>4 DEF Call, Calls, Steps
<1>6. calls \in Seq(Calls)
  BY <1>5
<1>7. op' = [op EXCEPT ![a] = u]
  BY DEF ReadKey
<1> HIDE DEF calls
<1>8. /\ u \in Ops /\ u.todo = calls /\ u.kind = o.kind /\ u.key = k /\ u.id = 0
      /\ u.oldId = old /\ u.oldKey = key /\ ~u.retried /\ ~u.lost
      /\ u.list = o.list /\ u.done = o.done /\ u.shown = o.shown
  BY <1>1, <1>2, <1>4, <1>6 DEF Ops
<1> HIDE DEF u
<1>9. OneMoves(a) /\ op'[a] = u
  BY <1>1, <1>7, <1>8, Becomes
<1>10. /\ OpOK(u) /\ u.todo # <<>>
       /\ \A c \in CallsOf(u) : /\ c.step \in {"clear", "ensure", "confirm", "mint"}
                               /\ c.id <= minted
       /\ Head(u.todo).step \in {"clear", "ensure", "confirm", "mint"}
  <2>1. CASE o.kind = "deactivate"
    <3>1. u.todo = <<Call("clear", key, old)>>
      BY <1>8, <2>1 DEF calls
    <3>2. CallOK(u, Call("clear", key, old)) /\ Call("clear", key, old).step = "clear"
          /\ Call("clear", key, old).id = old
      BY <1>3, <1>8, <2>1 DEF CallOK, Call, Naming
    <3>3. OpOK(u) /\ CallsOf(u) = {Call("clear", key, old)} /\ Head(u.todo) = Call("clear", key, old)
      BY <1>5, <1>8, <2>1, <3>1, <3>2, OneCall
    <3> QED
      BY <1>4, <3>1, <3>2, <3>3
  <2>2. CASE o.kind # "deactivate" /\ installed /\ key = k /\ o.wasEntitled
    <3>1. u.todo = <<Call("ensure", k, old)>>
      BY <1>8, <2>2 DEF calls
    <3>2. CallOK(u, Call("ensure", k, old)) /\ Call("ensure", k, old).step = "ensure"
          /\ Call("ensure", k, old).id = old
      BY <1>2, <1>4, <1>8, <2>2 DEF CallOK, Call, Naming
    <3>3. OpOK(u) /\ CallsOf(u) = {Call("ensure", k, old)} /\ Head(u.todo) = Call("ensure", k, old)
      BY <1>4, <1>5, <1>8, <3>1, <3>2, OneCall
    <3> QED
      BY <1>4, <3>1, <3>2, <3>3
  <2>3. CASE o.kind # "deactivate" /\ ~(installed /\ key = k /\ o.wasEntitled)
             /\ installed /\ o.wasEntitled
    <3> DEFINE c == Call("confirm", k, 0)
               d == Call("mint", k, 0)
    <3>1. u.todo = <<c, d>>
      BY <1>8, <2>3 DEF calls
    <3>2. /\ CallOK(u, c) /\ CallOK(u, d) /\ c.step = "confirm" /\ d.step = "mint"
          /\ c.id = 0 /\ d.id = 0
      BY <1>2, <1>8, <2>3 DEF CallOK, Call, Naming
    <3>3. <<c.step, d.step>> \in Follows
      BY <3>2 DEF Follows
    <3> HIDE DEF c, d
    <3>4. OpOK(u) /\ CallsOf(u) = {c, d} /\ u.todo # <<>> /\ Head(u.todo) = c
      BY <1>4, <1>5, <1>8, <3>1, <3>2, <3>3, TwoCalls DEF c, d
    <3> QED
      BY <1>4, <3>2, <3>4
  <2>4. CASE o.kind # "deactivate" /\ ~(installed /\ o.wasEntitled)
    <3>1. u.todo = <<Call("mint", k, 0)>>
      BY <1>8, <2>4 DEF calls
    <3>2. CallOK(u, Call("mint", k, 0)) /\ Call("mint", k, 0).step = "mint"
          /\ Call("mint", k, 0).id = 0
      BY <1>2, <1>8, <2>4 DEF CallOK, Call, Naming
    <3>3. OpOK(u) /\ CallsOf(u) = {Call("mint", k, 0)} /\ Head(u.todo) = Call("mint", k, 0)
      BY <1>4, <1>5, <1>8, <3>1, <3>2, OneCall
    <3> QED
      BY <1>4, <3>1, <3>2, <3>3
  <2> QED
    BY <2>1, <2>2, <2>3, <2>4
<1>11. OpMinted(u, minted)
  BY <1>1, <1>4, <1>8, <1>10 DEF OpMinted
<1>12. Base'
  <2>1. Stored' /\ IsFiniteSet(creds') /\ StoredMinted' /\ minted' = minted /\ minted <= minted'
        /\ UNCHANGED <<row, key, mutation, credential>>
    BY <1>1, StoredStays DEF ReadKey, bounds, TypeOK
  <2>2. mutation # a
    BY <1>1, NotHolding
  <2> QED
    BY <1>1, <1>8, <1>9, <1>10, <1>11, <2>1, <2>2, LockFree DEF Locking
<1> QED
  BY <1>1, <1>2, <1>8, <1>9, <1>10, <1>12

LEMMA ConfirmBase ==
  ASSUME Base, NEW a \in Actors, Confirm(a)
  PROVE  /\ Base' /\ OneMoves(a)
         /\ Now(a).step = "confirm" /\ op[a].todo # <<>>
         /\ \A c \in CallsOf(op[a]) : c.step \in {"confirm", "mint"}
         /\ CallsOf(op'[a]) \subseteq CallsOf(op[a])
         /\ op'[a].todo # <<>> => Head(op'[a].todo).step = "mint"
         /\ ~op'[a].retried /\ op'[a].id = 0 /\ op'[a].done \subseteq op[a].done
<1>1. /\ op[a] \in Ops /\ OpOK(op[a]) /\ op[a].todo # <<>> /\ Now(a).step = "confirm"
      /\ CallOK(op[a], Now(a)) /\ op[a].todo \in Seq(Calls) /\ Now(a) = op[a].todo[1]
      /\ Ordered(op[a].todo) /\ ~op[a].retried /\ op[a].id = 0
  BY Known, Fields DEF Confirm, Doing, Now, OpOK, CallOK
<1>2. \A c \in CallsOf(op[a]) : c.step \in {"confirm", "mint"}
  <2> DEFINE t == op[a].todo
  <2>1. DOMAIN t = 1..Len(t) /\ Len(t) \in Nat
    BY <1>1, LenProperties
  <2>2. ASSUME NEW n \in DOMAIN t, n + 1 \in DOMAIN t, t[n].step = "confirm"
        PROVE  t[n + 1].step = "mint" /\ n + 2 \notin DOMAIN t
    <3>1. <<t[n].step, t[n + 1].step>> \in Follows
      BY <1>1, <2>2 DEF Ordered
    <3>2. t[n + 1].step = "mint"
      BY <2>2, <3>1 DEF Follows
    <3>3. ASSUME (n + 1) + 1 \in DOMAIN t PROVE FALSE
      <4>1. <<t[n + 1].step, t[(n + 1) + 1].step>> \in Follows
        BY <1>1, <2>2, <3>3 DEF Ordered
      <4> QED
        BY <3>2, <4>1 DEF Follows
    <3>4. n + 2 = (n + 1) + 1
      BY <2>1
    <3> QED
      BY <3>2, <3>3, <3>4
  <2>3. ASSUME NEW n \in DOMAIN t PROVE t[n].step \in {"confirm", "mint"}
    <3>1. 1 \in DOMAIN t /\ (2 \in DOMAIN t => t[2].step = "mint" /\ 3 \notin DOMAIN t)
      BY <1>1, <2>1, <2>2
    <3>2. n = 1 \/ n = 2
      BY <2>1, <2>3, <3>1
    <3> QED
      BY <1>1, <2>3, <3>1, <3>2
  <2> QED
    BY <2>3 DEF CallsOf
<1>3. Stored' /\ IsFiniteSet(creds') /\ StoredMinted' /\ minted' = minted /\ minted <= minted'
      /\ UNCHANGED <<row, key, mutation, credential>> /\ minted' \in Nat
  BY StoredStays, Known DEF Confirm, bounds, Base, TypeOK
<1>4. mutation # a
  BY <1>1, NotHolding
<1>5. CASE Then(a, Rest(a))
  <2>1. /\ OneMoves(a) /\ SameCommand(op[a], op'[a]) /\ OpOK(op'[a])
        /\ OpMinted(op'[a], minted) /\ IsFiniteSet(op'[a].shown) /\ op'[a].done = op[a].done
        /\ CallsOf(op'[a]) \subseteq CallsOf(op[a])
        /\ op'[a].todo # <<>> => <<Now(a).step, Head(op'[a].todo).step>> \in Follows
    BY <1>1, <1>5, ThenRest
  <2>2. op'[a].todo # <<>> => Head(op'[a].todo).step = "mint"
    BY <1>1, <2>1 DEF Follows
  <2>3. Base'
    BY <1>1, <1>3, <1>4, <2>1, <2>2, LockFree DEF Locking
  <2> QED
    BY <1>1, <1>2, <2>1, <2>2, <2>3 DEF SameCommand
<1>6. CASE Finish(a)
  <2>1. /\ OneMoves(a) /\ op'[a] = Resting /\ OpOK(op'[a]) /\ OpMinted(op'[a], minted')
        /\ IsFiniteSet(op'[a].shown) /\ CallsOf(op'[a]) = {} /\ op'[a].todo = <<>>
    BY <1>3, <1>6, Finished
  <2>2. Base'
    BY <1>1, <1>3, <1>4, <2>1, LockFree DEF Locking
  <2>3. Resting.id = 0 /\ ~Resting.retried /\ Resting.done = {}
    BY DEF Resting
  <2> QED
    BY <1>1, <1>2, <2>1, <2>2, <2>3
<1> QED
  BY <1>5, <1>6 DEF Confirm

\* The key under which a predecessor is released.
OldKey(a) == IF Teardown(a) THEN op[a].oldKey ELSE op[a].key

Minting(a, i) ==
  Predecessor(a) \o (IF Teardown(a) THEN <<>> ELSE <<Call("untoken", op[a].key, i)>>)
                 \o <<Call("persist", op[a].key, i)>>

LEMMA MintCalls ==
  ASSUME Base, NEW a \in Actors, NEW i \in Instances, op[a].key \in Keys
  PROVE  /\ Minting(a, i) \in Seq(Calls) /\ Ordered(Minting(a, i)) /\ Minting(a, i) # <<>>
         /\ Head(Minting(a, i)).step \in {"release", "untoken", "persist"}
         /\ SetOf(Minting(a, i)) =
              {Call("persist", op[a].key, i)}
              \cup (IF Teardown(a) THEN {} ELSE {Call("untoken", op[a].key, i)})
              \cup (IF op[a].oldId = 0 THEN {}
                    ELSE {Call("release", OldKey(a), op[a].oldId),
                          Call("forget", OldKey(a), op[a].oldId)}
                         \cup (IF op[a].retried THEN {}
                               ELSE {Call("seat", OldKey(a), op[a].oldId)}))
<1> DEFINE k == op[a].key
           old == op[a].oldId
           pk == OldKey(a)
           p == Call("persist", k, i)
           u == Call("untoken", k, i)
           s == Call("seat", pk, old)
           f == Call("forget", pk, old)
           r == Call("release", pk, old)
           U == IF Teardown(a) THEN <<>> ELSE <<u>>
           S == IF op[a].retried THEN <<>> ELSE <<s>>
           T == U \o <<p>>
           V == S \o T
<1>1. old \in {0} \cup Instances /\ op[a].oldKey \in Keys \cup {NoKey} /\ pk \in Keys
  BY Known, Fields DEF OldKey, Teardown
<1>2. /\ p \in Calls /\ u \in Calls /\ s \in Calls /\ f \in Calls /\ r \in Calls
      /\ p.step = "persist" /\ u.step = "untoken" /\ s.step = "seat" /\ f.step = "forget"
  BY <1>1 DEF Call, Calls, Steps
<1>3. /\ Ordered(<<p>>) /\ SetOf(<<p>>) = {p} /\ <<p>> \in Seq(Calls) /\ <<p>> # <<>>
      /\ Head(<<p>>) = p
  <2>1. <<p>> \in Seq(Calls) /\ DOMAIN <<p>> = {1} /\ <<p>>[1] = p /\ <<p>> # <<>> /\ Head(<<p>>) = p
    BY <1>2
  <2> QED
    BY <1>2, <2>1 DEF Ordered, SetOf
<1> HIDE DEF p, u, s
<1>4. /\ T \in Seq(Calls) /\ Ordered(T) /\ T # <<>> /\ Head(T).step \in {"untoken", "persist"}
      /\ SetOf(T) = {p} \cup (IF Teardown(a) THEN {} ELSE {u})
  <2>1. CASE Teardown(a)
    <3>1. T = <<p>>
      BY <1>3, <2>1, ConcatEmptySeq
    <3> QED
      BY <1>2, <1>3, <2>1, <3>1
  <2>2. CASE ~Teardown(a)
    <3>1. T = <<u>> \o <<p>>
      BY <2>2
    <3>2. <<u.step, Head(<<p>>).step>> \in Follows
      BY <1>2, <1>3 DEF Follows
    <3>3. /\ <<u>> \o <<p>> \in Seq(Calls) /\ Ordered(<<u>> \o <<p>>)
          /\ <<u>> \o <<p>> # <<>> /\ Head(<<u>> \o <<p>>) = u
          /\ SetOf(<<u>> \o <<p>>) = {u} \cup {p}
      <4>1. /\ Ordered(<<u>> \o <<p>>) /\ Head(<<u>> \o <<p>>) = u
            /\ <<u>> \o <<p>> \in Seq(Calls)
            /\ SetOf(<<u>> \o <<p>>) = {u} \cup SetOf(<<p>>)
        BY <1>2, <1>3, <3>2, Before
      <4>2. <<u>> \o <<p>> # <<>>
        BY <1>2, <1>3, Cons
      <4> QED
        BY <1>3, <4>1, <4>2
    <3> HIDE DEF T
    <3> QED
      BY <1>2, <2>2, <3>1, <3>3
  <2> QED
    BY <2>1, <2>2
<1> HIDE DEF T
<1>5. /\ V \in Seq(Calls) /\ Ordered(V) /\ V # <<>>
      /\ Head(V).step \in {"seat", "untoken", "persist"}
      /\ SetOf(V) = SetOf(T) \cup (IF op[a].retried THEN {} ELSE {s})
  <2>1. CASE op[a].retried
    <3>1. V = T
      BY <1>4, <2>1, ConcatEmptySeq
    <3> QED
      BY <1>4, <2>1, <3>1
  <2>2. CASE ~op[a].retried
    <3>1. V = <<s>> \o T
      BY <2>2
    <3>2. <<s.step, Head(T).step>> \in Follows
      BY <1>2, <1>4 DEF Follows
    <3>3. /\ <<s>> \o T \in Seq(Calls) /\ Ordered(<<s>> \o T) /\ Head(<<s>> \o T) = s
          /\ SetOf(<<s>> \o T) = {s} \cup SetOf(T) /\ <<s>> \o T # <<>>
      BY <1>2, <1>4, <3>2, Before, Cons
    <3> HIDE DEF V
    <3>4. /\ V \in Seq(Calls) /\ Ordered(V) /\ V # <<>> /\ Head(V) = s
          /\ SetOf(V) = {s} \cup SetOf(T)
      BY <3>1, <3>3
    <3> QED
      BY <1>2, <2>2, <3>4
  <2> QED
    BY <2>1, <2>2
<1>6. CASE old = 0
  <2>1. Minting(a, i) = T
    <3>1. Predecessor(a) = <<>>
      BY <1>6 DEF Predecessor
    <3>2. U \in Seq(Calls) /\ <<>> \o U = U
      BY <1>2, ConcatEmptySeq
    <3> QED
      BY <3>1, <3>2 DEF Minting, T, U, p, u
  <2> QED
    BY <1>4, <1>6, <2>1 DEF p, u, s
<1>7. CASE old # 0
  <2> DEFINE W == <<f>> \o V
             X == <<r>> \o W
  <2>1. Minting(a, i) = X
    <3>1. U \in Seq(Calls) /\ S \in Seq(Calls) /\ <<p>> \in Seq(Calls)
          /\ <<r>> \in Seq(Calls) /\ <<f>> \in Seq(Calls) /\ <<r, f>> \in Seq(Calls)
      BY <1>2
    <3>2. Predecessor(a) = <<r, f>> \o S
      BY <1>7 DEF Predecessor, SeatCall, OldKey, s
    <3>3. <<r, f>> = <<r>> \o <<f>>
      BY <1>2, Joined
    <3>4. Minting(a, i) = ((<<r, f>> \o S) \o U) \o <<p>>
      BY <3>2 DEF Minting, p, u
    <3>5. <<r, f>> \o S \in Seq(Calls)
      BY <3>1, ConcatProperties
    <3>6. ((<<r, f>> \o S) \o U) \o <<p>> = (<<r, f>> \o S) \o (U \o <<p>>)
      BY <3>1, <3>5, ConcatAssociative
    <3>7. (<<r, f>> \o S) \o T = <<r, f>> \o (S \o T)
      BY <1>4, <3>1, ConcatAssociative
    <3>8. (<<r>> \o <<f>>) \o V = <<r>> \o (<<f>> \o V)
      BY <1>5, <3>1, ConcatAssociative
    <3>9. Minting(a, i) = (<<r, f>> \o S) \o T
      BY <3>4, <3>6 DEF T
    <3>10. Minting(a, i) = (<<r>> \o <<f>>) \o V
      BY <3>3, <3>7, <3>9
    <3> QED
      BY <3>8, <3>10
  <2> HIDE DEF V
  <2>2. <<f.step, Head(V).step>> \in Follows
    BY <1>2, <1>5 DEF Follows
  <2>3. /\ W \in Seq(Calls) /\ Ordered(W) /\ Head(W) = f /\ SetOf(W) = {f} \cup SetOf(V)
        /\ W # <<>>
    BY <1>2, <1>5, <2>2, Before, Cons
  <2> HIDE DEF W
  <2>4. old \in Instances
    BY <1>1, <1>7
  <2>5. /\ X \in Seq(Calls) /\ Ordered(X) /\ Head(X) = r /\ SetOf(X) = {r} \cup SetOf(W)
    BY <1>1, <2>3, <2>4, BeforeForget
  <2>6. X # <<>> /\ r.step = "release"
    BY <1>2, <2>3, Cons DEF Call
  <2>7. SetOf(X) = {r, f} \cup SetOf(T) \cup (IF op[a].retried THEN {} ELSE {s})
    BY <1>5, <2>3, <2>5
  <2> HIDE DEF X
  <2>8. /\ Minting(a, i) \in Seq(Calls) /\ Ordered(Minting(a, i)) /\ Minting(a, i) # <<>>
        /\ Head(Minting(a, i)).step = "release"
        /\ SetOf(Minting(a, i)) = {r, f} \cup SetOf(T) \cup (IF op[a].retried THEN {} ELSE {s})
    BY <2>1, <2>5, <2>6, <2>7
  <2>9. SetOf(Minting(a, i)) = {p} \cup (IF Teardown(a) THEN {} ELSE {u})
                             \cup ({r, f} \cup (IF op[a].retried THEN {} ELSE {s}))
    BY <1>4, <2>8
  <2> QED
    BY <1>7, <2>8, <2>9 DEF p, u, s
<1> QED
  BY <1>6, <1>7

\* What an operation about to activate knows.
LEMMA AtMint ==
  ASSUME Base, NEW a \in Actors, Doing(a, "mint")
  PROVE  /\ op[a].kind = "activate" /\ op[a].key \in Keys /\ ~op[a].lost
         /\ CallsOf(op[a]) = {Now(a)} /\ Now(a).step = "mint" /\ op[a].todo # <<>>
         /\ op[a].todo = <<Now(a)>> /\ mutation # a
<1>1. /\ op[a] \in Ops /\ OpOK(op[a]) /\ op[a].todo # <<>> /\ Now(a).step = "mint"
      /\ CallOK(op[a], Now(a)) /\ op[a].todo \in Seq(Calls)
  BY Known, Fields DEF Doing, Now
<1>2. CallsOf(op[a]) = {Now(a)} /\ Len(op[a].todo) = 1 /\ Now(a) = op[a].todo[1]
  BY <1>1, Alone, HeadAndTail DEF Now, Ending
<1>3. op[a].todo = <<Now(a)>>
  <2>1. Now(a) \in Calls
    BY <1>1, HeadAndTail DEF Now
  <2>2. <<Now(a)>> \in Seq(Calls) /\ Len(<<Now(a)>>) = 1 /\ <<Now(a)>>[1] = Now(a)
    BY <2>1
  <2>3. \A n \in 1..1 : n = 1
    OBVIOUS
  <2> QED
    BY <1>1, <1>2, <2>2, <2>3, SeqEqual
<1> QED
  BY <1>1, <1>2, <1>3, NotHolding DEF CallOK, OpOK, Now

LEMMA MintAnsweredBase ==
  ASSUME Base, NEW a \in Actors, MintAnswered(a)
  PROVE  /\ Base' /\ OneMoves(a) /\ minted' = minted + 1 /\ minted + 1 \in Instances
         /\ op'[a].kind = "activate" /\ op'[a].retried = op[a].retried
         /\ op'[a].oldKey = op[a].oldKey /\ op'[a].oldId = op[a].oldId
         /\ op'[a].done = op[a].done
         /\ op'[a].todo # <<>>
         /\ Head(op'[a].todo).step \in {"release", "untoken", "persist", "seat"}
         /\ \/ /\ op'[a].id # 0
               /\ CallsOf(op'[a]) =
                    {Call("persist", op[a].key, minted + 1)}
                    \cup (IF Teardown(a) THEN {} ELSE {Call("untoken", op[a].key, minted + 1)})
                    \cup (IF op[a].oldId = 0 THEN {}
                          ELSE {Call("release", OldKey(a), op[a].oldId),
                                Call("forget", OldKey(a), op[a].oldId)}
                               \cup (IF op[a].retried THEN {}
                                     ELSE {Call("seat", OldKey(a), op[a].oldId)}))
            \/ /\ op'[a].id = op[a].id
               /\ CallsOf(op'[a]) = {Call("seat", op[a].key, minted + 1)}
<1> DEFINE o == op[a]
           k == o.key
           i == minted + 1
<1>1. /\ o \in Ops /\ OpOK(o) /\ OpMinted(o, minted) /\ IsFiniteSet(o.shown)
      /\ o.kind = "activate" /\ k \in Keys /\ ~o.lost /\ mutation # a
      /\ Now(a).step = "mint" /\ o.todo # <<>>
  BY Known, AtMint DEF MintAnswered
<1>2. /\ minted \in Nat /\ i \in Instances /\ i # 0 /\ minted <= i /\ minted' = i
      /\ \A n \in Nat : n <= minted => n <= i
  BY Known, BoundsAssumption DEF MintAnswered, Instances
<1>3. /\ UNCHANGED <<row, key, mutation, credential, creds, owed, abandoned, token, nonce, entitled>>
      /\ seats' = seats \cup {<<k, i>>} /\ learned' = learned \cup {i}
      /\ faults' \in 0..MaxFaults
  BY BoundsAssumption DEF MintAnswered, local, secrets, locks, Base, TypeOK, Fault, NoFault
<1>4. Stored' /\ IsFiniteSet(creds')
  BY <1>1, <1>2, <1>3 DEF Base, TypeOK, Stored, Finite
<1>5. StoredMinted'
  <2>1. row \in Nat /\ row <= minted
    BY Known DEF Base, StoredMinted
  <2>2. \A s \in seats : s[2] \in Nat /\ s[2] <= minted
    BY Numbers DEF Base, StoredMinted, TypeOK
  <2>3. \A c \in creds : c.id \in Nat /\ c.id <= minted
    BY Numbers DEF Base, StoredMinted, TypeOK, Credentials
  <2>4. \A r \in owed : r.id \in Nat /\ r.id <= minted
    BY Numbers DEF Base, StoredMinted, TypeOK
  <2>5. \A n \in learned : n \in Nat /\ n <= minted
    BY Numbers DEF Base, StoredMinted, TypeOK
  <2>6. i <= i /\ <<k, i>>[2] = i
    BY <1>2
  <2> QED
    BY <1>2, <1>3, <2>1, <2>2, <2>3, <2>4, <2>5, <2>6 DEF StoredMinted
<1>6. /\ o.oldId \in Nat /\ o.oldId <= minted /\ o.id \in Nat /\ o.id <= minted
      /\ \A r \in o.list \cup o.done : r.id \in Nat /\ r.id <= minted
  BY <1>1, Fields, Numbers DEF OpMinted, Releases
<1>7. CASE Then(a, <<Call("seat", k, i)>>)
  <2> DEFINE c == Call("seat", k, i)
  <2>1. c \in Calls /\ c.step = "seat" /\ c.key = k /\ c.id = i
    BY <1>1, <1>2 DEF Call, Calls, Steps
  <2> HIDE DEF c
  <2>2. <<c>> \in Seq(Calls) /\ Then(a, <<c>>)
    BY <1>7, <2>1 DEF c
  <2>3. /\ OneMoves(a) /\ SameCommand(o, op'[a]) /\ op'[a] \in Ops /\ op'[a].todo = <<c>>
        /\ op'[a].lost = o.lost /\ op'[a].list = o.list /\ op'[a].done = o.done
        /\ op'[a].shown = o.shown
    BY <2>2, ThenMoves DEF Base
  <2>4. CallOK(op'[a], c)
    BY <1>1, <1>2, <2>1 DEF CallOK
  <2>5. OpOK(op'[a]) /\ CallsOf(op'[a]) = {c} /\ Head(op'[a].todo) = c /\ op'[a].todo # <<>>
    BY <1>1, <2>1, <2>3, <2>4, OneCall DEF SameCommand
  <2>6. OpMinted(op'[a], minted')
    BY <1>2, <1>6, <2>1, <2>3, <2>5 DEF OpMinted, SameCommand
  <2>7. Base'
    BY <1>1, <1>2, <1>3, <1>4, <1>5, <2>1, <2>3, <2>5, <2>6, LockFree DEF Locking
  <2> QED
    BY <1>1, <1>2, <2>1, <2>3, <2>5, <2>7 DEF SameCommand, c
<1>8. CASE op' = [op EXCEPT ![a].id = i, ![a].todo = Minting(a, i)]
  <2> DEFINE t == Minting(a, i)
             u == [o EXCEPT !.id = i, !.todo = t]
  <2>1. /\ t \in Seq(Calls) /\ Ordered(t) /\ t # <<>>
        /\ Head(t).step \in {"release", "untoken", "persist"}
        /\ SetOf(t) =
              {Call("persist", k, i)}
              \cup (IF Teardown(a) THEN {} ELSE {Call("untoken", k, i)})
              \cup (IF o.oldId = 0 THEN {}
                    ELSE {Call("release", OldKey(a), o.oldId), Call("forget", OldKey(a), o.oldId)}
                         \cup (IF o.retried THEN {} ELSE {Call("seat", OldKey(a), o.oldId)}))
    BY <1>1, <1>2, MintCalls
  <2> HIDE DEF t
  <2>2. /\ u \in Ops /\ u.todo = t /\ u.kind = "activate" /\ u.key = k /\ u.id = i
        /\ u.oldId = o.oldId /\ u.oldKey = o.oldKey /\ u.retried = o.retried /\ ~u.lost
        /\ u.list = o.list /\ u.done = o.done /\ u.shown = o.shown
    BY <1>1, <1>2, <2>1 DEF Ops
  <2>3. op' = [op EXCEPT ![a] = u]
    BY <1>8 DEF t
  <2> HIDE DEF u
  <2>4. OneMoves(a) /\ op'[a] = u
    BY <2>2, <2>3, Becomes DEF Base
  <2>5. OldKey(a) \in Keys
    BY <1>1, Fields DEF OldKey, Teardown
  <2>6. \A c \in CallsOf(u) :
          /\ c.id \in {i, o.oldId} /\ c.key \in Keys /\ c.id # 0
          /\ c.step \in {"persist", "untoken", "release", "forget", "seat"}
          /\ c.step \in {"persist", "untoken"} => c.key = k /\ c.id = i
    <3> SUFFICES ASSUME NEW c \in CallsOf(u)
                 PROVE  /\ c.id \in {i, o.oldId} /\ c.key \in Keys /\ c.id # 0
                        /\ c.step \in {"persist", "untoken", "release", "forget", "seat"}
                        /\ c.step \in {"persist", "untoken"} => c.key = k /\ c.id = i
      OBVIOUS
    <3>1. \/ c = Call("persist", k, i) \/ c = Call("untoken", k, i)
          \/ /\ o.oldId # 0
             /\ \/ c = Call("release", OldKey(a), o.oldId)
                \/ c = Call("forget", OldKey(a), o.oldId)
                \/ c = Call("seat", OldKey(a), o.oldId)
      BY <2>1, <2>2 DEF CallsOf, SetOf
    <3> QED
      BY <1>1, <1>2, <2>5, <3>1 DEF Call
  <2>7. OpOK(u)
    <3>1. \A c \in CallsOf(u) : CallOK(u, c)
      BY <1>2, <2>2, <2>6 DEF CallOK
    <3> QED
      BY <1>1, <2>1, <2>2, <3>1 DEF OpOK
  <2>8. OpMinted(u, minted')
    BY <1>2, <1>6, <2>2, <2>6 DEF OpMinted
  <2>9. Base'
    BY <1>1, <1>2, <1>3, <1>4, <1>5, <2>1, <2>2, <2>4, <2>7, <2>8, LockFree DEF Locking
  <2>10. CallsOf(u) = SetOf(t)
    BY <2>2 DEF CallsOf, SetOf
  <2> QED
    BY <1>1, <1>2, <2>1, <2>2, <2>4, <2>9, <2>10
<1> QED
  BY <1>7, <1>8 DEF MintAnswered, Minting

LEMMA MintLostBase ==
  ASSUME Base, NEW a \in Actors, MintLost(a)
  PROVE  /\ Base' /\ OneMoves(a) /\ op'[a] = Resting /\ CallsOf(op'[a]) = {}
         /\ op'[a].todo = <<>>
         /\ CallsOf(op[a]) = {Now(a)} /\ Now(a).step = "mint" /\ op[a].todo # <<>>
<1> DEFINE i == minted + 1
<1>1. /\ op[a].key \in Keys /\ mutation # a /\ Finish(a)
      /\ CallsOf(op[a]) = {Now(a)} /\ Now(a).step = "mint" /\ op[a].todo # <<>>
  BY AtMint DEF MintLost
<1>2. /\ minted \in Nat /\ i \in Instances /\ minted <= i /\ minted' = i
      /\ \A n \in Nat : n <= minted => n <= i
      /\ minted' \in Nat
  BY Known, BoundsAssumption DEF MintLost, Instances
<1>3. /\ UNCHANGED <<row, key, mutation, credential, creds, owed, abandoned, token, nonce, entitled, learned>>
      /\ seats' \subseteq seats \cup {<<op[a].key, i>>} /\ faults' \in 0..MaxFaults
  BY BoundsAssumption DEF MintLost, local, secrets, locks, Base, TypeOK, Fault
<1>4. Stored' /\ IsFiniteSet(creds')
  BY <1>1, <1>2, <1>3 DEF Base, TypeOK, Stored, Finite
<1>5. StoredMinted'
  <2>1. row \in Nat /\ row <= minted
    BY Known DEF Base, StoredMinted
  <2>2. \A s \in seats : s[2] \in Nat /\ s[2] <= minted
    BY Numbers DEF Base, StoredMinted, TypeOK
  <2>3. \A c \in creds : c.id \in Nat /\ c.id <= minted
    BY Numbers DEF Base, StoredMinted, TypeOK, Credentials
  <2>4. \A r \in owed : r.id \in Nat /\ r.id <= minted
    BY Numbers DEF Base, StoredMinted, TypeOK
  <2>5. \A n \in learned : n \in Nat /\ n <= minted
    BY Numbers DEF Base, StoredMinted, TypeOK
  <2>6. i <= i /\ <<op[a].key, i>>[2] = i
    BY <1>2
  <2> QED
    BY <1>2, <1>3, <2>1, <2>2, <2>3, <2>4, <2>5, <2>6 DEF StoredMinted
<1>6. /\ OneMoves(a) /\ op'[a] = Resting /\ OpOK(op'[a]) /\ OpMinted(op'[a], minted')
      /\ IsFiniteSet(op'[a].shown) /\ CallsOf(op'[a]) = {} /\ op'[a].todo = <<>>
  BY <1>1, <1>2, Finished
<1>7. Base'
  BY <1>1, <1>2, <1>3, <1>4, <1>5, <1>6, LockFree DEF Locking
<1> QED
  BY <1>1, <1>6, <1>7

LEMMA MintRefusedBase ==
  ASSUME Base, NEW a \in Actors, MintRefused(a)
  PROVE  /\ Base' /\ OneMoves(a)
         /\ CallsOf(op[a]) = {Now(a)} /\ Now(a).step = "mint" /\ op[a].todo # <<>>
         /\ op[a].kind = "activate"
         /\ \/ op'[a] = Resting /\ CallsOf(op'[a]) = {} /\ op'[a].todo = <<>>
            \/ /\ op[a].oldId # 0 /\ (Teardown(a) => Same(a)) /\ ~op[a].retried
               /\ op'[a].kind = "activate" /\ op'[a].retried /\ op'[a].id = op[a].id
               /\ op'[a].oldKey = op[a].oldKey /\ op'[a].oldId = op[a].oldId
               /\ op'[a].done = op[a].done
               /\ op'[a].todo # <<>> /\ Head(op'[a].todo).step = "seat"
               /\ CallsOf(op'[a]) = {Now(a), Call("seat", op[a].key, op[a].oldId)}
<1> DEFINE o == op[a]
           c == Call("seat", o.key, o.oldId)
<1>1. /\ o \in Ops /\ OpOK(o) /\ OpMinted(o, minted) /\ IsFiniteSet(o.shown)
      /\ o.key \in Keys /\ mutation # a /\ ~o.lost /\ o.kind = "activate"
      /\ CallsOf(o) = {Now(a)} /\ Now(a).step = "mint" /\ o.todo # <<>> /\ o.todo = <<Now(a)>>
      /\ Now(a) \in Calls /\ CallOK(o, Now(a)) /\ Now(a).id <= minted
  BY Known, AtMint DEF MintRefused
<1>2. Stored' /\ IsFiniteSet(creds') /\ StoredMinted' /\ minted' = minted /\ minted <= minted'
      /\ UNCHANGED <<row, key, mutation, credential>> /\ minted' \in Nat
  BY StoredStays, Known DEF MintRefused, bounds, Base, TypeOK
<1>3. CASE Finish(a)
  <2>1. /\ OneMoves(a) /\ op'[a] = Resting /\ OpOK(op'[a]) /\ OpMinted(op'[a], minted')
        /\ IsFiniteSet(op'[a].shown) /\ CallsOf(op'[a]) = {} /\ op'[a].todo = <<>>
    BY <1>2, <1>3, Finished
  <2>2. Base'
    BY <1>1, <1>2, <2>1, LockFree DEF Locking
  <2> QED
    BY <1>1, <2>1, <2>2
<1>4. CASE /\ o.oldId # 0 /\ (Teardown(a) => Same(a)) /\ ~o.retried
           /\ op' = [op EXCEPT ![a].retried = TRUE, ![a].todo = <<c>> \o o.todo]
  <2> DEFINE t == <<c>> \o o.todo
             u == [o EXCEPT !.retried = TRUE, !.todo = t]
  <2>1. o.oldId \in Instances /\ o.oldId # 0
    BY <1>1, <1>4, Fields
  <2>2. c \in Calls /\ c.step = "seat" /\ c.key = o.key /\ c.id = o.oldId
    BY <1>1, <2>1 DEF Call, Calls, Steps
  <2> HIDE DEF c
  <2>3. t = <<c, Now(a)>> /\ t \in Seq(Calls)
    <3>1. t = <<c>> \o <<Now(a)>>
      BY <1>1
    <3>2. <<c>> \o <<Now(a)>> = <<c, Now(a)>>
      BY <1>1, <2>2, Joined
    <3>3. <<c, Now(a)>> \in Seq(Calls)
      BY <1>1, <2>2
    <3> QED
      BY <3>1, <3>2, <3>3
  <2> HIDE DEF t
  <2>4. /\ u \in Ops /\ u.todo = t /\ u.kind = "activate" /\ u.key = o.key /\ u.id = o.id
        /\ u.oldId = o.oldId /\ u.oldKey = o.oldKey /\ u.retried /\ ~u.lost
        /\ u.list = o.list /\ u.done = o.done /\ u.shown = o.shown
    BY <1>1, <2>3 DEF Ops
  <2>5. op' = [op EXCEPT ![a] = u]
    BY <1>4 DEF t
  <2> HIDE DEF u
  <2>6. OneMoves(a) /\ op'[a] = u
    BY <2>4, <2>5, Becomes DEF Base
  <2>7. CallOK(u, c) /\ CallOK(u, Now(a))
    BY <1>1, <2>1, <2>2, <2>4 DEF CallOK, Naming
  <2>8. <<c.step, Now(a).step>> \in Follows
    BY <1>1, <2>2 DEF Follows
  <2>9. OpOK(u) /\ CallsOf(u) = {c, Now(a)} /\ u.todo # <<>> /\ Head(u.todo) = c
    BY <1>1, <2>2, <2>3, <2>4, <2>7, <2>8, TwoCalls
  <2>10. OpMinted(u, minted)
    BY <1>1, <2>2, <2>4, <2>9 DEF OpMinted
  <2>11. Base'
    BY <1>1, <1>2, <2>2, <2>4, <2>6, <2>9, <2>10, LockFree DEF Locking
  <2> QED
    BY <1>1, <1>4, <2>2, <2>4, <2>6, <2>9, <2>11 DEF c
<1> QED
  BY <1>3, <1>4 DEF MintRefused

\* What is left of a list, and what can only stand at its front.
LEMMA RestOf ==
  ASSUME Base, NEW a \in Actors, op[a].todo # <<>>
  PROVE  /\ Rest(a) \in Seq(Calls) /\ Ordered(Rest(a)) /\ SetOf(Rest(a)) \subseteq CallsOf(op[a])
         /\ CallsOf(op[a]) \subseteq SetOf(Rest(a)) \cup {Now(a)}
         /\ \A c \in SetOf(Rest(a)) :
              /\ c \in Calls /\ CallOK(op[a], c) /\ c.id <= minted
              /\ \E x \in Steps : <<x, c.step>> \in Follows
              /\ Now(a).step # "row" => c.step \notin {"row", "key"}
         /\ Rest(a) # <<>> => <<Now(a).step, Head(Rest(a)).step>> \in Follows
<1> DEFINE t == op[a].todo
           u == Rest(a)
<1>1. /\ op[a] \in Ops /\ OpOK(op[a]) /\ OpMinted(op[a], minted) /\ t \in Seq(Calls)
      /\ Ordered(t) /\ CallsOf(op[a]) \subseteq Calls
  BY Known, Fields DEF OpOK
<1>2. /\ u \in Seq(Calls) /\ 1 \in DOMAIN t /\ Now(a) = t[1]
      /\ DOMAIN t = 1..Len(t) /\ DOMAIN u = 1..(Len(t) - 1)
      /\ \A n \in DOMAIN u : n + 1 \in DOMAIN t /\ u[n] = t[n + 1]
      /\ \A n \in DOMAIN t : n = 1 \/ (n - 1 \in DOMAIN u /\ t[n] = u[n - 1])
  BY <1>1, HeadAndTail DEF Rest, Now
<1>3. u # <<>> => 1 \in DOMAIN u /\ Head(u) = u[1]
  BY <1>2, HeadAndTail
<1> HIDE DEF u, t
<1>4. ASSUME NEW n \in DOMAIN u, n + 1 \in DOMAIN u
      PROVE  <<u[n].step, u[n + 1].step>> \in Follows
  BY <1>1, <1>2, <1>4 DEF Ordered
<1>5. ASSUME NEW n \in DOMAIN u, u[n].step = "release" PROVE Paired(u, n)
  <2>1. t[n + 1].step = "release" /\ n + 1 \in DOMAIN t
    BY <1>2, <1>5
  <2>2. Paired(t, n + 1)
    BY <1>1, <2>1 DEF Ordered
  <2>3. (n + 1) - 1 = n /\ (n + 1) + 1 \in DOMAIN t /\ n + 1 \in DOMAIN u
    BY <1>2, <2>2 DEF Paired
  <2> QED
    BY <1>2, <2>2, <2>3 DEF Paired
<1>6. SetOf(u) \subseteq CallsOf(op[a]) /\ CallsOf(op[a]) \subseteq SetOf(u) \cup {Now(a)}
  <2>1. CallsOf(op[a]) = SetOf(t)
    BY DEF SetOf, CallsOf, t
  <2>2. SetOf(u) \subseteq SetOf(t)
    BY <1>2 DEF SetOf
  <2>3. SetOf(t) \subseteq SetOf(u) \cup {Now(a)}
    BY <1>2 DEF SetOf
  <2> QED
    BY <2>1, <2>2, <2>3
<1>7. ASSUME NEW n \in DOMAIN u
      PROVE  /\ <<t[n].step, u[n].step>> \in Follows /\ t[n] \in CallsOf(op[a])
             /\ Now(a).step # "row" => u[n].step \notin {"row", "key"}
  <2>1. n \in DOMAIN t /\ n + 1 \in DOMAIN t /\ u[n] = t[n + 1]
    BY <1>2
  <2>2. <<t[n].step, u[n].step>> \in Follows
    BY <1>1, <2>1 DEF Ordered
  <2>3. t[n] \in CallsOf(op[a])
    BY <2>1 DEF CallsOf, t
  <2>4. ASSUME t[n].step = "row" PROVE Now(a).step = "row"
    <3>1. op[a].todo = <<Call("row", op[a].key, 0), Call("key", op[a].key, 0)>>
      BY <1>1, <2>3, <2>4 DEF OpOK, CallOK
    <3>2. <<Call("row", op[a].key, 0), Call("key", op[a].key, 0)>>[1].step = "row"
      BY DEF Call
    <3> QED
      BY <1>2, <3>1, <3>2 DEF t
  <2>5. u[n].step = "row" => FALSE
    BY <2>2 DEF Follows
  <2>6. u[n].step = "key" => t[n].step = "row"
    BY <2>2 DEF Follows
  <2> QED
    BY <2>2, <2>3, <2>4, <2>5, <2>6
<1>8. ASSUME NEW c \in SetOf(u)
      PROVE  /\ c \in Calls /\ CallOK(op[a], c) /\ c.id <= minted
             /\ \E x \in Steps : <<x, c.step>> \in Follows
             /\ Now(a).step # "row" => c.step \notin {"row", "key"}
  <2>1. PICK n \in DOMAIN u : c = u[n]
    BY DEF SetOf
  <2>2. t[n].step \in Steps
    BY <1>1, <1>7 DEF Calls
  <2> QED
    BY <1>1, <1>6, <1>7, <2>1, <2>2 DEF OpOK, OpMinted
<1>9. u # <<>> => <<Now(a).step, Head(u).step>> \in Follows
  BY <1>2, <1>3, <1>7
<1> QED
  BY <1>2, <1>4, <1>5, <1>6, <1>8, <1>9 DEF Ordered, u

LEMMA FaultOrNot ==
  ASSUME TypeOK, Fault \/ NoFault
  PROVE  faults' \in 0..MaxFaults
BY BoundsAssumption DEF Fault, NoFault, TypeOK

LEMMA DeleteTokenBase ==
  ASSUME Base, NEW a \in Actors, DeleteToken(a)
  PROVE  /\ Base' /\ OneMoves(a) /\ SameCommand(op[a], op'[a]) /\ op'[a].done = op[a].done
         /\ Now(a).step = "untoken" /\ op[a].todo # <<>>
         /\ UNCHANGED <<row, key, mutation, seats, creds, owed, abandoned, learned>> /\ mutation # a
         /\ \/ /\ CallsOf(op'[a]) \subseteq CallsOf(op[a])
               /\ CallsOf(op[a]) \subseteq CallsOf(op'[a]) \cup {Now(a)}
               /\ op'[a].todo # <<>> => Head(op'[a].todo).step = "persist"
            \/ /\ CallsOf(op'[a]) = {Call("seat", Now(a).key, Now(a).id)}
               /\ CallsOf(op[a]) \subseteq {Now(a), Call("persist", Now(a).key, Now(a).id)}
               /\ Fault
<1> DEFINE g == Call("seat", Now(a).key, Now(a).id)
<1>1. /\ op[a] \in Ops /\ OpOK(op[a]) /\ op[a].todo # <<>> /\ Now(a).step = "untoken"
      /\ Now(a) \in Calls /\ CallOK(op[a], Now(a)) /\ Now(a).id <= minted
  BY Known DEF DeleteToken, Doing, Now
<1>2. /\ UNCHANGED <<row, key, mutation, credential, creds, owed, abandoned, nonce, entitled, learned>>
      /\ seats' = seats /\ token' \in {NoCred, token} /\ minted' = minted
  BY DEF DeleteToken, local, locks, service
<1>3. mutation # a
  BY <1>1, NotHolding
<1>4. Stored' /\ IsFiniteSet(creds') /\ StoredMinted' /\ minted <= minted'
  <2>1. faults' \in 0..MaxFaults
    BY FaultOrNot DEF DeleteToken, Base
  <2> QED
    BY <1>2, <2>1, Known DEF Base, TypeOK, Stored, Finite, StoredMinted
<1>5. CASE Then(a, Rest(a))
  <2>1. /\ OneMoves(a) /\ SameCommand(op[a], op'[a]) /\ OpOK(op'[a])
        /\ OpMinted(op'[a], minted) /\ IsFiniteSet(op'[a].shown) /\ op'[a].done = op[a].done
        /\ CallsOf(op'[a]) \subseteq CallsOf(op[a])
        /\ CallsOf(op[a]) \subseteq CallsOf(op'[a]) \cup {Now(a)}
        /\ op'[a].todo # <<>> => <<Now(a).step, Head(op'[a].todo).step>> \in Follows
    BY <1>1, <1>5, ThenRest
  <2>2. op'[a].todo # <<>> => Head(op'[a].todo).step = "persist"
    BY <1>1, <2>1 DEF Follows
  <2>3. Base'
    BY <1>1, <1>2, <1>4, <2>1, <2>2, NotHolding, LockFree DEF Locking
  <2> QED
    BY <1>1, <1>2, <1>3, <2>1, <2>2, <2>3
<1>6. CASE Fault /\ Then(a, <<g>>)
  <2>1. g \in Calls /\ g.step = "seat" /\ g.key = Now(a).key /\ g.id = Now(a).id
    BY <1>1 DEF Call, Calls, Steps
  <2>2. CallOK(op[a], g)
    BY <1>1, <2>1 DEF CallOK, Naming
  <2>3. CallsOf(op[a]) \subseteq {Now(a), Call("persist", Now(a).key, Now(a).id)}
    <3> DEFINE r == Rest(a)
    <3>1. /\ r \in Seq(Calls) /\ Ordered(r) /\ SetOf(r) \subseteq CallsOf(op[a])
          /\ CallsOf(op[a]) \subseteq SetOf(r) \cup {Now(a)}
          /\ r # <<>> => <<"untoken", Head(r).step>> \in Follows
      BY <1>1, RestOf
    <3> HIDE DEF r
    <3>2. CASE r = <<>>
      BY <3>1, <3>2 DEF SetOf
    <3>3. CASE r # <<>>
      <4>1. /\ 1 \in DOMAIN r /\ Head(r) = r[1] /\ DOMAIN r = 1..Len(r) /\ Len(r) \in Nat
            /\ r[1].step = "persist"
        BY <3>1, <3>3, HeadAndTail, LenProperties DEF Follows
      <4>2. 1 + 1 \notin DOMAIN r
        BY <3>1, <4>1 DEF Ordered, Follows
      <4>3. DOMAIN r = {1}
        <5>1. \A m \in Nat : 1 \in 1..m /\ 1 + 1 \notin 1..m => 1..m = {1}
          OBVIOUS
        <5> QED
          BY <4>1, <4>2, <5>1
      <4>4. SetOf(r) = {r[1]}
        BY <4>3 DEF SetOf
      <4>5. r[1] \in CallsOf(op[a]) /\ r[1] \in Calls /\ CallOK(op[a], r[1])
        BY <1>1, <3>1, <4>1, <4>4, Fields DEF OpOK
      <4>6. r[1].key = Now(a).key /\ r[1].id = Now(a).id
        BY <1>1, <4>1, <4>5 DEF CallOK
      <4>7. r[1] = Call("persist", Now(a).key, Now(a).id)
        BY <4>1, <4>5, <4>6 DEF Calls, Call
      <4> QED
        BY <3>1, <4>4, <4>7
    <3> QED
      BY <3>2, <3>3
  <2> HIDE DEF g
  <2>4. /\ OneMoves(a) /\ SameCommand(op[a], op'[a]) /\ OpOK(op'[a])
        /\ OpMinted(op'[a], minted) /\ IsFiniteSet(op'[a].shown)
        /\ CallsOf(op'[a]) = {g} /\ op'[a].done = op[a].done
        /\ op'[a].todo # <<>> /\ Head(op'[a].todo) = g
    BY <1>1, <1>6, <2>1, <2>2, ThenOne
  <2>5. Base'
    BY <1>1, <1>2, <1>4, <2>1, <2>4, NotHolding, LockFree DEF Locking
  <2> QED
    BY <1>1, <1>2, <1>3, <1>6, <2>3, <2>4, <2>5 DEF g
<1> QED
  BY <1>5, <1>6 DEF DeleteToken

LEMMA PersistBase ==
  ASSUME Base, NEW a \in Actors, Persist(a)
  PROVE  /\ Base' /\ OneMoves(a) /\ SameCommand(op[a], op'[a]) /\ op'[a].done = op[a].done
         /\ Now(a).step = "persist" /\ op[a].todo # <<>> /\ CallsOf(op[a]) = {Now(a)}
         /\ mutation = NoOne /\ row' = row /\ credential # a /\ op'[a].todo # <<>>
         /\ \/ /\ Unchanged(a) /\ mutation' = a
               /\ CallsOf(op'[a]) = {Call("save", Now(a).key, Now(a).id)}
               /\ Head(op'[a].todo) = Call("save", Now(a).key, Now(a).id)
            \/ /\ key' = key /\ mutation' = NoOne
               /\ CallsOf(op'[a]) = {Call("seat", Now(a).key, Now(a).id)}
               /\ Head(op'[a].todo) = Call("seat", Now(a).key, Now(a).id)
<1> DEFINE o == op[a]
           k == Now(a).key
           i == Now(a).id
<1>1. /\ o \in Ops /\ OpOK(o) /\ OpMinted(o, minted) /\ HolderOK(a)
      /\ Now(a).step = "persist" /\ o.todo # <<>> /\ CallOK(o, Now(a)) /\ i <= minted
      /\ mutation = NoOne /\ CallsOf(o) = {Now(a)} /\ Now(a) \in Calls
      /\ k \in Keys /\ i # 0 /\ i \in Instances
  BY Known, Alone DEF Persist, Doing, Now, Ending, CallOK, Naming, Calls
<1>2. credential # a
  BY <1>1 DEF HolderOK, Doing, Now
<1>3. /\ UNCHANGED <<row, entitled, token, nonce, owed, abandoned, credential, seats, creds, learned,
                    minted, faults>>
  BY DEF Persist, secrets, service, bounds
<1>4. /\ key' \in Keys \cup {NoKey} /\ mutation' \in {a, NoOne}
      /\ mutation' = NoOne => key' = key
  BY <1>1, Numbers DEF Persist, Base, TypeOK
<1>5. Stored' /\ IsFiniteSet(creds') /\ StoredMinted' /\ minted <= minted'
  BY <1>3, <1>4, Known DEF Base, TypeOK, Stored, Finite, StoredMinted
<1>6. mutation' = NoOne /\ row' # 0 => key' \in Keys
  BY <1>1, <1>3, <1>4 DEF Base
<1>7. CASE Unchanged(a)
  <2>1. /\ mutation' = a /\ key' = k
        /\ op' = [op EXCEPT ![a].todo[1].step = "save"]
    BY <1>7 DEF Persist
  <2> DEFINE c == Call("save", k, i)
  <2>2. c.step = "save" /\ c.key = k /\ c.id = i
    BY DEF Call
  <2>3. CallOK(o, c)
    BY <1>1, <2>2 DEF CallOK
  <2>4. "save" \in Steps \ {"release", "key", "row"}
    BY DEF Steps
  <2>5. \A x : <<Now(a).step, x>> \in Follows => <<"save", x>> \in Follows
    BY <1>1 DEF Follows
  <2>6. /\ OneMoves(a) /\ SameCommand(o, op'[a]) /\ OpOK(op'[a])
        /\ OpMinted(op'[a], minted) /\ IsFiniteSet(op'[a].shown) /\ op'[a].done = o.done
        /\ CallsOf(op'[a]) \subseteq CallsOf(o) \cup {c}
        /\ op'[a].todo # <<>> /\ Head(op'[a].todo) = c /\ c \in CallsOf(op'[a])
    BY <1>1, <2>1, <2>3, <2>4, <2>5, Renamed
  <2> HIDE DEF c
  <2>7. CallsOf(op'[a]) = {c}
    <3>1. op'[a] \in Ops
      BY <2>6 DEF OneMoves
    <3>2. Head(op'[a].todo).step \in Ending
      BY <2>2, <2>6 DEF Ending
    <3> QED
      BY <2>6, <3>1, <3>2, Alone
  <2>8. HolderOK(a)'
    <3>1. /\ Doing(a, "save")'
          /\ \A step \in {"forget", "check", "obtain"} : ~Doing(a, step)'
          /\ Now(a)' = c
      BY <2>2, <2>6 DEF Doing, Now
    <3>2. op'[a].oldId = o.oldId /\ op'[a].oldKey = o.oldKey
      BY <2>6 DEF SameCommand
    <3>3. row = o.oldId /\ key = o.oldKey
      BY <1>7 DEF Unchanged
    <3>4. row' # 0 => op'[a].oldKey \in Keys
      BY <1>1, <1>3, <3>2, <3>3 DEF Base
    <3> QED
      BY <1>2, <1>3, <2>1, <2>2, <3>1, <3>2, <3>3, <3>4 DEF HolderOK
  <2>9. Base'
    BY <1>1, <1>3, <1>4, <1>5, <1>6, <2>6, <2>8, Kept
  <2> QED
    BY <1>1, <1>2, <1>3, <1>7, <2>1, <2>6, <2>7, <2>9 DEF c
<1>8. CASE ~Unchanged(a)
  <2>1. Then(a, <<Call("seat", k, i)>>) /\ UNCHANGED <<mutation, key>>
    BY <1>8 DEF Persist
  <2> DEFINE c == Call("seat", k, i)
  <2>2. c.step = "seat" /\ c.key = k /\ c.id = i /\ c \in Calls
    BY <1>1 DEF Call, Calls, Steps
  <2>3. CallOK(o, c)
    BY <1>1, <2>2 DEF CallOK
  <2>4. /\ OneMoves(a) /\ SameCommand(o, op'[a]) /\ OpOK(op'[a])
        /\ OpMinted(op'[a], minted) /\ IsFiniteSet(op'[a].shown) /\ op'[a].done = o.done
        /\ CallsOf(op'[a]) = {c} /\ op'[a].todo # <<>> /\ Head(op'[a].todo) = c
    BY <1>1, <2>1, <2>2, <2>3, ThenOne
  <2>5. Base'
    BY <1>1, <1>3, <1>5, <2>1, <2>2, <2>4, NotHolding, LockFree DEF Locking
  <2> QED
    BY <1>1, <1>2, <1>3, <2>1, <2>4, <2>5
<1> QED
  BY <1>7, <1>8

\* The list becomes another one.
LEMMA ThenCalls ==
  ASSUME Base, NEW a \in Actors, NEW t \in Seq(Calls), Ordered(t), t # <<>>, Then(a, t),
         \A c \in SetOf(t) : CallOK(op[a], c) /\ c.step \notin {"row", "key"} /\ c.id <= minted,
         op[a].todo = <<>> \/ Now(a).step # "forget"
  PROVE  /\ OneMoves(a) /\ SameCommand(op[a], op'[a]) /\ OpOK(op'[a])
         /\ OpMinted(op'[a], minted) /\ IsFiniteSet(op'[a].shown) /\ ~op'[a].lost
         /\ op'[a].todo = t /\ CallsOf(op'[a]) = SetOf(t)
         /\ op'[a].list = op[a].list /\ op'[a].done = op[a].done
<1>1. /\ OneMoves(a) /\ SameCommand(op[a], op'[a]) /\ op'[a] \in Ops /\ op'[a].todo = t
      /\ op'[a].lost = op[a].lost /\ op'[a].list = op[a].list /\ op'[a].done = op[a].done
      /\ op'[a].shown = op[a].shown
  BY ThenMoves DEF Base
<1>2. /\ ~op[a].lost /\ (op[a].kind = "activate" => op[a].key \in Keys)
      /\ IsFiniteSet(op[a].shown) /\ OpMinted(op[a], minted)
  BY Known DEF OpOK, Now
<1>3. CallsOf(op'[a]) = SetOf(t)
  BY <1>1 DEF CallsOf, SetOf
<1>4. \A c \in CallsOf(op'[a]) : CallOK(op'[a], c)
  BY <1>1, <1>3 DEF CallOK, SameCommand
<1>5. OpOK(op'[a])
  BY <1>1, <1>2, <1>4 DEF OpOK, SameCommand
<1>6. OpMinted(op'[a], minted)
  BY <1>1, <1>2, <1>3 DEF OpMinted, SameCommand
<1> QED
  BY <1>1, <1>2, <1>3, <1>5, <1>6

LEMMA SetOfOne ==
  ASSUME NEW c \in Calls, c.step # "release"
  PROVE  <<c>> \in Seq(Calls) /\ <<c>> # <<>> /\ Ordered(<<c>>) /\ SetOf(<<c>>) = {c}
         /\ Head(<<c>>) = c
<1>1. DOMAIN <<c>> = {1} /\ <<c>>[1] = c /\ <<c>> \in Seq(Calls) /\ <<c>> # <<>> /\ Head(<<c>>) = c
  OBVIOUS
<1> QED
  BY <1>1 DEF Ordered, SetOf

\* A credential given back, and what is done after it.
LEMMA GivingBack ==
  ASSUME NEW k \in Keys, NEW i \in Instances, NEW c \in Calls, c.step \in {"seat", "ensure"}
  PROVE  LET r == Call("release", k, i)
             f == Call("forget", k, i)
         IN  /\ <<r, f, c>> \in Seq(Calls) /\ <<r, f, c>> # <<>> /\ Ordered(<<r, f, c>>)
             /\ Head(<<r, f, c>>) = r /\ SetOf(<<r, f, c>>) = {r, f, c}
             /\ r \in Calls /\ f \in Calls /\ r.step = "release" /\ f.step = "forget"
             /\ r.key = k /\ r.id = i /\ f.key = k /\ f.id = i
             /\ <<r, f>> \o <<c>> = <<r, f, c>>
<1> DEFINE r == Call("release", k, i)
           f == Call("forget", k, i)
<1>1. /\ r \in Calls /\ f \in Calls /\ r.step = "release" /\ f.step = "forget"
      /\ r.key = k /\ r.id = i /\ f.key = k /\ f.id = i
  BY DEF Call, Calls, Steps
<1>2. /\ <<c>> \in Seq(Calls) /\ <<c>> # <<>> /\ Ordered(<<c>>) /\ SetOf(<<c>>) = {c}
      /\ Head(<<c>>) = c
  BY SetOfOne
<1>3. <<f.step, c.step>> \in Follows
  BY <1>1 DEF Follows
<1>4. /\ Ordered(<<f>> \o <<c>>) /\ Head(<<f>> \o <<c>>) = f /\ <<f>> \o <<c>> \in Seq(Calls)
      /\ SetOf(<<f>> \o <<c>>) = {f} \cup {c} /\ <<f>> \o <<c>> # <<>>
  BY <1>1, <1>2, <1>3, Before, Cons
<1>5. /\ <<f>> \o <<c>> = <<f, c>> /\ <<r>> \o <<f, c>> = <<r, f, c>>
      /\ <<r, f>> \o <<c>> = <<r, f, c>>
  BY <1>1, Joined
<1>6. /\ Ordered(<<r>> \o <<f, c>>) /\ Head(<<r>> \o <<f, c>>) = r
      /\ <<r>> \o <<f, c>> \in Seq(Calls)
      /\ SetOf(<<r>> \o <<f, c>>) = {r} \cup {f, c}
  <2>1. /\ <<f, c>> \in Seq(Calls) /\ Ordered(<<f, c>>) /\ <<f, c>> # <<>>
        /\ Head(<<f, c>>) = Call("forget", k, i) /\ SetOf(<<f, c>>) = {f, c}
    BY <1>4, <1>5
  <2> QED
    BY <2>1, BeforeForget
<1>7. {r} \cup {f, c} = {r, f, c} /\ <<r, f, c>> # <<>>
  OBVIOUS
<1> QED
  BY <1>1, <1>5, <1>6, <1>7

\* A step after which its operation holds neither lock.
LEMMA Unlocked ==
  ASSUME NEW a \in Actors, mutation' # a, credential' # a,
         op'[a].todo = <<>> \/ Head(op'[a].todo).step \notin Locking
  PROVE  HolderOK(a)'
BY DEF HolderOK, Doing, Now, Locking

\* What follows a change of row.
LEMMA SaveBase ==
  ASSUME Base, NEW a \in Actors, Save(a)
  PROVE  /\ Base' /\ OneMoves(a) /\ SameCommand(op[a], op'[a]) /\ op'[a].done = op[a].done
         /\ Now(a).step = "save" /\ op[a].todo # <<>> /\ CallsOf(op[a]) = {Now(a)}
         /\ mutation = a /\ mutation' = NoOne /\ row = op[a].oldId /\ key = Now(a).key
         /\ row # 0 => op[a].oldKey \in Keys
         /\ op[a].kind = "activate" /\ op[a].id # 0 /\ op'[a].list = op[a].list
         /\ \/ /\ row' = Now(a).id /\ key' = key /\ NoFault
               /\ CallsOf(op'[a]) =
                    {Call("ensure", Now(a).key, Now(a).id)}
                    \cup (IF Teardown(a) THEN {Call("release", op[a].oldKey, op[a].oldId),
                                               Call("forget", op[a].oldKey, op[a].oldId)}
                                         ELSE {})
            \/ /\ row' = row /\ key' = op[a].oldKey /\ Fault
               /\ CallsOf(op'[a]) = {Call("seat", Now(a).key, Now(a).id)}
<1> DEFINE o == op[a]
           k == Now(a).key
           i == Now(a).id
           e == Call("ensure", k, i)
           s == Call("seat", k, i)
<1>1. /\ o \in Ops /\ OpOK(o) /\ OpMinted(o, minted) /\ HolderOK(a)
      /\ Now(a).step = "save" /\ o.todo # <<>> /\ CallOK(o, Now(a)) /\ i <= minted
      /\ CallsOf(o) = {Now(a)} /\ Now(a) \in Calls
      /\ k \in Keys /\ i # 0 /\ i \in Instances /\ o.kind = "activate" /\ o.id # 0
  BY Known, Alone DEF Save, Doing, Now, Ending, CallOK, Naming, Calls
<1>2. /\ mutation = a /\ row = o.oldId /\ key = k /\ (row # 0 => o.oldKey \in Keys)
      /\ credential # a
  BY <1>1 DEF HolderOK, Doing, Now
<1>3. /\ e \in Calls /\ e.step = "ensure" /\ e.key = k /\ e.id = i
      /\ s \in Calls /\ s.step = "seat" /\ s.key = k /\ s.id = i
  BY <1>1 DEF Call, Calls, Steps
<1>4. CallOK(o, e) /\ CallOK(o, s)
  BY <1>1, <1>3 DEF CallOK
<1> HIDE DEF e, s
<1>5. /\ UNCHANGED <<token, nonce, owed, abandoned, credential, seats, creds, learned, starts, minted>>
      /\ mutation' = NoOne
  BY DEF Save, secrets, service
<1>13. faults' \in 0..MaxFaults
  <2>1. (Fault \/ NoFault) /\ faults \in 0..MaxFaults
    BY DEF Save, Base, TypeOK
  <2> QED
    BY <2>1, BoundsAssumption DEF Fault, NoFault
<1>6. /\ o.oldId \in {0} \cup Instances /\ o.oldKey \in Keys \cup {NoKey} /\ o.oldId <= minted
  BY <1>1, Fields DEF OpMinted
<1>7. /\ row' \in {0} \cup Instances /\ row' <= minted /\ key' \in Keys \cup {NoKey}
      /\ entitled' \in BOOLEAN /\ (row' # 0 => key' \in Keys)
  BY <1>1, <1>2, <1>6 DEF Save, Base, TypeOK, StoredMinted
<1>8. Stored' /\ IsFiniteSet(creds') /\ StoredMinted' /\ minted <= minted' /\ minted' = minted
  BY <1>5, <1>7, <1>13, Known, Numbers DEF Base, TypeOK, Stored, Finite, StoredMinted
<1>9. mutation' # a /\ credential' # a
  BY <1>2, <1>5, Numbers
<1>10. ASSUME NEW t, Then(a, t), t \in Seq(Calls), Ordered(t), t # <<>>,
              Head(t).step \notin Locking,
              \A c \in SetOf(t) : CallOK(o, c) /\ c.step \notin {"row", "key"} /\ c.id <= minted
       PROVE  /\ Base' /\ OneMoves(a) /\ SameCommand(o, op'[a]) /\ op'[a].done = o.done
              /\ CallsOf(op'[a]) = SetOf(t) /\ op'[a].list = o.list
  <2>1. /\ OneMoves(a) /\ SameCommand(o, op'[a]) /\ OpOK(op'[a])
        /\ OpMinted(op'[a], minted) /\ IsFiniteSet(op'[a].shown)
        /\ op'[a].todo = t /\ CallsOf(op'[a]) = SetOf(t)
        /\ op'[a].list = o.list /\ op'[a].done = o.done
    BY <1>1, <1>10, ThenCalls
  <2>2. HolderOK(a)'
    BY <1>9, <1>10, <2>1, Unlocked
  <2>3. Base'
    BY <1>2, <1>5, <1>7, <1>8, <2>1, <2>2, Kept
  <2> QED
    BY <2>1, <2>3
<1>11. CASE /\ row' = i /\ entitled' = TRUE /\ Then(a, Sweep(a) \o <<e>>) /\ NoFault
            /\ UNCHANGED key
  <2> DEFINE r == Call("release", o.oldKey, o.oldId)
             f == Call("forget", o.oldKey, o.oldId)
  <2>1. CASE Teardown(a)
    <3>1. o.oldKey \in Keys /\ o.oldId \in Instances /\ o.oldId # 0
      BY <1>6, <2>1 DEF Teardown
    <3>2. /\ <<r, f, e>> \in Seq(Calls) /\ <<r, f, e>> # <<>> /\ Ordered(<<r, f, e>>)
          /\ Head(<<r, f, e>>) = r /\ SetOf(<<r, f, e>>) = {r, f, e}
          /\ r \in Calls /\ f \in Calls /\ r.step = "release" /\ f.step = "forget"
          /\ r.key = o.oldKey /\ r.id = o.oldId /\ f.key = o.oldKey /\ f.id = o.oldId
          /\ <<r, f>> \o <<e>> = <<r, f, e>>
      BY <1>3, <3>1, GivingBack
    <3>3. Then(a, <<r, f, e>>)
      BY <1>11, <2>1, <3>2 DEF Sweep
    <3> HIDE DEF r, f
    <3>4. CallOK(o, r) /\ CallOK(o, f)
      BY <3>1, <3>2 DEF CallOK
    <3>5. Head(<<r, f, e>>).step \notin Locking
      BY <3>2 DEF Locking
    <3>6. /\ \A c \in SetOf(<<r, f, e>>) : CallOK(o, c) /\ c.step \notin {"row", "key"}
                                           /\ c.id <= minted
      BY <1>1, <1>3, <1>4, <1>6, <3>2, <3>4
    <3>7. /\ Base' /\ OneMoves(a) /\ SameCommand(o, op'[a]) /\ op'[a].done = o.done
          /\ CallsOf(op'[a]) = {r, f, e} /\ op'[a].list = o.list
      BY <1>10, <3>2, <3>3, <3>5, <3>6
    <3>8. {r, f, e} = {e} \cup {r, f}
      OBVIOUS
    <3> QED
      BY <1>1, <1>2, <1>5, <1>11, <2>1, <3>7, <3>8 DEF r, f, e
  <2>2. CASE ~Teardown(a)
    <3>1. Sweep(a) \o <<e>> = <<e>>
      <4>1. <<e>> \in Seq(Calls) /\ Sweep(a) = <<>>
        BY <1>3, <2>2 DEF Sweep
      <4> QED
        BY <4>1, ConcatEmptySeq
    <3>2. /\ <<e>> \in Seq(Calls) /\ <<e>> # <<>> /\ Ordered(<<e>>) /\ SetOf(<<e>>) = {e}
          /\ Head(<<e>>) = e /\ Then(a, <<e>>)
      BY <1>3, <1>11, <3>1, SetOfOne
    <3>3. /\ Base' /\ OneMoves(a) /\ SameCommand(o, op'[a]) /\ op'[a].done = o.done
          /\ CallsOf(op'[a]) = {e} /\ op'[a].list = o.list
      BY <1>1, <1>3, <1>4, <1>10, <3>2 DEF Locking
    <3> QED
      BY <1>1, <1>2, <1>5, <1>11, <2>2, <3>3 DEF e
  <2> QED
    BY <2>1, <2>2
<1>12. CASE /\ Fault /\ key' = o.oldKey /\ Then(a, <<s>>) /\ UNCHANGED <<row, entitled>>
  <2>1. /\ <<s>> \in Seq(Calls) /\ <<s>> # <<>> /\ Ordered(<<s>>) /\ SetOf(<<s>>) = {s}
        /\ Head(<<s>>) = s
    BY <1>3, SetOfOne
  <2>2. /\ Base' /\ OneMoves(a) /\ SameCommand(o, op'[a]) /\ op'[a].done = o.done
        /\ CallsOf(op'[a]) = {s} /\ op'[a].list = o.list
    BY <1>1, <1>3, <1>4, <1>10, <1>12, <2>1 DEF Locking
  <2> QED
    BY <1>1, <1>2, <1>5, <1>12, <2>2 DEF s
<1> QED
  BY <1>11, <1>12 DEF Save, e, s

LEMMA ClearRowBase ==
  ASSUME Base, NEW a \in Actors, ClearRow(a)
  PROVE  /\ Base' /\ OneMoves(a)
         /\ Now(a).step = "clear" /\ op[a].todo # <<>> /\ CallsOf(op[a]) = {Now(a)}
         /\ mutation = NoOne /\ key' = key
         /\ \/ /\ row' = 0 /\ row = Now(a).id /\ key = Now(a).key /\ NoFault /\ mutation' = a
               /\ SameCommand(op[a], op'[a]) /\ op'[a].done = op[a].done
               /\ CallsOf(op'[a]) = {Call("unkey", key, row), Call("release", key, row),
                                    Call("forget", key, row), Call("seat", key, row)}
            \/ /\ row' = 0 /\ row = Now(a).id /\ key = Now(a).key /\ Fault /\ mutation' = a
               /\ SameCommand(op[a], op'[a]) /\ op'[a].done = op[a].done
               /\ op'[a].todo # <<>> /\ Head(op'[a].todo) = Call("record", key, row)
               /\ CallsOf(op'[a]) = {Call("record", key, row)}
            \/ /\ row' = row /\ NoFault /\ UNCHANGED mutation
               /\ op'[a] = Resting
<1> DEFINE o == op[a]
           k == Now(a).key
           i == Now(a).id
           n == Call("unkey", k, i)
           s == Call("seat", k, i)
           d == Call("record", k, i)
           r == Call("release", k, i)
           f == Call("forget", k, i)
<1>1. /\ o \in Ops /\ OpOK(o) /\ OpMinted(o, minted) /\ HolderOK(a) /\ minted \in Nat
      /\ Now(a).step = "clear" /\ o.todo # <<>> /\ CallOK(o, Now(a)) /\ i <= minted
      /\ CallsOf(o) = {Now(a)} /\ Now(a) \in Calls /\ i \in {0} \cup Instances
      /\ i = o.oldId /\ k = o.oldKey /\ i # 0 /\ mutation = NoOne
  BY Known, Alone DEF ClearRow, Doing, Now, Ending, CallOK, Calls
<1>2. credential # a
  BY <1>1 DEF HolderOK, Doing, Now
<1>3. /\ UNCHANGED <<key, token, nonce, owed, abandoned, credential, seats, creds, learned, starts, minted>>
  BY DEF ClearRow, secrets, service
<1>4. CASE Finish(a) /\ NoFault /\ UNCHANGED <<row, entitled, mutation>>
  <2>1. /\ OneMoves(a) /\ op'[a] = Resting /\ OpOK(op'[a]) /\ OpMinted(op'[a], minted')
        /\ IsFiniteSet(op'[a].shown) /\ CallsOf(op'[a]) = {} /\ op'[a].todo = <<>>
    BY <1>1, <1>3, <1>4, Finished
  <2>2. Stored' /\ IsFiniteSet(creds') /\ StoredMinted' /\ minted <= minted'
    BY <1>3, <1>4, Known DEF Base, TypeOK, Stored, Finite, StoredMinted, NoFault
  <2>3. Base'
    BY <1>1, <1>3, <1>4, <2>1, <2>2, LockFree, NotHolding DEF Locking
  <2> QED
    BY <1>1, <1>3, <1>4, <2>1, <2>3
<1>5. ASSUME Unchanged(a), row' = 0, entitled' = FALSE,
             \/ /\ mutation' = a
                /\ Then(a, <<n>> \o (IF k = NoKey THEN <<>> ELSE <<r, f, s>>)) /\ NoFault
             \/ /\ Fault
                /\ IF k = NoKey THEN Finish(a) /\ UNCHANGED mutation
                                ELSE mutation' = a /\ Then(a, <<d>>)
      PROVE  /\ Base' /\ OneMoves(a) /\ row = i /\ key = k /\ mutation' = a
             /\ SameCommand(o, op'[a]) /\ op'[a].done = o.done
             /\ \/ NoFault /\ CallsOf(op'[a]) = {n, r, f, s}
                \/ /\ Fault /\ op'[a].todo # <<>> /\ Head(op'[a].todo) = d
                   /\ CallsOf(op'[a]) = {d}
  <2>1. row = i /\ key = k /\ k \in Keys /\ i \in Instances /\ k # NoKey
    BY <1>1, <1>5, Numbers DEF Unchanged, Base
  <2>2. /\ n \in Calls /\ s \in Calls /\ d \in Calls
        /\ n.step = "unkey" /\ s.step = "seat" /\ d.step = "record"
        /\ n.key = k /\ s.key = k /\ d.key = k /\ n.id = i /\ s.id = i /\ d.id = i
    BY <2>1 DEF Call, Calls, Steps
  <2> HIDE DEF n, s, d
  <2>3. /\ <<r, f, s>> \in Seq(Calls) /\ <<r, f, s>> # <<>> /\ Ordered(<<r, f, s>>)
        /\ Head(<<r, f, s>>) = r /\ SetOf(<<r, f, s>>) = {r, f, s}
        /\ r \in Calls /\ f \in Calls /\ r.step = "release" /\ f.step = "forget"
        /\ r.key = k /\ r.id = i /\ f.key = k /\ f.id = i
    <3>1. /\ r \in Calls /\ f \in Calls /\ r.step = "release" /\ f.step = "forget"
          /\ r.key = k /\ r.id = i /\ f.key = k /\ f.id = i
      BY <2>1 DEF Call, Calls, Steps
    <3>2. s = Call("seat", k, i)
      BY DEF s
    <3> QED
      BY <2>1, <2>2, <3>1, <3>2, GivingBack
  <2> HIDE DEF r, f
  <2>4. CallOK(o, n) /\ CallOK(o, s) /\ CallOK(o, d) /\ CallOK(o, r) /\ CallOK(o, f)
    BY <1>1, <2>1, <2>2, <2>3 DEF CallOK, Naming
  <2>5. Stored' /\ IsFiniteSet(creds') /\ StoredMinted' /\ minted <= minted' /\ minted' = minted
    <3>1. faults' \in 0..MaxFaults
      <4>1. (Fault \/ NoFault) /\ faults \in 0..MaxFaults
        BY <1>5 DEF Base, TypeOK
      <4> QED
        BY <4>1, BoundsAssumption DEF Fault, NoFault
    <3>2. mutation' \in Actors /\ 0 <= minted
      BY <1>1, <1>5, <2>1
    <3>3. Stored' /\ IsFiniteSet(creds')
      BY <1>3, <1>5, <3>1, <3>2 DEF Base, TypeOK, Stored, Finite
    <3>4. StoredMinted' /\ minted <= minted'
      BY <1>1, <1>3, <1>5, <3>2 DEF Base, StoredMinted
    <3> QED
      BY <1>3, <3>3, <3>4
  <2>6. ASSUME NEW t, Then(a, t), t \in Seq(Calls), Ordered(t), t # <<>>,
               Head(t).step \in {"unkey", "record"}, mutation' = a,
               \A c \in SetOf(t) : CallOK(o, c) /\ c.step \notin {"row", "key"} /\ c.id <= minted
        PROVE  /\ Base' /\ OneMoves(a) /\ SameCommand(o, op'[a]) /\ op'[a].done = o.done
               /\ CallsOf(op'[a]) = SetOf(t) /\ op'[a].todo = t
    <3>1. /\ OneMoves(a) /\ SameCommand(o, op'[a]) /\ OpOK(op'[a])
          /\ OpMinted(op'[a], minted) /\ IsFiniteSet(op'[a].shown)
          /\ op'[a].todo = t /\ CallsOf(op'[a]) = SetOf(t) /\ op'[a].done = o.done
      BY <1>1, <2>6, ThenCalls
    <3>2. HolderOK(a)'
      BY <1>2, <1>3, <1>5, <2>6, <3>1 DEF HolderOK, Doing, Now
    <3>3. mutation' # NoOne
      BY <2>6, Numbers
    <3>4. Base'
      BY <1>1, <1>3, <2>5, <2>6, <3>1, <3>2, <3>3, Kept
    <3> QED
      BY <3>1, <3>4
  <2>7. CASE mutation' = a /\ Then(a, <<n>> \o <<r, f, s>>) /\ NoFault
    <3> DEFINE t == <<n>> \o <<r, f, s>>
    <3>1. <<n.step, Head(<<r, f, s>>).step>> \in Follows
      BY <2>2, <2>3 DEF Follows
    <3>2. /\ Ordered(t) /\ Head(t) = n /\ t \in Seq(Calls)
          /\ SetOf(t) = {n} \cup SetOf(<<r, f, s>>)
      BY <2>2, <2>3, <3>1, Before
    <3>3. t # <<>>
      BY <2>2, <2>3, Cons
    <3>4. Then(a, t)
      BY <2>7
    <3> HIDE DEF t
    <3>5. SetOf(t) = {n, r, f, s}
      BY <2>3, <3>2
    <3>6. \A c \in SetOf(t) : CallOK(o, c) /\ c.step \notin {"row", "key"} /\ c.id <= minted
      BY <1>1, <2>2, <2>3, <2>4, <3>5
    <3> QED
      BY <2>1, <2>2, <2>6, <2>7, <3>2, <3>3, <3>4, <3>5, <3>6
  <2>8. CASE Fault /\ mutation' = a /\ Then(a, <<d>>)
    <3>1. /\ <<d>> \in Seq(Calls) /\ <<d>> # <<>> /\ Ordered(<<d>>) /\ SetOf(<<d>>) = {d}
          /\ Head(<<d>>) = d
      BY <2>2, SetOfOne
    <3>2. \A c \in SetOf(<<d>>) : CallOK(o, c) /\ c.step \notin {"row", "key"} /\ c.id <= minted
      BY <1>1, <2>2, <2>4, <3>1
    <3>3. /\ Base' /\ OneMoves(a) /\ SameCommand(o, op'[a]) /\ op'[a].done = o.done
          /\ CallsOf(op'[a]) = {d} /\ op'[a].todo = <<d>>
      BY <2>2, <2>6, <2>8, <3>1, <3>2
    <3> QED
      BY <2>1, <2>8, <3>1, <3>3
  <2> QED
    BY <1>5, <2>1, <2>7, <2>8
<1>6. \/ /\ Unchanged(a) /\ row' = 0 /\ entitled' = FALSE
         /\ \/ /\ mutation' = a
               /\ Then(a, <<n>> \o (IF k = NoKey THEN <<>> ELSE <<r, f, s>>)) /\ NoFault
            \/ /\ Fault
               /\ IF k = NoKey THEN Finish(a) /\ UNCHANGED mutation
                               ELSE mutation' = a /\ Then(a, <<d>>)
      \/ Finish(a) /\ NoFault /\ UNCHANGED <<row, entitled, mutation>>
  BY DEF ClearRow
<1>7. CASE Finish(a) /\ NoFault /\ UNCHANGED <<row, entitled, mutation>>
  BY <1>4, <1>7
<1>8. CASE ~(Finish(a) /\ NoFault /\ UNCHANGED <<row, entitled, mutation>>)
  <2>1. row' = 0
    BY <1>6, <1>8
  <2> QED
    BY <1>1, <1>3, <1>5, <1>6, <1>8, <2>1
<1> QED
  BY <1>7, <1>8

LEMMA DeleteKeyBase ==
  ASSUME Base, NEW a \in Actors, DeleteKey(a)
  PROVE  /\ Base' /\ OneMoves(a) /\ SameCommand(op[a], op'[a]) /\ op'[a].done = op[a].done
         /\ Now(a).step = "unkey" /\ op[a].todo # <<>>
         /\ mutation = a /\ mutation' = NoOne /\ row = 0 /\ row' = 0
         /\ CallsOf(op'[a]) \subseteq CallsOf(op[a])
         /\ CallsOf(op[a]) \subseteq CallsOf(op'[a]) \cup {Now(a)}
<1>1. /\ op[a].todo # <<>> /\ Now(a).step = "unkey" /\ Then(a, Rest(a)) /\ HolderOK(a)
      /\ minted \in Nat
  BY Known DEF DeleteKey, Doing, Now
<1>2. mutation = a /\ row = 0 /\ credential # a
  BY <1>1 DEF HolderOK, Doing, Now
<1>3. /\ OneMoves(a) /\ SameCommand(op[a], op'[a]) /\ OpOK(op'[a])
      /\ OpMinted(op'[a], minted) /\ IsFiniteSet(op'[a].shown) /\ op'[a].done = op[a].done
      /\ CallsOf(op'[a]) \subseteq CallsOf(op[a])
      /\ CallsOf(op[a]) \subseteq CallsOf(op'[a]) \cup {Now(a)}
      /\ op'[a].todo # <<>> => <<Now(a).step, Head(op'[a].todo).step>> \in Follows
  BY <1>1, ThenRest
<1>4. op'[a].todo # <<>> => Head(op'[a].todo).step = "release"
  BY <1>1, <1>3 DEF Follows
<1>5. /\ UNCHANGED <<row, credential, creds, owed, abandoned, nonce, token, entitled, learned, seats,
                     minted>>
      /\ key' \in {NoKey, key} /\ mutation' = NoOne
  BY DEF DeleteKey, service, secrets
<1>6. Stored' /\ IsFiniteSet(creds') /\ StoredMinted' /\ minted <= minted'
  <2>1. faults' \in 0..MaxFaults
    BY FaultOrNot DEF DeleteKey, Base
  <2> QED
    BY <1>1, <1>5, <2>1 DEF Base, TypeOK, Stored, Finite, StoredMinted
<1>7. HolderOK(a)'
  BY <1>2, <1>4, <1>5, Unlocked, Numbers DEF Locking
<1>8. Base'
  BY <1>2, <1>3, <1>5, <1>6, <1>7, Kept
<1> QED
  BY <1>1, <1>2, <1>3, <1>5, <1>8

LEMMA EndedBase ==
  ASSUME Base, NEW a \in Actors, Ended(a)
  PROVE  Base' /\ OneMoves(a) /\ op'[a] = Resting /\ CallsOf(op[a]) = {} /\ op[a].todo = <<>>
<1>1. op[a].todo = <<>> /\ Finish(a) /\ minted \in Nat
  BY Known DEF Ended
<1>2. Stored' /\ IsFiniteSet(creds') /\ StoredMinted' /\ minted' = minted /\ minted <= minted'
      /\ UNCHANGED <<row, key, mutation, credential>> /\ minted' \in Nat
  BY <1>1, StoredStays DEF Ended, bounds, Base, TypeOK
<1>3. /\ OneMoves(a) /\ op'[a] = Resting /\ OpOK(op'[a]) /\ OpMinted(op'[a], minted')
      /\ IsFiniteSet(op'[a].shown) /\ CallsOf(op'[a]) = {} /\ op'[a].todo = <<>>
  BY <1>1, <1>2, Finished
<1>4. Base'
  BY <1>1, <1>2, <1>3, LockFree, NotHolding DEF Locking
<1>5. CallsOf(op[a]) = {}
  BY <1>1 DEF CallsOf
<1> QED
  BY <1>1, <1>3, <1>4, <1>5

\* The first call is made, and whether its answer was lost is noted.
LEMMA Noted ==
  ASSUME Base, NEW a \in Actors, op[a].todo # <<>>, NEW b \in BOOLEAN,
         op' = [op EXCEPT ![a].todo = Rest(a), ![a].lost = b],
         Now(a).step \in {"release", "forget"}, b => Now(a).step = "release"
  PROVE  /\ OneMoves(a) /\ SameCommand(op[a], op'[a]) /\ OpOK(op'[a])
         /\ OpMinted(op'[a], minted) /\ IsFiniteSet(op'[a].shown) /\ op'[a].lost = b
         /\ op'[a].list = op[a].list /\ op'[a].done = op[a].done
         /\ CallsOf(op'[a]) \subseteq CallsOf(op[a])
         /\ CallsOf(op[a]) \subseteq CallsOf(op'[a]) \cup {Now(a)}
         /\ op'[a].todo # <<>> => <<Now(a).step, Head(op'[a].todo).step>> \in Follows
         /\ Now(a).step = "release" =>
              op'[a].todo # <<>> /\ Head(op'[a].todo) = Call("forget", Now(a).key, Now(a).id)
<1> DEFINE o == op[a]
           t == Rest(a)
           u == [o EXCEPT !.todo = t, !.lost = b]
<1>1. /\ o \in Ops /\ OpOK(o) /\ OpMinted(o, minted) /\ IsFiniteSet(o.shown)
  BY Known
<1>2. t \in Seq(Calls) /\ t = Tail(o.todo)
  BY <1>1, Fields, HeadAndTail DEF Rest
<1>3. op' = [op EXCEPT ![a] = u]
  OBVIOUS
<1> HIDE DEF t
<1>4. /\ u \in Ops /\ SameCommand(o, u) /\ u.todo = t /\ u.lost = b
      /\ u.list = o.list /\ u.done = o.done /\ u.shown = o.shown
  BY <1>1, <1>2 DEF Ops, SameCommand
<1> HIDE DEF u
<1>5. OneMoves(a) /\ op'[a] = u
  BY <1>3, <1>4, Becomes DEF Base
<1>6. /\ OpOK(u) /\ CallsOf(u) \subseteq CallsOf(o)
      /\ CallsOf(o) \subseteq CallsOf(u) \cup {Now(a)}
      /\ u.todo # <<>> => <<Now(a).step, Head(u.todo).step>> \in Follows
      /\ Now(a).step = "release" =>
           u.todo # <<>> /\ Head(u.todo) = Call("forget", Now(a).key, Now(a).id)
  BY <1>1, <1>2, <1>4, Dropped DEF Now
<1>7. OpMinted(u, minted)
  BY <1>1, <1>4, <1>6 DEF OpMinted, SameCommand
<1> QED
  BY <1>1, <1>4, <1>5, <1>6, <1>7

LEMMA ReleaseBase ==
  ASSUME Base, NEW a \in Actors, Release(a)
  PROVE  /\ Base' /\ OneMoves(a) /\ SameCommand(op[a], op'[a]) /\ op'[a].done = op[a].done
         /\ op'[a].list = op[a].list
         /\ Now(a).step = "release" /\ op[a].todo # <<>> /\ ~op[a].lost /\ mutation # a
         /\ Now(a).key \in Keys /\ Now(a).id \in Instances
         /\ op'[a].todo # <<>> /\ Head(op'[a].todo) = Call("forget", Now(a).key, Now(a).id)
         /\ CallsOf(op'[a]) \subseteq CallsOf(op[a])
         /\ CallsOf(op[a]) \subseteq CallsOf(op'[a]) \cup {Now(a)}
         /\ abandoned \subseteq abandoned'
         /\ \/ /\ creds' = creds \ Of(Now(a).key, Now(a).id) /\ ~op'[a].lost /\ NoFault
            \/ /\ creds' = creds /\ ~op'[a].lost /\ Fault
               /\ Owed(Now(a).key, Now(a).id, "catalog") \in abandoned'
            \/ /\ creds' \in {creds, creds \ Of(Now(a).key, Now(a).id)} /\ op'[a].lost /\ Fault
<1>1. /\ op[a] \in Ops /\ OpOK(op[a]) /\ op[a].todo # <<>> /\ Now(a).step = "release"
      /\ Now(a) \in Calls /\ CallOK(op[a], Now(a)) /\ minted \in Nat
  BY Known DEF Release, Doing, Now
<1>2. ~op[a].lost /\ mutation # a /\ Now(a).key \in Keys /\ Now(a).id \in Instances
  BY <1>1, NotHolding DEF OpOK, Now, CallOK, Naming, Calls
<1>3. PICK b \in BOOLEAN :
        /\ op' = [op EXCEPT ![a].todo = Rest(a), ![a].lost = b]
        /\ \/ /\ ~b /\ creds' = creds \ Of(Now(a).key, Now(a).id) /\ NoFault
              /\ abandoned' = abandoned
           \/ /\ ~b /\ creds' = creds /\ Fault
              /\ abandoned' = abandoned \cup {Owed(Now(a).key, Now(a).id, "catalog")}
           \/ /\ b /\ creds' \in {creds, creds \ Of(Now(a).key, Now(a).id)} /\ Fault
              /\ abandoned' = abandoned
  BY DEF Release, Abandon
<1>4. /\ OneMoves(a) /\ SameCommand(op[a], op'[a]) /\ OpOK(op'[a])
      /\ OpMinted(op'[a], minted) /\ IsFiniteSet(op'[a].shown) /\ op'[a].lost = b
      /\ op'[a].list = op[a].list /\ op'[a].done = op[a].done
      /\ CallsOf(op'[a]) \subseteq CallsOf(op[a])
      /\ CallsOf(op[a]) \subseteq CallsOf(op'[a]) \cup {Now(a)}
      /\ op'[a].todo # <<>> /\ Head(op'[a].todo) = Call("forget", Now(a).key, Now(a).id)
  BY <1>1, <1>3, Noted
<1>5. /\ UNCHANGED <<row, key, entitled, token, nonce, owed, mutation, seats, learned, minted>>
      /\ credential = NoOne /\ credential' = a /\ creds' \subseteq creds
  BY <1>3 DEF Release, local, secrets
<1>6. Stored' /\ IsFiniteSet(creds') /\ StoredMinted' /\ minted <= minted'
  <2>1. faults' \in 0..MaxFaults
    BY <1>3, FaultOrNot DEF Base
  <2>5. abandoned' \subseteq Releases
    BY <1>2, <1>3 DEF Base, TypeOK, Owed, Releases, Sides
  <2>2. Stored'
    BY <1>5, <2>1, <2>5 DEF Base, TypeOK, Stored
  <2>3. IsFiniteSet(creds')
    BY <1>5, FS_Subset DEF Base, Finite
  <2>4. StoredMinted' /\ minted <= minted'
    BY <1>1, <1>5 DEF Base, StoredMinted
  <2> QED
    BY <2>2, <2>3, <2>4
<1>7. HolderOK(a)'
  <2>1. Head(op'[a].todo).step = "forget"
    BY <1>4 DEF Call
  <2> QED
    BY <1>2, <1>4, <1>5, <2>1 DEF HolderOK, Doing, Now
<1>8. mutation' = NoOne /\ row' # 0 => key' \in Keys
  BY <1>5 DEF Base
<1>9. Base'
  BY <1>4, <1>5, <1>6, <1>7, <1>8, Kept
<1> QED
  BY <1>1, <1>2, <1>3, <1>4, <1>9

LEMMA ForgetBase ==
  ASSUME Base, NEW a \in Actors, Forget(a)
  PROVE  /\ Base' /\ OneMoves(a) /\ SameCommand(op[a], op'[a]) /\ op'[a].done = op[a].done
         /\ op'[a].list = op[a].list /\ ~op'[a].lost
         /\ Now(a).step = "forget" /\ op[a].todo # <<>> /\ credential = a /\ mutation # a
         /\ Now(a).key \in Keys /\ Now(a).id \in Instances
         /\ owed \subseteq owed' /\ abandoned \subseteq abandoned'
         /\ op[a].lost => Owed(Now(a).key, Now(a).id, "catalog") \in owed' \cup abandoned'
         /\ CallsOf(op'[a]) \subseteq CallsOf(op[a])
         /\ CallsOf(op[a]) \subseteq CallsOf(op'[a]) \cup {Now(a)}
<1>1. /\ op[a] \in Ops /\ op[a].todo # <<>> /\ Now(a).step = "forget" /\ HolderOK(a)
      /\ Now(a) \in Calls /\ CallOK(op[a], Now(a)) /\ minted \in Nat /\ Now(a).id <= minted
  BY Known DEF Forget, Doing, Now
<1>2. /\ credential = a /\ mutation # a /\ Now(a).key \in Keys /\ Now(a).id \in Instances
  BY <1>1, NotHolding DEF HolderOK, Doing, Now, CallOK, Naming, Calls
<1>3. op' = [op EXCEPT ![a].todo = Rest(a), ![a].lost = FALSE]
  BY DEF Forget
<1>4. /\ OneMoves(a) /\ SameCommand(op[a], op'[a]) /\ OpOK(op'[a])
      /\ OpMinted(op'[a], minted) /\ IsFiniteSet(op'[a].shown) /\ op'[a].lost = FALSE
      /\ op'[a].list = op[a].list /\ op'[a].done = op[a].done
      /\ CallsOf(op'[a]) \subseteq CallsOf(op[a])
      /\ CallsOf(op[a]) \subseteq CallsOf(op'[a]) \cup {Now(a)}
      /\ op'[a].todo # <<>> => <<Now(a).step, Head(op'[a].todo).step>> \in Follows
  BY <1>1, <1>3, Noted
<1>5. /\ UNCHANGED <<row, key, entitled, nonce, mutation, seats, creds, learned, minted>>
      /\ credential' = NoOne /\ token' \in {NoCred, token} /\ (Fault \/ NoFault)
      /\ owed' \subseteq owed \cup {Owed(Now(a).key, Now(a).id, "catalog")}
      /\ abandoned' \subseteq abandoned \cup {Owed(Now(a).key, Now(a).id, "catalog")}
      /\ owed \subseteq owed' /\ abandoned \subseteq abandoned'
      /\ op[a].lost => Owed(Now(a).key, Now(a).id, "catalog") \in owed' \cup abandoned'
  BY DEF Forget, local, service, Note, Abandon
<1>6. Stored' /\ IsFiniteSet(creds') /\ StoredMinted' /\ minted <= minted'
  <2>1. LET r == Owed(Now(a).key, Now(a).id, "catalog") IN r \in Releases /\ r.id <= minted
    BY <1>1, <1>2 DEF Owed, Releases, Sides
  <2>4. faults' \in 0..MaxFaults
    BY <1>5, FaultOrNot DEF Base
  <2>2. Stored' /\ IsFiniteSet(creds')
    BY <1>5, <2>1, <2>4 DEF Base, TypeOK, Stored, Finite
  <2>3. StoredMinted' /\ minted <= minted'
    BY <1>1, <1>5, <2>1 DEF Base, StoredMinted
  <2> QED
    BY <2>2, <2>3
<1>7. HolderOK(a)'
  <2>1. op'[a].todo # <<>> => Head(op'[a].todo).step \notin Locking
    BY <1>1, <1>4 DEF Follows, Locking
  <2> QED
    BY <1>2, <1>5, <2>1, Unlocked, Numbers
<1>8. mutation' = NoOne /\ row' # 0 => key' \in Keys
  BY <1>5 DEF Base
<1>9. Base'
  BY <1>2, <1>4, <1>5, <1>6, <1>7, <1>8, Kept
<1> QED
  BY <1>1, <1>2, <1>4, <1>5, <1>9

LEMMA ReleaseSeatBase ==
  ASSUME Base, NEW a \in Actors, ReleaseSeat(a)
  PROVE  /\ Base' /\ OneMoves(a) /\ SameCommand(op[a], op'[a]) /\ op'[a].done = op[a].done
         /\ op'[a].list = op[a].list
         /\ Now(a).step = "seat" /\ op[a].todo # <<>> /\ mutation # a
         /\ Now(a).key \in Keys /\ Now(a).id \in Instances
         /\ CallsOf(op[a]) \subseteq CallsOf(op'[a]) \cup {Now(a)}
         /\ abandoned \subseteq abandoned'
         /\ \/ /\ seats' = seats \ {<<Now(a).key, Now(a).id>>} /\ NoFault
               /\ CallsOf(op'[a]) \subseteq CallsOf(op[a])
            \/ /\ seats' = seats /\ Fault
               /\ Owed(Now(a).key, Now(a).id, "provider") \in abandoned'
               /\ CallsOf(op'[a]) \subseteq CallsOf(op[a])
            \/ /\ seats' \subseteq seats /\ Fault
               /\ op'[a].todo # <<>> /\ Head(op'[a].todo) = Call("record", Now(a).key, Now(a).id)
               /\ Call("record", Now(a).key, Now(a).id) \in CallsOf(op'[a])
               /\ CallsOf(op'[a]) \subseteq CallsOf(op[a])
                                            \cup {Call("record", Now(a).key, Now(a).id)}
<1> DEFINE o == op[a]
           k == Now(a).key
           i == Now(a).id
           d == Call("record", k, i)
<1>1. /\ o \in Ops /\ OpOK(o) /\ o.todo # <<>> /\ Now(a).step = "seat" /\ HolderOK(a)
      /\ Now(a) \in Calls /\ CallOK(o, Now(a)) /\ minted \in Nat /\ i <= minted
  BY Known DEF ReleaseSeat, Doing, Now
<1>2. mutation # a /\ k \in Keys /\ i \in Instances /\ i # 0
  BY <1>1, NotHolding DEF CallOK, Naming, Calls
<1>3. /\ UNCHANGED <<row, key, entitled, token, nonce, owed, mutation, credential, creds, learned,
                    minted>>
      /\ seats' \subseteq seats /\ abandoned \subseteq abandoned'
      /\ abandoned' \subseteq abandoned \cup {Owed(k, i, "provider")}
  BY DEF ReleaseSeat, local, secrets, locks, Abandon
<1>4. Stored' /\ IsFiniteSet(creds') /\ StoredMinted' /\ minted <= minted'
  <2>1. faults' \in 0..MaxFaults
    BY FaultOrNot DEF ReleaseSeat, Base
  <2>4. Owed(k, i, "provider") \in Releases
    BY <1>2 DEF Owed, Releases, Sides
  <2>2. Stored' /\ IsFiniteSet(creds')
    BY <1>3, <2>1, <2>4 DEF Base, TypeOK, Stored, Finite
  <2>3. StoredMinted' /\ minted <= minted'
    BY <1>1, <1>3 DEF Base, StoredMinted
  <2> QED
    BY <2>2, <2>3
<1>5. CASE /\ Then(a, Rest(a))
           /\ \/ seats' = seats \ {<<k, i>>} /\ NoFault
              \/ seats' = seats /\ Fault /\ Owed(k, i, "provider") \in abandoned'
  <2>1. /\ OneMoves(a) /\ SameCommand(o, op'[a]) /\ OpOK(op'[a])
        /\ OpMinted(op'[a], minted) /\ IsFiniteSet(op'[a].shown) /\ op'[a].done = o.done
        /\ op'[a].list = o.list
        /\ CallsOf(op'[a]) \subseteq CallsOf(o)
        /\ CallsOf(o) \subseteq CallsOf(op'[a]) \cup {Now(a)}
        /\ op'[a].todo # <<>> => <<Now(a).step, Head(op'[a].todo).step>> \in Follows
    BY <1>1, <1>5, ThenRest
  <2>2. op'[a].todo # <<>> => Head(op'[a].todo).step \notin Locking
    BY <1>1, <2>1 DEF Follows, Locking
  <2>3. Base'
    BY <1>1, <1>2, <1>3, <1>4, <2>1, <2>2, LockFree DEF Locking
  <2> QED
    BY <1>1, <1>2, <1>3, <1>5, <2>1, <2>3
<1>6. CASE Fault /\ Then(a, <<d>> \o Rest(a))
  <2> DEFINE t == <<d>> \o Rest(a)
  <2>1. /\ d \in Calls /\ d.step = "record" /\ d.key = k /\ d.id = i
    BY <1>2 DEF Call, Calls, Steps
  <2>2. CallOK(o, d)
    BY <1>2, <2>1 DEF CallOK
  <2> HIDE DEF d
  <2>3. /\ Rest(a) \in Seq(Calls) /\ Ordered(Rest(a)) /\ SetOf(Rest(a)) \subseteq CallsOf(o)
        /\ CallsOf(o) \subseteq SetOf(Rest(a)) \cup {Now(a)}
        /\ \A c \in SetOf(Rest(a)) : /\ CallOK(o, c) /\ c.id <= minted
                                     /\ c.step \notin {"row", "key"}
        /\ Rest(a) # <<>> => <<"seat", Head(Rest(a)).step>> \in Follows
    BY <1>1, RestOf
  <2>4. Rest(a) # <<>> => <<d.step, Head(Rest(a)).step>> \in Follows
    BY <2>1, <2>3 DEF Follows
  <2>5. /\ Ordered(t) /\ Head(t) = d /\ t \in Seq(Calls) /\ SetOf(t) = {d} \cup SetOf(Rest(a))
    BY <2>1, <2>3, <2>4, Before
  <2>6. t # <<>>
    BY <2>1, <2>3, Cons
  <2>7. Then(a, t)
    BY <1>6
  <2> HIDE DEF t
  <2>8. \A c \in SetOf(t) : CallOK(o, c) /\ c.step \notin {"row", "key"} /\ c.id <= minted
    BY <1>1, <2>1, <2>2, <2>3, <2>5
  <2>9. /\ OneMoves(a) /\ SameCommand(o, op'[a]) /\ OpOK(op'[a])
        /\ OpMinted(op'[a], minted) /\ IsFiniteSet(op'[a].shown)
        /\ op'[a].todo = t /\ CallsOf(op'[a]) = SetOf(t)
        /\ op'[a].list = o.list /\ op'[a].done = o.done
    BY <1>1, <2>5, <2>6, <2>7, <2>8, ThenCalls
  <2>10. Base'
    BY <1>1, <1>2, <1>3, <1>4, <2>1, <2>5, <2>9, LockFree DEF Locking
  <2> QED
    BY <1>1, <1>2, <1>3, <1>6, <2>3, <2>5, <2>6, <2>9, <2>10 DEF d
<1> QED
  BY <1>5, <1>6 DEF ReleaseSeat, Abandon

LEMMA RecordBase ==
  ASSUME Base, NEW a \in Actors, Record(a)
  PROVE  /\ Base' /\ OneMoves(a) /\ SameCommand(op[a], op'[a]) /\ op'[a].done = op[a].done
         /\ op'[a].list = op[a].list
         /\ Now(a).step = "record" /\ op[a].todo # <<>> /\ mutation' # a
         /\ Now(a).key \in Keys /\ Now(a).id \in Instances
         /\ owed \subseteq owed' /\ abandoned \subseteq abandoned'
         /\ Owed(Now(a).key, Now(a).id, "provider") \in owed' \cup abandoned'
         /\ mutation = a => Owed(Now(a).key, Now(a).id, "catalog") \in owed' \cup abandoned'
         /\ mutation # a => mutation' = mutation
         /\ \A r \in owed' \ owed : r.key = Now(a).key /\ r.id = Now(a).id
         /\ CallsOf(op'[a]) \subseteq CallsOf(op[a])
         /\ CallsOf(op[a]) \subseteq CallsOf(op'[a]) \cup {Now(a)}
<1> DEFINE k == Now(a).key
           i == Now(a).id
           news == {Owed(k, i, side) : side \in IF mutation = a THEN Sides ELSE {"provider"}}
<1>1. /\ op[a] \in Ops /\ op[a].todo # <<>> /\ Now(a).step = "record" /\ HolderOK(a)
      /\ Now(a) \in Calls /\ CallOK(op[a], Now(a)) /\ minted \in Nat /\ i <= minted
      /\ Then(a, Rest(a))
  BY Known DEF Record, Doing, Now
<1>2. k \in Keys /\ i \in Instances
  BY <1>1 DEF CallOK, Naming, Calls
<1>3. mutation = a => row = 0
  BY <1>1 DEF HolderOK, Doing, Now
<1>4. /\ \A r \in news : r \in Releases /\ r.id <= minted /\ r.key = k /\ r.id = i
      /\ Owed(k, i, "provider") \in news /\ (mutation = a => Owed(k, i, "catalog") \in news)
  <2>1. ASSUME NEW side \in Sides
        PROVE  LET r == Owed(k, i, side)
               IN r \in Releases /\ r.id <= minted /\ r.key = k /\ r.id = i
    BY <1>1, <1>2 DEF Owed, Releases
  <2>2. (IF mutation = a THEN Sides ELSE {"provider"}) \subseteq Sides /\ "provider" \in Sides
        /\ "catalog" \in Sides
    BY DEF Sides
  <2> QED
    BY <2>1, <2>2
<1>5. /\ UNCHANGED <<row, key, entitled, token, nonce, credential, seats, creds, learned, minted,
                    faults>>
      /\ owed \subseteq owed' /\ owed' \subseteq owed \cup news
      /\ abandoned \subseteq abandoned' /\ abandoned' \subseteq abandoned \cup news
      /\ news \subseteq owed' \cup abandoned' /\ credential = NoOne
      /\ mutation' = IF mutation = a THEN NoOne ELSE mutation
  BY DEF Record, local, service, Note, Abandon
<1> HIDE DEF news
<1>6. /\ OneMoves(a) /\ SameCommand(op[a], op'[a]) /\ OpOK(op'[a])
      /\ OpMinted(op'[a], minted) /\ IsFiniteSet(op'[a].shown) /\ op'[a].done = op[a].done
      /\ op'[a].list = op[a].list
      /\ CallsOf(op'[a]) \subseteq CallsOf(op[a])
      /\ CallsOf(op[a]) \subseteq CallsOf(op'[a]) \cup {Now(a)}
      /\ op'[a].todo # <<>> => <<Now(a).step, Head(op'[a].todo).step>> \in Follows
  BY <1>1, ThenRest
<1>7. mutation' # a /\ credential' # a
  BY <1>5, Numbers
<1>8. Stored' /\ IsFiniteSet(creds') /\ StoredMinted' /\ minted <= minted'
  <2>1. Stored' /\ IsFiniteSet(creds')
    BY <1>4, <1>5 DEF Base, TypeOK, Stored, Finite
  <2>2. StoredMinted' /\ minted <= minted'
    BY <1>1, <1>4, <1>5 DEF Base, StoredMinted
  <2> QED
    BY <2>1, <2>2
<1>9. HolderOK(a)'
  <2>1. op'[a].todo # <<>> => Head(op'[a].todo).step \notin Locking
    BY <1>1, <1>6 DEF Follows, Locking
  <2> QED
    BY <1>7, <2>1, Unlocked
<1>10. mutation' = NoOne /\ row' # 0 => key' \in Keys
  BY <1>3, <1>5 DEF Base
<1>11. Base'
  BY <1>5, <1>6, <1>8, <1>9, <1>10, Kept
<1> QED
  BY <1>1, <1>2, <1>4, <1>5, <1>6, <1>7, <1>11

-----------------------------------------------------------------------------
(* The steps of ensure_credential.                                         *)

LEMMA EnsureLockBase ==
  ASSUME Base, NEW a \in Actors, EnsureLock(a)
  PROVE  /\ Base' /\ OneMoves(a) /\ SameCommand(op[a], op'[a]) /\ op'[a].done = op[a].done
         /\ op'[a].list = op[a].list
         /\ Now(a).step = "ensure" /\ op[a].todo # <<>>
         /\ CallsOf(op[a]) \subseteq CallsOf(op'[a]) \cup {Now(a)}
         /\ \A c \in CallsOf(op'[a]) : c \in CallsOf(op[a]) \/ c.step = "check"
         /\ op'[a].todo # <<>> => Head(op'[a].todo).step \in {"check", "token"}
<1> DEFINE o == op[a]
           c == Call("check", Now(a).key, Now(a).id)
<1>1. /\ op[a] \in Ops /\ op[a].todo # <<>> /\ Now(a).step = "ensure" /\ mutation # a
      /\ Now(a) \in Calls /\ CallOK(op[a], Now(a)) /\ minted \in Nat
  BY Known, NotHolding DEF EnsureLock, Doing, Now
<1>2. /\ UNCHANGED <<row, key, entitled, token, nonce, owed, abandoned, mutation, seats, creds, learned,
                    minted, faults>>
      /\ credential = NoOne
  BY DEF EnsureLock, local, secrets, service, bounds
<1>3. CASE token # NoCred
  <2>1. Then(a, Rest(a)) /\ UNCHANGED credential
    BY <1>3 DEF EnsureLock
  <2>2. /\ OneMoves(a) /\ SameCommand(o, op'[a]) /\ OpOK(op'[a])
        /\ OpMinted(op'[a], minted) /\ IsFiniteSet(op'[a].shown) /\ op'[a].done = o.done
        /\ op'[a].list = o.list
        /\ CallsOf(op'[a]) \subseteq CallsOf(o)
        /\ CallsOf(o) \subseteq CallsOf(op'[a]) \cup {Now(a)}
        /\ op'[a].todo # <<>> => <<Now(a).step, Head(op'[a].todo).step>> \in Follows
    BY <1>1, <2>1, ThenRest
  <2>3. op'[a].todo # <<>> => Head(op'[a].todo).step = "token"
    BY <1>1, <2>2 DEF Follows
  <2>4. Stored' /\ IsFiniteSet(creds') /\ StoredMinted' /\ minted <= minted'
    BY <1>1, <1>2, <2>1 DEF Base, TypeOK, Stored, Finite, StoredMinted
  <2>5. Base'
    BY <1>1, <1>2, <2>1, <2>2, <2>3, <2>4, LockFree DEF Locking
  <2> QED
    BY <1>1, <2>2, <2>3, <2>5
<1>4. CASE token = NoCred
  <2>1. op' = [op EXCEPT ![a].todo[1].step = "check"] /\ credential' = a
    BY <1>4 DEF EnsureLock
  <2>2. c.step = "check" /\ c.key = Now(a).key /\ c.id = Now(a).id
    BY DEF Call
  <2>3. CallOK(o, c)
    BY <1>1, <2>2 DEF CallOK, Naming
  <2>4. "check" \in Steps \ {"release", "key", "row"}
    BY DEF Steps
  <2>5. \A x : <<Now(a).step, x>> \in Follows => <<"check", x>> \in Follows
    BY <1>1 DEF Follows
  <2>6. /\ OneMoves(a) /\ SameCommand(o, op'[a]) /\ OpOK(op'[a])
        /\ OpMinted(op'[a], minted) /\ IsFiniteSet(op'[a].shown) /\ op'[a].done = o.done
        /\ op'[a].list = o.list
        /\ CallsOf(op'[a]) \subseteq CallsOf(o) \cup {c}
        /\ CallsOf(o) \subseteq CallsOf(op'[a]) \cup {Now(a)}
        /\ op'[a].todo # <<>> /\ Head(op'[a].todo) = c
    BY <1>1, <2>1, <2>3, <2>4, <2>5, Renamed
  <2> HIDE DEF c
  <2>7. Stored' /\ IsFiniteSet(creds') /\ StoredMinted' /\ minted <= minted'
    BY <1>1, <1>2, <2>1 DEF Base, TypeOK, Stored, Finite, StoredMinted
  <2>8. HolderOK(a)'
    BY <1>1, <1>2, <2>1, <2>2, <2>6 DEF HolderOK, Doing, Now
  <2>9. mutation' = NoOne /\ row' # 0 => key' \in Keys
    BY <1>2 DEF Base
  <2>10. Base'
    BY <1>2, <2>1, <2>6, <2>7, <2>8, <2>9, Kept
  <2> QED
    BY <1>1, <2>2, <2>6, <2>10
<1> QED
  BY <1>3, <1>4

LEMMA CheckGenerationBase ==
  ASSUME Base, NEW a \in Actors, CheckGeneration(a)
  PROVE  /\ Base' /\ OneMoves(a) /\ SameCommand(op[a], op'[a]) /\ op'[a].done = op[a].done
         /\ op'[a].list = op[a].list
         /\ Now(a).step = "check" /\ op[a].todo # <<>>
         /\ UNCHANGED <<row, key, mutation, seats, creds, owed, abandoned, learned, minted, faults>>
         /\ CallsOf(op[a]) \subseteq CallsOf(op'[a]) \cup {Now(a)}
         /\ mutation = NoOne
         /\ \/ /\ CallsOf(op'[a]) \subseteq CallsOf(op[a])
               /\ op'[a].todo # <<>> => Head(op'[a].todo).step = "token"
            \/ /\ row = Now(a).id /\ key = Now(a).key /\ Now(a).id # 0
               /\ CallsOf(op'[a]) \subseteq CallsOf(op[a]) \cup {Call("obtain", key, row)}
               /\ op'[a].todo # <<>> /\ Head(op'[a].todo) = Call("obtain", key, row)
<1> DEFINE o == op[a]
           c == Call("obtain", Now(a).key, Now(a).id)
<1>1. /\ op[a] \in Ops /\ op[a].todo # <<>> /\ Now(a).step = "check" /\ mutation # a
      /\ Now(a) \in Calls /\ CallOK(op[a], Now(a)) /\ minted \in Nat /\ HolderOK(a)
      /\ Now(a).id # 0
  BY Known, NotHolding DEF CheckGeneration, Doing, Now, CallOK, Naming
<1>2. /\ UNCHANGED <<row, key, entitled, token, nonce, owed, abandoned, mutation, seats, creds, learned,
                    minted, faults>>
      /\ mutation = NoOne /\ credential = a
  BY <1>1 DEF CheckGeneration, local, secrets, service, bounds, HolderOK, Doing, Now
<1>3. mutation' = NoOne /\ row' # 0 => key' \in Keys
  BY <1>2 DEF Base
<1>4. ASSUME credential' \in {a, NoOne}
      PROVE  Stored' /\ IsFiniteSet(creds') /\ StoredMinted' /\ minted <= minted'
  BY <1>1, <1>2, <1>4 DEF Base, TypeOK, Stored, Finite, StoredMinted
<1>5. CASE ~(key = Now(a).key /\ row = Now(a).id)
  <2>1. Then(a, Rest(a)) /\ credential' = NoOne
    BY <1>5 DEF CheckGeneration
  <2>2. /\ OneMoves(a) /\ SameCommand(o, op'[a]) /\ OpOK(op'[a])
        /\ OpMinted(op'[a], minted) /\ IsFiniteSet(op'[a].shown) /\ op'[a].done = o.done
        /\ op'[a].list = o.list
        /\ CallsOf(op'[a]) \subseteq CallsOf(o)
        /\ CallsOf(o) \subseteq CallsOf(op'[a]) \cup {Now(a)}
        /\ op'[a].todo # <<>> => <<Now(a).step, Head(op'[a].todo).step>> \in Follows
    BY <1>1, <2>1, ThenRest
  <2>3. op'[a].todo # <<>> => Head(op'[a].todo).step = "token"
    BY <1>1, <2>2 DEF Follows
  <2>4. HolderOK(a)'
    BY <1>1, <1>2, <2>1, <2>3, Unlocked, Numbers DEF Locking
  <2>5. Base'
    BY <1>2, <1>3, <1>4, <2>1, <2>2, <2>4, Kept
  <2> QED
    BY <1>1, <1>2, <2>2, <2>3, <2>5
<1>6. CASE key = Now(a).key /\ row = Now(a).id
  <2>1. op' = [op EXCEPT ![a].todo[1].step = "obtain"] /\ UNCHANGED credential
    BY <1>6 DEF CheckGeneration
  <2>2. c.step = "obtain" /\ c.key = Now(a).key /\ c.id = Now(a).id
    BY DEF Call
  <2>3. CallOK(o, c)
    BY <1>1, <2>2 DEF CallOK, Naming
  <2>4. "obtain" \in Steps \ {"release", "key", "row"}
    BY DEF Steps
  <2>5. \A x : <<Now(a).step, x>> \in Follows => <<"obtain", x>> \in Follows
    BY <1>1 DEF Follows
  <2>6. /\ OneMoves(a) /\ SameCommand(o, op'[a]) /\ OpOK(op'[a])
        /\ OpMinted(op'[a], minted) /\ IsFiniteSet(op'[a].shown) /\ op'[a].done = o.done
        /\ op'[a].list = o.list
        /\ CallsOf(op'[a]) \subseteq CallsOf(o) \cup {c}
        /\ CallsOf(o) \subseteq CallsOf(op'[a]) \cup {Now(a)}
        /\ op'[a].todo # <<>> /\ Head(op'[a].todo) = c
    BY <1>1, <2>1, <2>3, <2>4, <2>5, Renamed
  <2>7. HolderOK(a)'
    <3> HIDE DEF c
    <3> QED
      BY <1>1, <1>2, <2>1, <2>2, <2>6 DEF HolderOK, Doing, Now
  <2>8. Base'
    BY <1>2, <1>3, <1>4, <2>1, <2>6, <2>7, Kept
  <2> QED
    BY <1>1, <1>2, <1>6, <2>6, <2>8
<1> QED
  BY <1>5, <1>6

\* There is a nonce nothing remembers.
LEMMA Fresh ==
  ASSUME Base
  PROVE  FreshNonce \in Nat \ {0}
<1> DEFINE R == creds \cup op[Loop].shown \cup {nonce, token}
           f == [c \in R |-> c.nonce]
           n == Cardinality(Remembered)
<1>1. IsFiniteSet(R)
  <2>1. IsFiniteSet(creds) /\ IsFiniteSet(op[Loop].shown)
    BY Numbers DEF Base, Finite
  <2>2. IsFiniteSet({nonce} \cup {token})
    BY FS_Singleton, FS_Union
  <2>3. R = (creds \cup op[Loop].shown) \cup ({nonce} \cup {token})
    OBVIOUS
  <2> QED
    BY <2>1, <2>2, <2>3, FS_Union
<1> HIDE DEF R
<1>2. Remembered = {c.nonce : c \in R}
  BY DEF Remembered, R
<1>3. f \in Surjection(R, Remembered)
  BY <1>2 DEF Surjection
<1>4. IsFiniteSet(Remembered)
  BY <1>1, <1>3, FS_Surjection
<1>5. n \in Nat
  BY <1>4, FS_CardinalityType
<1>6. IsFiniteSet(1..(n + 1)) /\ Cardinality(1..(n + 1)) = n + 1
  BY <1>5, FS_Interval
<1>7. ~(1..(n + 1) \subseteq Remembered)
  <2> SUFFICES ASSUME 1..(n + 1) \subseteq Remembered PROVE FALSE
    OBVIOUS
  <2>1. n + 1 <= n
    BY <1>4, <1>6, FS_Subset
  <2> QED
    BY <1>5, <2>1
<1>8. \E m \in 1..(n + 1) : m \notin Remembered
  BY <1>7
<1>9. FreshNonce \in 1..(n + 1)
  BY <1>8 DEF FreshNonce
<1> QED
  BY <1>5, <1>9

LEMMA ObtainBase ==
  ASSUME Base, NEW a \in Actors, Obtain(a)
  PROVE  /\ Base' /\ OneMoves(a) /\ SameCommand(op[a], op'[a]) /\ op'[a].done = op[a].done
         /\ op'[a].list = op[a].list
         /\ Now(a).step = "obtain" /\ op[a].todo # <<>>
         /\ Now(a).key \in Keys /\ Now(a).id \in Instances
         /\ UNCHANGED <<row, key, mutation, seats, owed, abandoned, learned, minted>> /\ mutation # a
         /\ CallsOf(op'[a]) \subseteq CallsOf(op[a])
         /\ CallsOf(op[a]) \subseteq CallsOf(op'[a]) \cup {Now(a)}
         /\ \A c \in creds' : c \in creds \/ (c.key = Now(a).key /\ c.id = Now(a).id)
<1> DEFINE o == op[a]
           k == Now(a).key
           i == Now(a).id
           first == [key |-> k, id |-> i, nonce |-> Resolved(k, i)]
           again == [first EXCEPT !.nonce = FreshNonce]
           held == Of(k, i)
<1>1. /\ op[a] \in Ops /\ op[a].todo # <<>> /\ Now(a).step = "obtain" /\ mutation # a
      /\ Now(a) \in Calls /\ CallOK(op[a], Now(a)) /\ minted \in Nat /\ HolderOK(a)
      /\ i <= minted /\ TypeOK
  BY Known, NotHolding DEF Obtain, Doing, Now, Base
<1>2. k \in Keys /\ i \in Instances /\ credential = a
  BY <1>1 DEF CallOK, Naming, Calls, HolderOK, Doing, Now
<1>3. FreshNonce \in Nat \ {0}
  BY Fresh
<1>4. Resolved(k, i) \in Nat \ {0}
  <2>1. nonce.key = k => nonce.nonce \in Nat \ {0}
    <3>1. nonce \in Credentials \cup {NoCred}
      BY <1>1 DEF TypeOK
    <3>2. NoCred.key = NoKey
      BY DEF NoCred
    <3> QED
      BY <1>2, <3>1, <3>2, Numbers DEF Credentials
  <2> QED
    BY <1>3, <2>1 DEF Resolved
<1>5. /\ first \in Credentials /\ first.key = k /\ first.id = i
      /\ again \in Credentials /\ again.key = k /\ again.id = i
  BY <1>2, <1>3, <1>4 DEF Credentials
<1>6. /\ creds' \subseteq creds \cup ({first} \cup {again})
      /\ token' \in {token, first, again} /\ nonce' \in {NoCred, first, again}
      /\ Fault \/ NoFault
  <2> HIDE DEF first, again
  <2>1. \/ Activate(first, creds)
        \/ Activate(again, creds \ held)
        \/ Refused(creds)
        \/ /\ Fault
           /\ creds' \in {creds, creds \ held}
           /\ nonce' = first
           /\ UNCHANGED token
    BY DEF Obtain, first, again
  <2> QED
    BY <2>1 DEF Activate, Issue, Unanswered, Refused
<1> HIDE DEF first, again
<1>7. /\ UNCHANGED <<row, key, entitled, owed, abandoned, mutation, seats, learned, minted>>
      /\ credential' = NoOne /\ Then(a, Rest(a))
  BY DEF Obtain, local
<1>8. /\ OneMoves(a) /\ SameCommand(o, op'[a]) /\ OpOK(op'[a])
      /\ OpMinted(op'[a], minted) /\ IsFiniteSet(op'[a].shown) /\ op'[a].done = o.done
      /\ op'[a].list = o.list
      /\ CallsOf(op'[a]) \subseteq CallsOf(o)
      /\ CallsOf(o) \subseteq CallsOf(op'[a]) \cup {Now(a)}
      /\ op'[a].todo # <<>> => <<Now(a).step, Head(op'[a].todo).step>> \in Follows
  BY <1>1, <1>7, ThenRest
<1>9. Stored' /\ IsFiniteSet(creds') /\ StoredMinted' /\ minted <= minted'
  <2>1. faults' \in 0..MaxFaults
    BY <1>1, <1>6, FaultOrNot
  <2>2. Stored'
    BY <1>1, <1>5, <1>6, <1>7, <2>1 DEF TypeOK, Stored
  <2>3. IsFiniteSet(creds')
    <3>1. IsFiniteSet(creds \cup ({first} \cup {again}))
      BY FS_Singleton, FS_Union DEF Base, Finite
    <3> QED
      BY <1>6, <3>1, FS_Subset
  <2>4. StoredMinted' /\ minted <= minted'
    BY <1>1, <1>5, <1>6, <1>7 DEF Base, StoredMinted
  <2> QED
    BY <2>2, <2>3, <2>4
<1>10. HolderOK(a)'
  <2>1. op'[a].todo # <<>> => Head(op'[a].todo).step \notin Locking
    BY <1>1, <1>8 DEF Follows, Locking
  <2> QED
    BY <1>1, <1>7, <2>1, Unlocked, Numbers
<1>11. mutation' = NoOne /\ row' # 0 => key' \in Keys
  BY <1>7 DEF Base
<1>12. Base'
  BY <1>2, <1>7, <1>8, <1>9, <1>10, <1>11, Kept
<1> QED
  BY <1>1, <1>2, <1>5, <1>6, <1>7, <1>8, <1>12

-----------------------------------------------------------------------------
(* The loop's own steps.                                                   *)

LEMMA DrainReadBase ==
  ASSUME Base, DrainRead
  PROVE  /\ Base' /\ OneMoves(Loop) /\ op[Loop] = Resting
         /\ op'[Loop].kind = "loop" /\ op'[Loop].done = {} /\ op'[Loop].list = owed
         /\ op'[Loop].todo # <<>> /\ Head(op'[Loop].todo).step \in {"tick", "drain"}
         /\ \A c \in CallsOf(op'[Loop]) : c.step \in {"tick", "drain"}
<1> DEFINE c == Call(IF owed = {} THEN "tick" ELSE "drain", NoKey, 0)
           t == <<c>>
           u == [Resting EXCEPT !.kind = "loop", !.list = owed, !.todo = t]
<1>1. op[Loop] = Resting /\ Loop \in Actors /\ minted \in Nat /\ TypeOK
  BY Known, Numbers DEF DrainRead, Base
<1>2. c \in Calls /\ c.step \in {"tick", "drain"} /\ c.id = 0
  BY DEF Call, Calls, Steps
<1>3. op' = [op EXCEPT ![Loop] = [op[Loop] EXCEPT !.kind = "loop", !.list = owed, !.todo = t]]
  BY DEF DrainRead
<1> HIDE DEF c
<1>4. t \in Seq(Calls)
  BY <1>2
<1>5. u.todo = <<c>>
  BY DEF Resting
<1> HIDE DEF t
<1>6. /\ u \in Ops /\ u.kind = "loop" /\ u.list = owed /\ u.done = {} /\ u.shown = {}
      /\ u.id = 0 /\ u.oldId = 0 /\ ~u.lost
  BY <1>1, <1>4, RestingOK DEF Ops, Resting, TypeOK
<1>7. op' = [op EXCEPT ![Loop] = u]
  BY <1>1, <1>3
<1> HIDE DEF u
<1>8. OneMoves(Loop) /\ op'[Loop] = u
  BY <1>1, <1>6, <1>7, Becomes
<1>9. CallOK(u, c)
  BY <1>2 DEF CallOK, Naming
<1>10. OpOK(u) /\ CallsOf(u) = {c} /\ Head(u.todo) = c
  BY <1>2, <1>5, <1>6, <1>9, OneCall
<1>11. OpMinted(u, minted)
  BY <1>1, <1>2, <1>6, <1>10 DEF OpMinted, Base, StoredMinted
<1>12. Stored' /\ IsFiniteSet(creds') /\ StoredMinted' /\ minted' = minted /\ minted <= minted'
       /\ UNCHANGED <<row, key, mutation, credential>>
  BY <1>1, StoredStays DEF DrainRead, bounds, TypeOK
<1>13. Base'
  <2>1. mutation # Loop /\ op[Loop].todo = <<>>
    BY <1>1, RestingOK, NotHolding
  <2>2. IsFiniteSet(u.shown)
    BY <1>6, FS_EmptySet
  <2> QED
    BY <1>1, <1>2, <1>8, <1>10, <1>11, <1>12, <2>1, <2>2, LockFree DEF Locking
<1>14. u.todo # <<>>
  <2>1. <<c>> # <<>>
    OBVIOUS
  <2> QED
    BY <1>5, <2>1
<1> QED
  BY <1>1, <1>2, <1>6, <1>8, <1>10, <1>13, <1>14

\* What a step of the loop knows of its list when its call ends the round.
LEMMA AtEnd ==
  ASSUME Base, NEW step \in {"drain", "tick", "token", "use", "reject"}, Doing(Loop, step)
  PROVE  /\ Loop \in Actors /\ op[Loop] \in Ops /\ OpOK(op[Loop]) /\ OpMinted(op[Loop], minted)
         /\ op[Loop].todo # <<>> /\ Now(Loop).step = step /\ CallsOf(op[Loop]) = {Now(Loop)}
         /\ Now(Loop) \in Calls /\ CallOK(op[Loop], Now(Loop)) /\ Now(Loop).id <= minted
         /\ ~op[Loop].lost /\ IsFiniteSet(op[Loop].shown) /\ mutation # Loop
         /\ minted \in Nat /\ TypeOK
<1>1. Loop \in Actors
  BY Numbers
<1>2. op[Loop].todo # <<>> /\ Head(op[Loop].todo).step = step /\ Now(Loop).step = step
  BY DEF Doing, Now
<1>3. /\ op[Loop] \in Ops /\ OpOK(op[Loop]) /\ OpMinted(op[Loop], minted) /\ minted \in Nat
      /\ Now(Loop) \in Calls /\ CallOK(op[Loop], Now(Loop)) /\ Now(Loop).id <= minted
      /\ IsFiniteSet(op[Loop].shown)
  BY <1>1, <1>2, Known
<1>4. CallsOf(op[Loop]) = {Now(Loop)}
  BY <1>2, <1>3, Alone DEF Ending, Now
<1> QED
  BY <1>1, <1>2, <1>3, <1>4, NotHolding DEF OpOK, Now, Base

LEMMA DrainOneBase ==
  ASSUME Base, DrainOne
  PROVE  /\ Base' /\ OneMoves(Loop) /\ SameCommand(op[Loop], op'[Loop])
         /\ op'[Loop].list \subseteq op[Loop].list
         /\ CallsOf(op'[Loop]) = CallsOf(op[Loop]) /\ op'[Loop].todo = op[Loop].todo
         /\ Now(Loop).step = "drain" /\ op[Loop].todo # <<>>
         /\ UNCHANGED <<row, key, mutation, owed, learned, minted>>
         /\ seats' \subseteq seats /\ creds' \subseteq creds
         /\ op'[Loop].done \subseteq op[Loop].done \cup op[Loop].list
         /\ abandoned \subseteq abandoned' /\ (faults' = faults \/ Fault)
         /\ \A r \in op'[Loop].done \ op[Loop].done :
              \/ r \in abandoned' /\ Fault
              \/ /\ r.side = "provider" => <<r.key, r.id>> \notin seats'
                 /\ r.side = "catalog" => Of(r.key, r.id) \cap creds' = {}
<1> DEFINE o == op[Loop]
<1>1. /\ Loop \in Actors /\ o \in Ops /\ OpOK(o) /\ OpMinted(o, minted) /\ o.todo # <<>>
      /\ Now(Loop).step = "drain" /\ ~o.lost /\ IsFiniteSet(o.shown) /\ mutation # Loop
      /\ minted \in Nat /\ TypeOK
  BY AtEnd DEF DrainOne
<1>2. PICK r \in o.list, answer \in {"done", "refused", "lost"} :
        /\ op' = [op EXCEPT ![Loop].list = @ \ {r},
                            ![Loop].done = IF answer = "lost" THEN @ ELSE @ \cup {r}]
        /\ faults' = faults \/ Fault
        /\ answer = "refused" => Fault /\ r \in abandoned'
        /\ abandoned \subseteq abandoned' /\ abandoned' \subseteq abandoned \cup {r}
        /\ \/ UNCHANGED <<seats, creds>> /\ answer # "done"
           \/ r.side = "catalog" /\ creds' = creds \ Of(r.key, r.id) /\ UNCHANGED seats
           \/ r.side # "catalog" /\ seats' = seats \ {<<r.key, r.id>>} /\ UNCHANGED creds
  <2> DEFINE kept == [seats |-> seats, creds |-> creds]
             gone(r) == IF r.side = "catalog"
                          THEN [kept EXCEPT !.creds = creds \ Of(r.key, r.id)]
                          ELSE [kept EXCEPT !.seats = seats \ {<<r.key, r.id>>}]
             Drained(r, answer, after) ==
               /\ answer = "done" => after = gone(r)
               /\ answer = "refused" => after = kept
               /\ IF answer = "done" THEN NoFault ELSE Fault
               /\ Abandon(IF answer = "refused" THEN {r} ELSE {})
               /\ seats' = after.seats
               /\ creds' = after.creds
               /\ op' = [op EXCEPT ![Loop].list = @ \ {r},
                                   ![Loop].done = IF answer = "lost" THEN @ ELSE @ \cup {r}]
  <2>1. PICK r \in o.list, answer \in {"done", "refused", "lost"} :
          \E after \in {kept, gone(r)} : Drained(r, answer, after)
    BY DEF DrainOne
  <2>2. PICK after \in {kept, gone(r)} : Drained(r, answer, after)
    BY <2>1
  <2>3. kept.seats = seats /\ kept.creds = creds
    OBVIOUS
  <2>4. /\ r.side = "catalog" =>
             gone(r).seats = seats /\ gone(r).creds = creds \ Of(r.key, r.id)
        /\ r.side # "catalog" =>
             gone(r).seats = seats \ {<<r.key, r.id>>} /\ gone(r).creds = creds
    OBVIOUS
  <2>5. (after = kept /\ answer # "done") \/ after = gone(r)
    BY <2>2
  <2>6. \/ UNCHANGED <<seats, creds>> /\ answer # "done"
        \/ r.side = "catalog" /\ creds' = creds \ Of(r.key, r.id) /\ UNCHANGED seats
        \/ r.side # "catalog" /\ seats' = seats \ {<<r.key, r.id>>} /\ UNCHANGED creds
    BY <2>2, <2>3, <2>4, <2>5
  <2>7. /\ answer = "refused" => Fault /\ r \in abandoned'
        /\ abandoned \subseteq abandoned' /\ abandoned' \subseteq abandoned \cup {r}
    BY <2>2 DEF Abandon
  <2>8. faults' = faults \/ Fault
    BY <2>2 DEF NoFault
  <2> QED
    BY <2>2, <2>6, <2>7, <2>8
<1> DEFINE l == o.list \ {r}
           d == IF answer = "lost" THEN o.done ELSE o.done \cup {r}
           u == [o EXCEPT !.list = l, !.done = d]
<1>3. l \subseteq o.list /\ d \subseteq o.done \cup o.list /\ l \in SUBSET Releases
      /\ d \in SUBSET Releases
  BY <1>1, Fields
<1>4. op' = [op EXCEPT ![Loop] = u]
  BY <1>2
<1> HIDE DEF l, d
<1>5. /\ u \in Ops /\ SameCommand(o, u) /\ u.todo = o.todo /\ u.lost = o.lost
      /\ u.list = l /\ u.done = d /\ u.shown = o.shown
  BY <1>1, <1>3 DEF Ops, SameCommand
<1> HIDE DEF u
<1>6. OneMoves(Loop) /\ op'[Loop] = u
  BY <1>1, <1>4, <1>5, Becomes
<1>7. CallsOf(u) = CallsOf(o)
  BY <1>5 DEF CallsOf
<1>8. OpOK(u)
  BY <1>1, <1>5, <1>7 DEF OpOK, CallOK, SameCommand
<1>9. OpMinted(u, minted)
  BY <1>1, <1>3, <1>5, <1>7 DEF OpMinted, SameCommand
<1>10. /\ UNCHANGED <<row, key, entitled, token, nonce, owed, mutation, credential, learned, minted>>
       /\ seats' \subseteq seats /\ creds' \subseteq creds
  BY <1>2 DEF DrainOne, local, secrets, locks
<1>11. Stored' /\ IsFiniteSet(creds') /\ StoredMinted' /\ minted <= minted'
  <2>1. faults' \in 0..MaxFaults
    BY <1>1, <1>2, FaultOrNot DEF NoFault
  <2>5. abandoned' \subseteq Releases
    BY <1>1, <1>2, Fields DEF TypeOK
  <2>2. Stored'
    BY <1>1, <1>10, <2>1, <2>5 DEF TypeOK, Stored
  <2>3. IsFiniteSet(creds')
    BY <1>10, FS_Subset DEF Base, Finite
  <2>4. StoredMinted' /\ minted <= minted'
    BY <1>1, <1>10 DEF Base, StoredMinted
  <2> QED
    BY <2>2, <2>3, <2>4
<1>12. Base'
  BY <1>1, <1>5, <1>6, <1>8, <1>9, <1>10, <1>11, LockFree DEF Locking, Now
<1>13. ASSUME NEW x \in u.done \ o.done
       PROVE  \/ x \in abandoned' /\ Fault
              \/ /\ x.side = "provider" => <<x.key, x.id>> \notin seats'
                 /\ x.side = "catalog" => Of(x.key, x.id) \cap creds' = {}
  <2>1. answer # "lost" /\ x = r
    BY <1>5, <1>13 DEF d
  <2> QED
    BY <1>2, <2>1
<1> QED
  BY <1>1, <1>2, <1>3, <1>5, <1>6, <1>7, <1>10, <1>12, <1>13

LEMMA SettleBase ==
  ASSUME Base, Settle
  PROVE  /\ Base' /\ OneMoves(Loop) /\ SameCommand(op[Loop], op'[Loop])
         /\ op'[Loop].done = {} /\ op'[Loop].list = op[Loop].list /\ op[Loop].list = {}
         /\ CallsOf(op[Loop]) = {Now(Loop)} /\ Now(Loop).step = "drain" /\ op[Loop].todo # <<>>
         /\ CallsOf(op'[Loop]) = {Call("tick", NoKey, 0)}
         /\ UNCHANGED <<row, key, mutation, seats, creds, learned, abandoned, minted>>
         /\ credential = NoOne
         /\ \/ owed' = owed \ op[Loop].done /\ faults' = faults
            \/ owed' = owed /\ Fault
<1> DEFINE o == op[Loop]
           c == Call("tick", NoKey, 0)
           t == <<c>>
           u == [o EXCEPT !.done = {}, !.todo = t]
<1>1. /\ Loop \in Actors /\ o \in Ops /\ OpOK(o) /\ OpMinted(o, minted) /\ o.todo # <<>>
      /\ Now(Loop).step = "drain" /\ ~o.lost /\ IsFiniteSet(o.shown) /\ mutation # Loop
      /\ minted \in Nat /\ TypeOK /\ CallsOf(o) = {Now(Loop)}
  BY AtEnd DEF Settle
<1>2. c \in Calls /\ c.step = "tick" /\ c.id = 0
  BY DEF Call, Calls, Steps
<1>3. op' = [op EXCEPT ![Loop] = u]
  BY DEF Settle
<1> HIDE DEF c
<1>4. t \in Seq(Calls)
  BY <1>2
<1> HIDE DEF t
<1>5. /\ u \in Ops /\ SameCommand(o, u) /\ u.todo = t /\ u.lost = o.lost
      /\ u.list = o.list /\ u.done = {} /\ u.shown = o.shown
  BY <1>1, <1>4 DEF Ops, SameCommand
<1> HIDE DEF u
<1>6. OneMoves(Loop) /\ op'[Loop] = u
  BY <1>1, <1>3, <1>5, Becomes
<1>7. CallOK(u, c)
  BY <1>2 DEF CallOK, Naming
<1>8. OpOK(u) /\ CallsOf(u) = {c} /\ Head(u.todo) = c
  BY <1>1, <1>2, <1>5, <1>7, OneCall DEF OpOK, t, SameCommand
<1>9. OpMinted(u, minted)
  BY <1>1, <1>2, <1>5, <1>8 DEF OpMinted, SameCommand
<1>10. /\ UNCHANGED <<row, key, entitled, token, nonce, mutation, credential, learned, abandoned,
                      minted, seats, creds>>
       /\ \/ owed' = owed \ o.done /\ faults' = faults
          \/ owed' = owed /\ Fault
       /\ credential = NoOne /\ o.list = {}
  BY DEF Settle, local, locks, service, NoFault
<1>11. Stored' /\ IsFiniteSet(creds') /\ StoredMinted' /\ minted <= minted'
  <2>1. faults' \in 0..MaxFaults
    BY <1>1, <1>10, FaultOrNot DEF NoFault
  <2> QED
    BY <1>1, <1>10, <2>1 DEF Base, TypeOK, Stored, Finite, StoredMinted
<1>12. Base'
  BY <1>1, <1>2, <1>5, <1>6, <1>8, <1>9, <1>10, <1>11, LockFree DEF Locking
<1> QED
  BY <1>1, <1>5, <1>6, <1>8, <1>10, <1>12 DEF c

\* A step of the loop after which nothing stored has changed but the token.
Ticked ==
  /\ Base' /\ OneMoves(Loop)
  /\ op[Loop].todo # <<>> /\ CallsOf(op[Loop]) = {Now(Loop)}
  /\ Now(Loop).step \in {"tick", "token", "use", "reject"}
  /\ \A c \in CallsOf(op'[Loop]) : c.step \in {"token", "use", "reject", "ensure"}
  /\ op'[Loop].todo # <<>> => Head(op'[Loop].todo).step \in {"token", "use", "reject", "ensure"}
  /\ op'[Loop].done \subseteq op[Loop].done /\ op'[Loop].list \subseteq op[Loop].list
  /\ UNCHANGED <<row, key, mutation, seats, creds, owed, abandoned, learned, minted, faults>>

LEMMA TickEnds ==
  ASSUME Base, NEW step \in {"tick", "token", "use", "reject"}, Doing(Loop, step), Finish(Loop),
         UNCHANGED <<local, nonce, owed, locks, service, bounds>>, token' \in {token, NoCred}
  PROVE  Ticked
<1>1. /\ Loop \in Actors /\ op[Loop].todo # <<>> /\ Now(Loop).step = step
      /\ CallsOf(op[Loop]) = {Now(Loop)} /\ mutation # Loop /\ minted \in Nat /\ TypeOK
  BY AtEnd
<1>2. /\ UNCHANGED <<row, key, entitled, nonce, owed, abandoned, mutation, credential, learned, minted,
                     seats, creds, faults>>
  BY DEF local, locks, service, bounds
<1>3. /\ OneMoves(Loop) /\ op'[Loop] = Resting /\ OpOK(op'[Loop]) /\ OpMinted(op'[Loop], minted')
      /\ IsFiniteSet(op'[Loop].shown) /\ CallsOf(op'[Loop]) = {} /\ op'[Loop].todo = <<>>
  BY <1>1, <1>2, Finished
<1>4. Stored' /\ IsFiniteSet(creds') /\ StoredMinted' /\ minted <= minted'
  BY <1>1, <1>2 DEF Base, TypeOK, Stored, Finite, StoredMinted
<1>5. Base'
  BY <1>1, <1>2, <1>3, <1>4, LockFree DEF Locking
<1> QED
  BY <1>1, <1>2, <1>3, <1>5, RestingOK DEF Ticked

\* The loop's operation goes on as u.
LEMMA TickGoesOn ==
  ASSUME Base, NEW step \in {"tick", "token", "use", "reject"}, Doing(Loop, step),
         UNCHANGED <<local, secrets, locks, service, bounds>>,
         NEW u \in Ops, op' = [op EXCEPT ![Loop] = u], OpOK(u), IsFiniteSet(u.shown), u.todo # <<>>,
         u.id = op[Loop].id, u.oldId = op[Loop].oldId,
         u.list = op[Loop].list, u.done = op[Loop].done,
         \A c \in CallsOf(u) : c.id <= minted /\ c.step \in {"token", "use", "reject", "ensure"}
  PROVE  Ticked
<1>1. /\ Loop \in Actors /\ op[Loop].todo # <<>> /\ Now(Loop).step = step
      /\ CallsOf(op[Loop]) = {Now(Loop)} /\ mutation # Loop /\ minted \in Nat /\ TypeOK
      /\ OpMinted(op[Loop], minted)
  BY AtEnd
<1>2. OneMoves(Loop) /\ op'[Loop] = u
  BY <1>1, Becomes
<1>3. OpMinted(u, minted)
  BY <1>1 DEF OpMinted
<1>4. Stored' /\ IsFiniteSet(creds') /\ StoredMinted' /\ minted' = minted /\ minted <= minted'
      /\ UNCHANGED <<row, key, mutation, credential, owed, abandoned, seats, creds, learned>>
  BY <1>1, StoredStays DEF bounds, TypeOK
<1>5. Head(u.todo) \in CallsOf(u)
  BY Fields
<1>6. Base'
  BY <1>1, <1>2, <1>3, <1>4, <1>5, LockFree DEF Locking
<1> QED
  BY <1>1, <1>2, <1>4, <1>5, <1>6 DEF Ticked, bounds

LEMMA TickLoadBase ==
  ASSUME Base, TickLoad
  PROVE  Ticked
<1>1. /\ Loop \in Actors /\ op[Loop] \in Ops /\ OpOK(op[Loop]) /\ TypeOK
      /\ IsFiniteSet(op[Loop].shown) /\ ~op[Loop].lost
  BY AtEnd DEF TickLoad
<1>2. CASE Finish(Loop)
  BY <1>2, TickEnds DEF TickLoad, secrets
<1>3. CASE row # 0 /\ Then(Loop, <<Call("token", NoKey, row)>>)
  <2> DEFINE c == Call("token", NoKey, row)
             t == <<c>>
             u == [op[Loop] EXCEPT !.todo = t]
  <2>1. c \in Calls /\ c.step = "token" /\ c.id = row
    BY <1>1 DEF Call, Calls, Steps, TypeOK
  <2>2. op' = [op EXCEPT ![Loop] = u]
    BY <1>3 DEF Then
  <2> HIDE DEF c
  <2>3. t \in Seq(Calls) /\ t # <<>>
    BY <2>1
  <2> HIDE DEF t
  <2>4. /\ u \in Ops /\ u.todo = t /\ u.kind = op[Loop].kind /\ u.key = op[Loop].key
        /\ u.id = op[Loop].id /\ u.oldId = op[Loop].oldId /\ u.lost = op[Loop].lost
        /\ u.list = op[Loop].list /\ u.done = op[Loop].done /\ u.shown = op[Loop].shown
    BY <1>1, <2>3 DEF Ops
  <2> HIDE DEF u
  <2>5. CallOK(u, c)
    BY <1>3, <2>1 DEF CallOK, Naming
  <2>6. OpOK(u) /\ CallsOf(u) = {c}
    BY <1>1, <2>1, <2>4, <2>5, OneCall DEF t, OpOK
  <2>7. row <= minted
    BY DEF Base, StoredMinted
  <2> QED
    BY <1>1, <2>1, <2>2, <2>3, <2>4, <2>6, <2>7, TickGoesOn DEF TickLoad
<1> QED
  BY <1>2, <1>3 DEF TickLoad

LEMMA TickTokenBase ==
  ASSUME Base, TickToken
  PROVE  Ticked
<1> DEFINE o == op[Loop]
           i == Now(Loop).id
<1>1. /\ Loop \in Actors /\ o \in Ops /\ OpOK(o) /\ TypeOK
      /\ IsFiniteSet(o.shown) /\ ~o.lost /\ Now(Loop).step = "token"
      /\ Now(Loop) \in Calls /\ CallOK(o, Now(Loop)) /\ i <= minted
  BY AtEnd DEF TickToken
<1>2. i \in {0} \cup Instances /\ i # 0
  BY <1>1 DEF Calls, CallOK
<1>3. CASE Finish(Loop)
  BY <1>3, TickEnds DEF TickToken, secrets
<1>4. CASE token # NoCred
  <2> DEFINE c == Call("use", NoKey, i)
             t == <<c>>
             s == {token}
             u == [o EXCEPT !.shown = s, !.todo = t]
  <2>1. c \in Calls /\ c.step = "use" /\ c.id = i
    BY <1>2 DEF Call, Calls, Steps
  <2>2. op' = [op EXCEPT ![Loop] = u]
    BY <1>4 DEF TickToken
  <2> HIDE DEF c
  <2>3. t \in Seq(Calls) /\ t # <<>>
    BY <2>1
  <2>4. s \in SUBSET Credentials /\ IsFiniteSet(s)
    BY <1>1, <1>4, FS_Singleton DEF TypeOK
  <2> HIDE DEF t, s
  <2>5. /\ u \in Ops /\ u.todo = t /\ u.kind = o.kind /\ u.key = o.key
        /\ u.id = o.id /\ u.oldId = o.oldId /\ u.lost = o.lost
        /\ u.list = o.list /\ u.done = o.done /\ u.shown = s
    BY <1>1, <2>3, <2>4 DEF Ops
  <2> HIDE DEF u
  <2>6. CallOK(u, c)
    BY <2>1 DEF CallOK, Naming
  <2>7. OpOK(u) /\ CallsOf(u) = {c}
    BY <1>1, <2>1, <2>5, <2>6, OneCall DEF t, OpOK
  <2> QED
    BY <1>1, <2>1, <2>2, <2>3, <2>4, <2>5, <2>7, TickGoesOn DEF TickToken
<1>5. CASE token = NoCred /\ key # NoKey /\ ~o.retried
  <2> DEFINE c == Call("ensure", key, i)
             d == Call("token", NoKey, i)
             t == <<c, d>>
             u == [o EXCEPT !.retried = TRUE, !.todo = t]
  <2>1. /\ c \in Calls /\ c.step = "ensure" /\ c.id = i /\ c.key \in Keys
        /\ d \in Calls /\ d.step = "token" /\ d.id = i
    BY <1>1, <1>2, <1>5 DEF Call, Calls, Steps, TypeOK
  <2>2. op' = [op EXCEPT ![Loop] = u]
    BY <1>5 DEF TickToken
  <2> HIDE DEF c, d
  <2>3. t \in Seq(Calls) /\ t # <<>>
    BY <2>1
  <2> HIDE DEF t
  <2>4. /\ u \in Ops /\ u.todo = t /\ u.kind = o.kind /\ u.key = o.key
        /\ u.id = o.id /\ u.oldId = o.oldId /\ u.lost = o.lost
        /\ u.list = o.list /\ u.done = o.done /\ u.shown = o.shown
    BY <1>1, <2>3 DEF Ops
  <2> HIDE DEF u
  <2>5. CallOK(u, c) /\ CallOK(u, d) /\ <<c.step, d.step>> \in Follows
    BY <1>2, <2>1 DEF CallOK, Naming, Follows
  <2>6. OpOK(u) /\ CallsOf(u) = {c, d}
    BY <1>1, <2>1, <2>4, <2>5, TwoCalls DEF t, OpOK
  <2> QED
    BY <1>1, <2>1, <2>2, <2>3, <2>4, <2>6, TickGoesOn DEF TickToken
<1> QED
  BY <1>3, <1>4, <1>5 DEF TickToken

LEMMA TickUseBase ==
  ASSUME Base, TickUse
  PROVE  Ticked
<1>1. /\ Loop \in Actors /\ Now(Loop).step = "use" /\ op[Loop].todo # <<>>
      /\ CallsOf(op[Loop]) = {Now(Loop)} /\ Now(Loop).id <= minted /\ minted \in Nat
      /\ mutation # Loop /\ TypeOK
  BY AtEnd DEF TickUse
<1>2. CASE Finish(Loop)
  BY <1>2, TickEnds DEF TickUse, secrets
<1>3. CASE op' = [op EXCEPT ![Loop].todo[1].step = "reject"]
  <2> DEFINE c == Call("reject", Now(Loop).key, Now(Loop).id)
  <2>1. c.step = "reject" /\ c.key = Now(Loop).key /\ c.id = Now(Loop).id
    BY DEF Call
  <2>2. CallOK(op[Loop], c)
    BY <2>1 DEF CallOK, Naming
  <2>3. "reject" \in Steps \ {"release", "key", "row"}
    BY DEF Steps
  <2>4. \A x : <<Now(Loop).step, x>> \in Follows => <<"reject", x>> \in Follows
    BY <1>1 DEF Follows
  <2>5. /\ OneMoves(Loop) /\ SameCommand(op[Loop], op'[Loop]) /\ OpOK(op'[Loop])
        /\ OpMinted(op'[Loop], minted) /\ IsFiniteSet(op'[Loop].shown)
        /\ op'[Loop].list = op[Loop].list /\ op'[Loop].done = op[Loop].done
        /\ op'[Loop].todo # <<>> /\ Head(op'[Loop].todo) = c
    BY <1>1, <1>3, <2>2, <2>3, <2>4, Renamed
  <2> HIDE DEF c
  <2>6. CallsOf(op'[Loop]) = {c}
    BY <1>1, <2>1, <2>5, Alone DEF OneMoves, Ending
  <2>7. Stored' /\ IsFiniteSet(creds') /\ StoredMinted' /\ minted' = minted /\ minted <= minted'
        /\ UNCHANGED <<row, key, mutation, credential, owed, abandoned, seats, creds, learned, faults>>
    BY <1>1, StoredStays DEF bounds, TypeOK, TickUse
  <2>8. Base'
    BY <1>1, <2>1, <2>5, <2>7, LockFree DEF Locking
  <2> QED
    BY <1>1, <2>1, <2>5, <2>6, <2>7, <2>8 DEF Ticked
<1> QED
  BY <1>2, <1>3 DEF TickUse

LEMMA TickRejectBase ==
  ASSUME Base, TickReject
  PROVE  Ticked
BY TickEnds DEF TickReject

LEMMA LapseBase ==
  ASSUME Base, Lapse
  PROVE  /\ Base' /\ UNCHANGED <<row, key, mutation, credential, seats, creds, owed, abandoned, learned,
                                 minted, op>>
<1>1. /\ UNCHANGED <<row, key, token, nonce, owed, abandoned, mutation, credential, seats, creds, learned,
                     minted, op>>
      /\ entitled' \in BOOLEAN /\ faults' \in 0..MaxFaults
  <2>1. faults' \in 0..MaxFaults
    BY FaultOrNot DEF Lapse, Base
  <2> QED
    BY <2>1 DEF Lapse, secrets, locks, service
<1>2. TypeOK' /\ Finite' /\ StoredMinted'
  BY <1>1 DEF Base, TypeOK, Finite, StoredMinted
<1>3. \A a \in Actors : OpOK(op'[a]) /\ OpMinted(op'[a], minted') /\ HolderOK(a)'
  BY <1>1 DEF Base, HolderOK, Doing, Now
<1> QED
  BY <1>1, <1>2, <1>3 DEF Base

LEMMA StutterBase ==
  ASSUME Base, UNCHANGED vars
  PROVE  /\ Base' /\ UNCHANGED <<row, key, mutation, credential, seats, creds, owed, abandoned, learned,
                                 minted, op>>
<1>1. UNCHANGED <<row, key, entitled, token, nonce, owed, abandoned, mutation, credential, seats, creds,
                  learned, minted, op, faults>>
  BY DEF vars, secrets, locks, service, local, bounds
<1>2. TypeOK' /\ Finite' /\ StoredMinted'
  BY <1>1 DEF Base, TypeOK, Finite, StoredMinted
<1>3. \A a \in Actors : OpOK(op'[a]) /\ OpMinted(op'[a], minted') /\ HolderOK(a)'
  BY <1>1 DEF Base, HolderOK, Doing, Now
<1> QED
  BY <1>1, <1>2, <1>3 DEF Base

LEMMA InitBase ==
  ASSUME Init
  PROVE  Base
<1>1. /\ \A a \in Actors : op[a] = Resting
      /\ op \in [Actors -> Ops] /\ owed = {} /\ abandoned = {} /\ mutation = NoOne /\ credential = NoOne
      /\ nonce = NoCred /\ faults = 0 /\ entitled \in BOOLEAN
  BY RestingOK DEF Init
<1>2. InstalledKey \in Keys /\ 1 \in Instances
  BY KeysAssumption, BoundsAssumption DEF InstalledKey, Instances
<1>3. /\ row \in {0} \cup Instances /\ key \in Keys \cup {NoKey}
      /\ token \in Credentials \cup {NoCred} /\ seats \subseteq Keys \X Instances
      /\ creds \subseteq Credentials /\ learned \subseteq Instances
      /\ minted \in {0} \cup Instances /\ row <= minted
      /\ (\A s \in seats : s[2] <= minted) /\ (\A c \in creds : c.id <= minted)
      /\ (\A i \in learned : i <= minted) /\ (row # 0 => key \in Keys) /\ IsFiniteSet(creds)
  <2>1. CASE /\ row = 0 /\ entitled = FALSE /\ key = NoKey /\ token = NoCred
             /\ seats = {} /\ creds = {} /\ learned = {} /\ minted = 0
    BY <2>1, FS_EmptySet
  <2>2. CASE /\ row = 1 /\ entitled = TRUE /\ key = InstalledKey
             /\ token = [key |-> key, id |-> 1, nonce |-> 1]
             /\ seats = {<<key, 1>>} /\ creds = {token} /\ learned = {1} /\ minted = 1
    <3>1. token \in Credentials /\ token.id = 1
      BY <1>2, <2>2 DEF Credentials
    <3>2. IsFiniteSet(creds)
      BY <2>2, FS_Singleton
    <3> QED
      BY <1>2, <2>2, <3>1, <3>2
  <2> QED
    BY <2>1, <2>2 DEF Init
<1>4. TypeOK
  BY <1>1, <1>3, BoundsAssumption DEF TypeOK
<1>5. \A a \in Actors : /\ OpOK(op[a]) /\ OpMinted(op[a], minted) /\ IsFiniteSet(op[a].shown)
                        /\ HolderOK(a)
  <2> SUFFICES ASSUME NEW a \in Actors
               PROVE  /\ OpOK(op[a]) /\ OpMinted(op[a], minted) /\ IsFiniteSet(op[a].shown)
                      /\ HolderOK(a)
    OBVIOUS
  <2>1. op[a] = Resting /\ op[a].todo = <<>> /\ a # NoOne /\ minted \in Nat
    BY <1>1, <1>3, RestingOK, Numbers
  <2>2. OpMinted(Resting, minted)
    BY <2>1, RestingOK DEF OpMinted
  <2>3. HolderOK(a)
    BY <1>1, <2>1 DEF HolderOK, Doing
  <2> QED
    BY <2>1, <2>2, <2>3, RestingOK, FS_EmptySet
<1> QED
  BY <1>1, <1>3, <1>4, <1>5 DEF Base, StoredMinted, Finite

-----------------------------------------------------------------------------
(* The invariant, second part: which key an instance belongs to, and under *)
(* what it is still known.                                                 *)

\* The calls that count, whoever is to make them.
Counting == {"release", "seat", "record", "persist", "save", "obtain"}
Hand == {c \in UNION {CallsOf(op[a]) : a \in Actors} : c.step \in Counting}

\* While a generation is being saved the keychain is ahead of the row.
KeyOfRow ==
  IF mutation \in Actors /\ Doing(mutation, "save") THEN op[mutation].oldKey ELSE key

Credited(k, i) == \E c \in creds : c.key = k /\ c.id = i

\* k and i are named together somewhere.
Belongs(k, i) ==
  \/ row = i /\ KeyOfRow = k
  \/ <<k, i>> \in seats
  \/ Credited(k, i)
  \/ \E step \in {"obtain", "persist", "save"} : Call(step, k, i) \in Hand

\* An instance belongs to one key.
Identity == \A i \in Instances : \A k, l \in Keys : Belongs(k, i) /\ Belongs(l, i) => k = l

Giving(k, i) ==
  \/ Owed(k, i, "provider") \in owed \cup abandoned
  \/ Call("seat", k, i) \in Hand
  \/ Call("record", k, i) \in Hand

SeatHandle(k, i) ==
  \/ row = i
  \/ Giving(k, i)
  \/ Call("persist", k, i) \in Hand
  \/ Call("save", k, i) \in Hand

\* What the loop has settled is gone, or was refused.
Settled == \A r \in op[Loop].done :
             r.side = "provider" => <<r.key, r.id>> \notin seats \/ r \in abandoned

\* A seat the machine replaces is being given back before its row goes.
Replacing(o) == o.kind = "activate" /\ o.oldId # 0 /\ o.oldKey # NoKey /\ (o.retried \/ o.id # 0)
Moved == \A a \in Commands : Replacing(op[a]) =>
           LET k == op[a].oldKey
               i == op[a].oldId
           IN  <<k, i>> \in seats => Giving(k, i)

Seated == \A k \in Keys, i \in Instances :
            <<k, i>> \in seats /\ i \in learned => SeatHandle(k, i)

Forgetting(k, i) ==
  \E a \in Actors : Doing(a, "forget") /\ op[a].lost /\ Now(a).key = k /\ Now(a).id = i
Recording(k, i) ==
  \E a \in Actors : Doing(a, "record") /\ mutation = a /\ Now(a).key = k /\ Now(a).id = i

\* The row names it, or somebody is about to give it back.
Provided(k, i) == row = i \/ Call("release", k, i) \in Hand

Handled(k, i) ==
  \/ Provided(k, i)
  \/ Owed(k, i, "catalog") \in owed \cup abandoned
  \/ Forgetting(k, i)
  \/ Recording(k, i)

\* A credential is asked for only for an identity whose release is provided for.
Obtaining == \A k \in Keys, i \in Instances : Call("obtain", k, i) \in Hand => Handled(k, i)

IInv == Base /\ Identity /\ Settled /\ Moved /\ Seated /\ Obtaining

LEMMA HandIsInHand ==
  ASSUME Base, NEW k, NEW i, NEW steps \in SUBSET Counting
  PROVE  InHand(k, i, steps) <=> \E step \in steps : Call(step, k, i) \in Hand
<1>1. ASSUME NEW a \in Actors, NEW n \in DOMAIN op[a].todo, op[a].todo[n].step \in steps,
             op[a].todo[n].key = k, op[a].todo[n].id = i
      PROVE  \E step \in steps : Call(step, k, i) \in Hand
  <2> DEFINE c == op[a].todo[n]
  <2>1. c \in CallsOf(op[a])
    BY DEF CallsOf
  <2>2. c \in Calls
    BY <2>1, Fields DEF Base, TypeOK
  <2>3. c = Call(c.step, k, i)
    BY <1>1, <2>2 DEF Calls, Call
  <2>4. c \in Hand
    BY <1>1, <2>1 DEF Hand
  <2> QED
    BY <1>1, <2>3, <2>4
<1>2. ASSUME NEW step \in steps, Call(step, k, i) \in Hand
      PROVE  InHand(k, i, steps)
  <2>1. PICK a \in Actors : Call(step, k, i) \in CallsOf(op[a])
    BY <1>2 DEF Hand
  <2>2. PICK n \in DOMAIN op[a].todo : op[a].todo[n] = Call(step, k, i)
    BY <2>1 DEF CallsOf
  <2>3. op[a].todo[n].step = step /\ op[a].todo[n].key = k /\ op[a].todo[n].id = i
    BY <2>2 DEF Call
  <2> QED
    BY <2>3 DEF InHand
<1> QED
  BY <1>1, <1>2 DEF InHand

LEMMA HandMoves ==
  ASSUME NEW a \in Actors, OneMoves(a), NEW X, NEW Y,
         \A c \in CallsOf(op[a]) : c.step \in Counting => c \in CallsOf(op'[a]) \cup X,
         \A c \in CallsOf(op'[a]) : c.step \in Counting => c \in CallsOf(op[a]) \cup Y
  PROVE  Hand \subseteq Hand' \cup X /\ Hand' \subseteq Hand \cup Y
<1>1. ASSUME NEW c \in Hand PROVE c \in Hand' \cup X
  <2>1. PICK b \in Actors : c \in CallsOf(op[b]) /\ c.step \in Counting
    BY DEF Hand
  <2>2. c \in CallsOf(op'[b]) \cup X
    BY <2>1 DEF OneMoves
  <2> QED
    BY <2>1, <2>2 DEF Hand, CallsOf
<1>2. ASSUME NEW c \in Hand' PROVE c \in Hand \cup Y
  <2>1. PICK b \in Actors : c \in CallsOf(op'[b]) /\ c.step \in Counting
    BY DEF Hand, CallsOf
  <2>2. c \in CallsOf(op[b]) \cup Y
    BY <2>1 DEF OneMoves
  <2> QED
    BY <2>1, <2>2 DEF Hand
<1> QED
  BY <1>1, <1>2

LEMMA MarksStay ==
  ASSUME Base, NEW a \in Actors, OneMoves(a),
         op[a].todo = <<>> \/ Now(a).step \notin {"forget", "record"},
         mutation' = mutation \/ {mutation, mutation'} \subseteq {a, NoOne},
         NEW k, NEW i
  PROVE  /\ Forgetting(k, i) => Forgetting(k, i)'
         /\ Recording(k, i) => Recording(k, i)'
<1>1. ASSUME NEW b \in Actors, Doing(b, "forget") \/ Doing(b, "record")
      PROVE  op'[b] = op[b] /\ b # a
  BY <1>1 DEF OneMoves, Doing, Now
<1>2. ASSUME NEW b \in Actors, b # a, mutation = b PROVE mutation' = mutation
  BY <1>2, Numbers
<1>3. Forgetting(k, i) => Forgetting(k, i)'
  BY <1>1 DEF Forgetting, Doing, Now
<1>4. Recording(k, i) => Recording(k, i)'
  BY <1>1, <1>2 DEF Recording, Doing, Now
<1> QED
  BY <1>3, <1>4

LEMMA RowKeyStays ==
  ASSUME Base, NEW a \in Actors, OneMoves(a), UNCHANGED <<key, mutation>>, mutation # a
  PROVE  KeyOfRow' = KeyOfRow
BY DEF KeyOfRow, Doing, OneMoves

\* Who obtains holds CREDENTIAL_LOCK.
LEMMA ObtainHolds ==
  ASSUME Base, NEW c \in Hand, c.step = "obtain"
  PROVE  \E a \in Actors : credential = a /\ op[a].todo # <<>> /\ Now(a) = c
<1>1. PICK a \in Actors : c \in CallsOf(op[a])
  BY DEF Hand
<1>2. op[a].todo # <<>>
  BY <1>1 DEF CallsOf
<1>3. c = Now(a)
  <2>1. \A x : <<x, "obtain">> \notin Follows
    BY DEF Follows
  <2> QED
    BY <1>1, <1>2, <2>1, RestOf
<1>4. credential = a
  BY <1>2, <1>3 DEF Base, HolderOK, Doing, Now
<1> QED
  BY <1>2, <1>3, <1>4

-----------------------------------------------------------------------------
(* The second part is kept.                                                *)

Held(k, i) == Credited(k, i) \/ Call("obtain", k, i) \in Hand

\* A replacement under way after the step was under way before it, or its old
\* seat is provided for.
StillMoving == \A a \in Commands : Replacing(op'[a]) =>
  \/ /\ Replacing(op[a]) /\ op'[a].oldKey = op[a].oldKey /\ op'[a].oldId = op[a].oldId
  \/ Giving(op[a].oldKey, op[a].oldId)'

\* What a step may do to credentials: obtain one for the row's identity, and give
\* up what provides for one that is still held only when it meets a fault.
Calm == \A k \in Keys, i \in Instances :
  /\ Call("obtain", k, i) \in Hand' => Call("obtain", k, i) \in Hand \/ row = i
  /\ Credited(k, i)' => Held(k, i)
  /\ Held(k, i)' /\ Provided(k, i) => Provided(k, i)' \/ faults' # faults

\* A step that mints nothing and drops no handle that is still needed.
Smooth ==
  /\ seats' \subseteq seats /\ learned' = learned /\ abandoned \subseteq abandoned'
  /\ \A r \in op'[Loop].done \ op[Loop].done :
       r.side = "provider" => <<r.key, r.id>> \notin seats' \/ r \in abandoned'
  /\ StillMoving
  /\ Calm
  /\ \A k \in Keys, i \in Instances :
       /\ Belongs(k, i)' => Belongs(k, i)
       /\ <<k, i>> \in seats' /\ Giving(k, i) => Giving(k, i)'
       /\ <<k, i>> \in seats' /\ SeatHandle(k, i) => SeatHandle(k, i)'
       /\ Held(k, i)' /\ Handled(k, i) => Handled(k, i)'

Stranded == \E k \in Keys, i \in Instances : Credited(k, i) /\ ~Handled(k, i)

LEMMA SmoothKeeps ==
  ASSUME IInv, Base', Smooth
  PROVE  IInv' /\ (Stranded' => Stranded) /\ Calm
<1>1. Identity'
  BY DEF IInv, Identity, Smooth
<1>2. Settled'
  BY DEF IInv, Settled, Smooth
<1>3. Moved'
  <2> SUFFICES ASSUME NEW a \in Commands, Replacing(op'[a]),
                      <<op'[a].oldKey, op'[a].oldId>> \in seats'
               PROVE  Giving(op[a].oldKey, op[a].oldId)'
    BY DEF Moved
  <2>1. CASE Giving(op[a].oldKey, op[a].oldId)'
    BY <2>1
  <2>2. CASE /\ Replacing(op[a]) /\ op'[a].oldKey = op[a].oldKey
             /\ op'[a].oldId = op[a].oldId
    <3>1. Giving(op[a].oldKey, op[a].oldId)
      BY <2>2 DEF IInv, Moved, Smooth
    <3>2. op[a].oldKey \in Keys /\ op[a].oldId \in Instances
      <4>1. <<op[a].oldKey, op[a].oldId>> \in Keys \X Instances
        BY <2>2 DEF Smooth, Calm, IInv, Base, TypeOK
      <4> QED
        BY <4>1
    <3>3. Giving(op[a].oldKey, op[a].oldId) =>
            \A k, i : k = op[a].oldKey /\ i = op[a].oldId => Giving(k, i)
      OBVIOUS
    <3>4. \A k \in Keys, i \in Instances : <<k, i>> \in seats' /\ Giving(k, i) => Giving(k, i)'
      BY DEF Smooth, Calm
    <3> QED
      BY <2>2, <3>1, <3>2, <3>4
  <2> QED
    BY <2>1, <2>2 DEF Smooth, Calm, StillMoving
<1>4. Seated'
  BY DEF IInv, Seated, Smooth
<1>5. Obtaining'
  <2> SUFFICES ASSUME NEW k \in Keys, NEW i \in Instances, Call("obtain", k, i) \in Hand'
               PROVE  Handled(k, i)'
    BY DEF Obtaining
  <2>1. Held(k, i)'
    BY DEF Held
  <2>2. Handled(k, i)
    <3>1. Call("obtain", k, i) \in Hand \/ row = i
      BY DEF Smooth, Calm
    <3> QED
      BY <3>1 DEF IInv, Obtaining, Handled, Provided
  <2> QED
    BY <2>1, <2>2 DEF Smooth
<1>6. Calm
  BY DEF Smooth
<1>7. Stranded' => Stranded
  <2> SUFFICES ASSUME NEW k \in Keys, NEW i \in Instances, Credited(k, i)', ~Stranded
               PROVE  Handled(k, i)'
    BY DEF Stranded
  <2>1. Held(k, i) /\ Held(k, i)'
    BY <1>6 DEF Calm, Held
  <2>2. Handled(k, i)
    BY <2>1 DEF Held, Stranded, IInv, Obtaining
  <2> QED
    BY <2>1, <2>2 DEF Smooth
<1> QED
  BY <1>7, <1>1, <1>2, <1>3, <1>4, <1>5, <1>6 DEF IInv

\* A step that changes no stored state and no call that counts.
Quiet(a) ==
  /\ Base' /\ OneMoves(a)
  /\ UNCHANGED <<row, key, mutation, seats, creds, owed, abandoned, learned>>
  /\ mutation # a
  /\ op[a].todo = <<>> \/ Now(a).step \notin {"forget", "record"}
  /\ op'[a].todo = <<>> \/ Head(op'[a].todo).step # "forget"
  /\ \A c \in CallsOf(op[a]) : c.step \in Counting => c \in CallsOf(op'[a])
  /\ \A c \in CallsOf(op'[a]) : c.step \in Counting => c \in CallsOf(op[a])
  /\ a = Loop \/ SameCommand(op[a], op'[a]) \/ ~Replacing(op'[a])
  /\ op'[Loop].done \subseteq op[Loop].done

LEMMA QuietSmooth ==
  ASSUME IInv, NEW a \in Actors, Quiet(a)
  PROVE  Smooth
<1>1. Hand' = Hand
  <2>1. Hand \subseteq Hand' \cup {} /\ Hand' \subseteq Hand \cup {}
    BY HandMoves DEF Quiet
  <2> QED
    BY <2>1
<1>2. KeyOfRow' = KeyOfRow
  BY RowKeyStays DEF Quiet, IInv
<1>3. \A k, i : /\ Forgetting(k, i) => Forgetting(k, i)'
                /\ Recording(k, i) => Recording(k, i)'
  BY MarksStay DEF Quiet, IInv
<1>4. UNCHANGED <<row, seats, creds, owed, abandoned, learned>>
  BY DEF Quiet
<1>5. StillMoving
  BY ActorsAssumption DEF Quiet, OneMoves, StillMoving, Actors, Replacing, SameCommand
<1>6. ASSUME NEW k \in Keys, NEW i \in Instances
      PROVE  /\ Belongs(k, i)' => Belongs(k, i)
             /\ Giving(k, i) => Giving(k, i)'
             /\ SeatHandle(k, i) => SeatHandle(k, i)'
             /\ Call("obtain", k, i) \in Hand' => Call("obtain", k, i) \in Hand
             /\ Credited(k, i)' => Held(k, i)
             /\ Handled(k, i) => Handled(k, i)'
             /\ Provided(k, i) => Provided(k, i)'
  BY <1>1, <1>2, <1>3, <1>4 DEF Belongs, Giving, SeatHandle, Held, Credited, Handled, Provided
<1> QED
  BY <1>4, <1>5, <1>6 DEF Smooth, Calm, Quiet

LEMMA NotLoop ==
  ASSUME NEW a \in Commands, OneMoves(a)
  PROVE  a \in Actors /\ op'[Loop] = op[Loop] /\ a # Loop
BY ActorsAssumption DEF OneMoves, Actors

LEMMA Idle ==
  ~Replacing(Resting) /\ \A o : ~o.retried /\ o.id = 0 => ~Replacing(o)
BY RestingOK DEF Replacing

LEMMA QuietCommand ==
  ASSUME Base, NEW a \in Commands,
         \/ \E k \in Keys : StartActivation(a, k)
         \/ StartDeactivation(a) \/ ReadRow(a) \/ ReadKey(a) \/ Confirm(a) \/ Ended(a)
  PROVE  Quiet(a) /\ a \in Actors
<1>1. ASSUME NEW k \in Keys, StartActivation(a, k) PROVE Quiet(a) /\ a \in Actors
  <2>1. /\ Base' /\ OneMoves(a)
        /\ CallsOf(op'[a]) = {Call("row", k, 0), Call("key", k, 0)}
        /\ op'[a].todo # <<>> /\ Head(op'[a].todo).step = "row"
        /\ ~op'[a].retried /\ op'[a].id = 0 /\ a \in Actors
    BY <1>1, StartActivationBase DEF Actors
  <2>2. op[a].todo = <<>> /\ CallsOf(op[a]) = {} /\ mutation # a
    BY <1>1, <2>1, RestingOK, NotHolding DEF StartActivation
  <2>3. UNCHANGED <<row, key, mutation, seats, creds, owed, abandoned, learned>>
    BY <1>1 DEF StartActivation, local, secrets, locks, service
  <2>4. \A c \in CallsOf(op'[a]) : c.step \notin Counting
    BY <2>1 DEF Call, Counting
  <2> QED
    BY <2>1, <2>2, <2>3, <2>4, NotLoop, Idle DEF Quiet
<1>2. ASSUME StartDeactivation(a) PROVE Quiet(a) /\ a \in Actors
  <2>1. /\ Base' /\ OneMoves(a)
        /\ CallsOf(op'[a]) = {Call("row", NoKey, 0), Call("key", NoKey, 0)}
        /\ op'[a].todo # <<>> /\ Head(op'[a].todo).step = "row"
        /\ ~op'[a].retried /\ op'[a].id = 0 /\ a \in Actors
    BY <1>2, StartDeactivationBase DEF Actors
  <2>2. op[a].todo = <<>> /\ CallsOf(op[a]) = {} /\ mutation # a
    BY <1>2, <2>1, RestingOK, NotHolding DEF StartDeactivation
  <2>3. UNCHANGED <<row, key, mutation, seats, creds, owed, abandoned, learned>>
    BY <1>2 DEF StartDeactivation, local, secrets, locks, service
  <2>4. \A c \in CallsOf(op'[a]) : c.step \notin Counting
    BY <2>1 DEF Call, Counting
  <2> QED
    BY <2>1, <2>2, <2>3, <2>4, NotLoop, Idle DEF Quiet
<1>3. ASSUME ReadRow(a) PROVE Quiet(a) /\ a \in Actors
  <2>1. /\ Base' /\ OneMoves(a)
        /\ op'[a].todo = <<>> \/ op'[a].todo = <<Call("key", op[a].key, 0)>>
        /\ CallsOf(op'[a]) \subseteq {Call("key", op[a].key, 0)}
        /\ CallsOf(op[a]) = {Call("row", op[a].key, 0), Call("key", op[a].key, 0)}
        /\ ~op'[a].retried /\ op'[a].id = 0
        /\ Now(a).step = "row" /\ op[a].todo # <<>> /\ a \in Actors
    BY <1>3, ReadRowBase DEF Actors
  <2>2. mutation # a
    BY <2>1, NotHolding
  <2>3. UNCHANGED <<row, key, mutation, seats, creds, owed, abandoned, learned>>
    BY <1>3 DEF ReadRow, local, secrets, locks, service, bounds
  <2>4. /\ \A c \in CallsOf(op[a]) \cup CallsOf(op'[a]) : c.step \notin Counting
        /\ op'[a].todo = <<>> \/ Head(op'[a].todo).step = "key"
    BY <2>1 DEF Call, Counting
  <2> QED
    BY <2>1, <2>2, <2>3, <2>4, NotLoop, Idle DEF Quiet
<1>4. ASSUME ReadKey(a) PROVE Quiet(a) /\ a \in Actors
  <2>1. /\ Base' /\ OneMoves(a)
        /\ CallsOf(op[a]) = {Now(a)} /\ Now(a).step = "key" /\ op[a].todo # <<>>
        /\ \A c \in CallsOf(op'[a]) : c.step \in {"clear", "ensure", "confirm", "mint"}
        /\ Head(op'[a].todo).step \in {"clear", "ensure", "confirm", "mint"}
        /\ ~op'[a].retried /\ op'[a].id = 0 /\ a \in Actors
    BY <1>4, ReadKeyBase DEF Actors
  <2>2. mutation # a
    BY <2>1, NotHolding
  <2>3. UNCHANGED <<row, key, mutation, seats, creds, owed, abandoned, learned>>
    BY <1>4 DEF ReadKey, local, secrets, locks, service, bounds
  <2>4. /\ \A c \in CallsOf(op[a]) \cup CallsOf(op'[a]) : c.step \notin Counting
    BY <2>1 DEF Counting
  <2> QED
    BY <2>1, <2>2, <2>3, <2>4, NotLoop, Idle DEF Quiet
<1>5. ASSUME Confirm(a) PROVE Quiet(a) /\ a \in Actors
  <2>1. /\ Base' /\ OneMoves(a)
        /\ Now(a).step = "confirm" /\ op[a].todo # <<>>
        /\ \A c \in CallsOf(op[a]) : c.step \in {"confirm", "mint"}
        /\ CallsOf(op'[a]) \subseteq CallsOf(op[a])
        /\ op'[a].todo # <<>> => Head(op'[a].todo).step = "mint"
        /\ ~op'[a].retried /\ op'[a].id = 0 /\ a \in Actors
    BY <1>5, ConfirmBase DEF Actors
  <2>2. mutation # a
    BY <2>1, NotHolding
  <2>3. UNCHANGED <<row, key, mutation, seats, creds, owed, abandoned, learned>>
    BY <1>5 DEF Confirm, local, secrets, locks, service, bounds
  <2>4. /\ \A c \in CallsOf(op[a]) \cup CallsOf(op'[a]) : c.step \notin Counting
    BY <2>1 DEF Counting
  <2> QED
    BY <2>1, <2>2, <2>3, <2>4, NotLoop, Idle DEF Quiet
<1>6. ASSUME Ended(a) PROVE Quiet(a) /\ a \in Actors
  <2>1. /\ Base' /\ OneMoves(a) /\ op'[a] = Resting /\ CallsOf(op[a]) = {} /\ op[a].todo = <<>>
        /\ a \in Actors
    BY <1>6, EndedBase DEF Actors
  <2>2. mutation # a
    BY <2>1, NotHolding
  <2>3. UNCHANGED <<row, key, mutation, seats, creds, owed, abandoned, learned>>
    BY <1>6 DEF Ended, local, secrets, locks, service, bounds
  <2> QED
    BY <2>1, <2>2, <2>3, NotLoop, Idle, RestingOK DEF Quiet
<1> QED
  BY <1>1, <1>2, <1>3, <1>4, <1>5, <1>6

LEMMA QuietEnsure ==
  ASSUME Base, NEW a \in Actors, EnsureLock(a)
  PROVE  Quiet(a)
<1>1. /\ Base' /\ OneMoves(a) /\ SameCommand(op[a], op'[a]) /\ op'[a].done = op[a].done
      /\ Now(a).step = "ensure" /\ op[a].todo # <<>>
      /\ CallsOf(op[a]) \subseteq CallsOf(op'[a]) \cup {Now(a)}
      /\ \A c \in CallsOf(op'[a]) : c \in CallsOf(op[a]) \/ c.step = "check"
      /\ op'[a].todo # <<>> => Head(op'[a].todo).step \in {"check", "token"}
  BY EnsureLockBase
<1>2. mutation # a
  BY <1>1, NotHolding
<1>3. UNCHANGED <<row, key, mutation, seats, creds, owed, abandoned, learned>>
  BY DEF EnsureLock, local, secrets, service, bounds
<1>4. /\ \A c \in CallsOf(op[a]) : c.step \in Counting => c \in CallsOf(op'[a])
      /\ \A c \in CallsOf(op'[a]) : c.step \in Counting => c \in CallsOf(op[a])
  BY <1>1 DEF Counting
<1>5. op'[Loop].done \subseteq op[Loop].done
  BY <1>1 DEF OneMoves, Actors
<1> QED
  BY <1>1, <1>2, <1>3, <1>4, <1>5 DEF Quiet

LEMMA QuietDrainRead ==
  ASSUME Base, DrainRead
  PROVE  Quiet(Loop)
<1>1. /\ Base' /\ OneMoves(Loop) /\ op[Loop] = Resting /\ op'[Loop].done = {}
      /\ op'[Loop].todo # <<>> /\ Head(op'[Loop].todo).step \in {"tick", "drain"}
      /\ \A c \in CallsOf(op'[Loop]) : c.step \in {"tick", "drain"}
      /\ Loop \in Actors
  BY DrainReadBase DEF Actors
<1>2. op[Loop].todo = <<>> /\ CallsOf(op[Loop]) = {} /\ mutation # Loop
  BY <1>1, RestingOK, NotHolding
<1>3. UNCHANGED <<row, key, mutation, seats, creds, owed, abandoned, learned>>
  BY DEF DrainRead, local, secrets, locks, service, bounds
<1>4. \A c \in CallsOf(op'[Loop]) : c.step \notin Counting
  BY <1>1 DEF Counting
<1> QED
  BY <1>1, <1>2, <1>3, <1>4 DEF Quiet

LEMMA QuietTick ==
  ASSUME Base, Ticked
  PROVE  Quiet(Loop)
<1>1. Loop \in Actors /\ mutation # Loop
  BY NotHolding DEF Ticked, Actors
<1>2. /\ \A c \in CallsOf(op[Loop]) : c.step \in Counting => c \in CallsOf(op'[Loop])
      /\ \A c \in CallsOf(op'[Loop]) : c.step \in Counting => c \in CallsOf(op[Loop])
  BY DEF Ticked, Counting
<1> QED
  BY <1>1, <1>2 DEF Ticked, Quiet

\* A step of the loop, or of nobody, that leaves the operations as they are.
LEMMA StillKeeps ==
  ASSUME IInv, Base',
         UNCHANGED <<row, key, mutation, credential, seats, creds, owed, abandoned, learned, minted, op>>
  PROVE  IInv' /\ (Stranded' => Stranded) /\ Calm
<1>1. Hand' = Hand /\ KeyOfRow' = KeyOfRow
  BY DEF Hand, CallsOf, KeyOfRow, Doing
<1>2. \A k, i : /\ Belongs(k, i)' <=> Belongs(k, i)
                /\ Giving(k, i)' <=> Giving(k, i)
                /\ SeatHandle(k, i)' <=> SeatHandle(k, i)
                /\ Credited(k, i)' <=> Credited(k, i)
                /\ Provided(k, i)' <=> Provided(k, i)
                /\ Handled(k, i)' <=> Handled(k, i)
  BY <1>1 DEF Belongs, Giving, SeatHandle, Credited, Provided, Handled, Forgetting, Recording,
              Doing, Now
<1>3. Identity' /\ Settled' /\ Seated' /\ Obtaining'
  BY <1>1, <1>2 DEF IInv, Identity, Settled, Seated, Obtaining
<1>4. Moved'
  BY <1>2 DEF IInv, Moved
<1>5. (Stranded' => Stranded) /\ Calm
  BY <1>1, <1>2 DEF Stranded, Calm, Held
<1> QED
  BY <1>3, <1>4, <1>5 DEF IInv

LEMMA SameStill ==
  ASSUME NEW a \in Actors, OneMoves(a), a = Loop \/ SameCommand(op[a], op'[a])
  PROVE  StillMoving
BY ActorsAssumption DEF OneMoves, StillMoving, Actors, Replacing, SameCommand

\* The minted seat is about to be given back instead of installed.
LEMMA DeleteTokenKeeps ==
  ASSUME IInv, NEW a \in Commands, DeleteToken(a)
  PROVE  IInv' /\ (Stranded' => Stranded) /\ Calm
<1> DEFINE g == Call("seat", Now(a).key, Now(a).id)
           p == Call("persist", Now(a).key, Now(a).id)
<1>1. /\ Base' /\ OneMoves(a) /\ a \in Actors /\ SameCommand(op[a], op'[a])
      /\ Now(a).step = "untoken" /\ op[a].todo # <<>> /\ mutation # a
      /\ UNCHANGED <<row, key, mutation, seats, creds, owed, abandoned, learned>>
      /\ \/ /\ CallsOf(op'[a]) \subseteq CallsOf(op[a])
            /\ CallsOf(op[a]) \subseteq CallsOf(op'[a]) \cup {Now(a)}
            /\ op'[a].todo # <<>> => Head(op'[a].todo).step = "persist"
         \/ CallsOf(op'[a]) = {g} /\ CallsOf(op[a]) \subseteq {Now(a), p}
  BY DeleteTokenBase DEF IInv, Actors
<1>2. op'[Loop] = op[Loop] /\ StillMoving
  BY <1>1, NotLoop, SameStill
<1>3. CASE /\ CallsOf(op'[a]) \subseteq CallsOf(op[a])
           /\ CallsOf(op[a]) \subseteq CallsOf(op'[a]) \cup {Now(a)}
           /\ op'[a].todo # <<>> => Head(op'[a].todo).step = "persist"
  <2>1. Quiet(a)
    BY <1>1, <1>2, <1>3 DEF Quiet, Counting
  <2> QED
    BY <1>1, <2>1, QuietSmooth, SmoothKeeps
<1>4. CASE CallsOf(op'[a]) = {g} /\ CallsOf(op[a]) \subseteq {Now(a), p}
  <2>1. g.step = "seat" /\ p.step = "persist"
    BY DEF Call
  <2>2. Hand \subseteq Hand' \cup {p} /\ Hand' \subseteq Hand \cup {g}
    <3>1. /\ \A c \in CallsOf(op[a]) : c.step \in Counting => c \in CallsOf(op'[a]) \cup {p}
          /\ \A c \in CallsOf(op'[a]) : c.step \in Counting => c \in CallsOf(op[a]) \cup {g}
      BY <1>1, <1>4 DEF Counting
    <3> HIDE DEF g, p
    <3> QED
      BY <1>1, <3>1, HandMoves
  <2>3. g \in Hand'
    BY <1>1, <1>4, <2>1 DEF Hand, CallsOf, Counting
  <2>4. KeyOfRow' = KeyOfRow
    BY <1>1, RowKeyStays DEF IInv
  <2>5. \A k, i : /\ Forgetting(k, i) => Forgetting(k, i)'
                  /\ Recording(k, i) => Recording(k, i)'
    BY <1>1, MarksStay DEF IInv
  <2>6. ASSUME NEW k \in Keys, NEW i \in Instances
        PROVE  /\ Belongs(k, i)' => Belongs(k, i)
               /\ Giving(k, i) => Giving(k, i)'
               /\ SeatHandle(k, i) => SeatHandle(k, i)'
               /\ Call("obtain", k, i) \in Hand' => Call("obtain", k, i) \in Hand
               /\ Credited(k, i)' => Held(k, i)
               /\ Handled(k, i) => Handled(k, i)'
               /\ Provided(k, i) => Provided(k, i)'
    <3>1. /\ \A step \in Counting \ {"seat"} : Call(step, k, i) # g
          /\ \A step \in Counting \ {"persist"} : Call(step, k, i) # p
      BY <2>1 DEF Call
    <3>2. Call("persist", k, i) = p => Call("seat", k, i) = g
      BY DEF Call
    <3>3. /\ \A step \in Counting \ {"seat"} :
               Call(step, k, i) \in Hand' => Call(step, k, i) \in Hand
          /\ \A step \in Counting \ {"persist"} :
               Call(step, k, i) \in Hand => Call(step, k, i) \in Hand'
          /\ Call("persist", k, i) \in Hand =>
               Call("persist", k, i) \in Hand' \/ Call("seat", k, i) \in Hand'
      <4> HIDE DEF g, p
      <4> QED
        BY <2>2, <2>3, <3>1, <3>2
    <3> QED
      BY <1>1, <2>4, <2>5, <3>3
      DEF Belongs, Giving, SeatHandle, Held, Credited, Handled, Provided, Counting
  <2>7. Smooth
    BY <1>1, <1>2, <2>6 DEF Smooth, Calm
  <2> QED
    BY <1>1, <2>7, SmoothKeeps
<1> QED
  BY <1>1, <1>3, <1>4

LEMMA MintRefusedKeeps ==
  ASSUME IInv, NEW a \in Commands, MintRefused(a)
  PROVE  IInv' /\ (Stranded' => Stranded) /\ Calm
<1>1. /\ Base' /\ OneMoves(a) /\ a \in Actors
      /\ CallsOf(op[a]) = {Now(a)} /\ Now(a).step = "mint" /\ op[a].todo # <<>>
  BY MintRefusedBase DEF IInv, Actors
<1>2. UNCHANGED <<row, key, mutation, seats, creds, owed, abandoned, learned>>
  BY DEF MintRefused, local, secrets, locks, service, bounds
<1>3. mutation # a
  BY <1>1, NotHolding DEF IInv
<1>4. op'[Loop] = op[Loop]
  BY <1>1, NotLoop
<1>5. CASE op'[a] = Resting /\ CallsOf(op'[a]) = {} /\ op'[a].todo = <<>>
  <2>1. Quiet(a)
    BY <1>1, <1>2, <1>3, <1>4, <1>5, Idle DEF Quiet, Counting
  <2> QED
    BY <1>1, <2>1, QuietSmooth, SmoothKeeps
<1>6. CASE /\ op[a].oldId # 0 /\ (Teardown(a) => Same(a)) /\ ~op[a].retried
           /\ op'[a].kind = "activate" /\ op'[a].retried /\ op'[a].id = op[a].id
           /\ op'[a].oldKey = op[a].oldKey /\ op'[a].oldId = op[a].oldId
           /\ op'[a].done = op[a].done
           /\ op'[a].todo # <<>> /\ Head(op'[a].todo).step = "seat"
           /\ CallsOf(op'[a]) = {Now(a), Call("seat", op[a].key, op[a].oldId)}
  <2> DEFINE s == Call("seat", op[a].key, op[a].oldId)
  <2>1. Hand \subseteq Hand' \cup {} /\ Hand' \subseteq Hand \cup {s}
    <3>1. /\ \A c \in CallsOf(op[a]) : c.step \in Counting => c \in CallsOf(op'[a]) \cup {}
          /\ \A c \in CallsOf(op'[a]) : c.step \in Counting => c \in CallsOf(op[a]) \cup {s}
      BY <1>1, <1>6
    <3> HIDE DEF s
    <3> QED
      BY <1>1, <3>1, HandMoves
  <2>2. s \in Hand'
    <3>1. s.step \in Counting
      BY DEF Call, Counting
    <3>2. s \in CallsOf(op'[a])
      BY <1>6
    <3> QED
      BY <1>1, <3>1, <3>2 DEF Hand, CallsOf
  <2>3. s.step = "seat"
    BY DEF Call
  <2>4. KeyOfRow' = KeyOfRow
    BY <1>1, <1>2, <1>3, RowKeyStays DEF IInv
  <2>5. \A k, i : /\ Forgetting(k, i) => Forgetting(k, i)'
                  /\ Recording(k, i) => Recording(k, i)'
    BY <1>1, <1>2, MarksStay DEF IInv
  <2>6. StillMoving
    <3>1. Replacing(op'[a]) => Giving(op[a].oldKey, op[a].oldId)'
      BY <1>6, <2>2 DEF Replacing, Teardown, Same, Giving
    <3> QED
      BY <1>1, <3>1 DEF StillMoving, OneMoves, Actors
  <2>7. ASSUME NEW k \in Keys, NEW i \in Instances
        PROVE  /\ Belongs(k, i)' => Belongs(k, i)
               /\ Giving(k, i) => Giving(k, i)'
               /\ SeatHandle(k, i) => SeatHandle(k, i)'
               /\ Call("obtain", k, i) \in Hand' => Call("obtain", k, i) \in Hand
               /\ Credited(k, i)' => Held(k, i)
               /\ Handled(k, i) => Handled(k, i)'
               /\ Provided(k, i) => Provided(k, i)'
    <3>1. \A step \in {"obtain", "persist", "save", "record", "release"} : Call(step, k, i) # s
      BY <2>3 DEF Call
    <3> HIDE DEF s
    <3>2. \A step \in {"obtain", "persist", "save"} :
            Call(step, k, i) \in Hand' => Call(step, k, i) \in Hand
      BY <2>1, <3>1
    <3> QED
      BY <1>2, <2>1, <2>4, <2>5, <3>2 DEF Belongs, Giving, SeatHandle, Held, Credited, Handled, Provided
  <2>8. Smooth
    BY <1>2, <1>4, <2>6, <2>7 DEF Smooth, Calm
  <2> QED
    BY <1>1, <2>8, SmoothKeeps
<1> QED
  BY <1>5, <1>6, MintRefusedBase DEF IInv, Actors

LEMMA PersistKeeps ==
  ASSUME IInv, NEW a \in Commands, Persist(a)
  PROVE  IInv' /\ (Stranded' => Stranded) /\ Calm
<1> DEFINE k0 == Now(a).key
           i0 == Now(a).id
           p == Call("persist", k0, i0)
           s == Call("save", k0, i0)
           g == Call("seat", k0, i0)
<1>1. /\ Base' /\ OneMoves(a) /\ a \in Actors /\ SameCommand(op[a], op'[a])
      /\ CallsOf(op[a]) = {Now(a)} /\ Now(a).step = "persist" /\ op[a].todo # <<>>
      /\ mutation = NoOne /\ row' = row
  BY PersistBase DEF IInv, Actors
<1>2. UNCHANGED <<row, seats, creds, owed, abandoned, learned>>
  BY DEF Persist, secrets, service, bounds
<1>3. op'[Loop] = op[Loop] /\ StillMoving
  BY <1>1, NotLoop, SameStill
<1>4. Now(a) = p
  BY <1>1, Known DEF IInv, Calls, Call
<1>5. p.step = "persist" /\ s.step = "save" /\ g.step = "seat"
  BY DEF Call
<1>6. p \in Hand
  BY <1>1, <1>4, <1>5 DEF Hand, Counting
<1>7. \A k, i : ~Recording(k, i)
  BY <1>1, Numbers DEF Recording
<1>8. ASSUME NEW k, NEW i, Forgetting(k, i) PROVE Forgetting(k, i)'
  BY <1>1, <1>8 DEF Forgetting, OneMoves, Doing, Now
<1>9. CASE /\ Unchanged(a) /\ mutation' = a
           /\ CallsOf(op'[a]) = {s} /\ Head(op'[a].todo) = s
  <2>1. Hand \subseteq Hand' \cup {p} /\ Hand' \subseteq Hand \cup {s}
    <3>1. /\ \A c \in CallsOf(op[a]) : c.step \in Counting => c \in CallsOf(op'[a]) \cup {p}
          /\ \A c \in CallsOf(op'[a]) : c.step \in Counting => c \in CallsOf(op[a]) \cup {s}
      BY <1>1, <1>4, <1>9
    <3> HIDE DEF p, s
    <3> QED
      BY <1>1, <3>1, HandMoves
  <2>2. s \in Hand'
    BY <1>1, <1>5, <1>9 DEF Hand, CallsOf, Counting
  <2>3. KeyOfRow' = KeyOfRow
    <3>1. KeyOfRow = op[a].oldKey
      BY <1>1, <1>9, Numbers DEF KeyOfRow, Unchanged
    <3>2. Doing(a, "save")'
      BY <1>1, <1>5, <1>9 DEF Doing, CallsOf
    <3>3. KeyOfRow' = op'[a].oldKey
      BY <1>1, <1>9, <3>2 DEF KeyOfRow, Doing
    <3> QED
      BY <1>1, <3>1, <3>3 DEF SameCommand
  <2>4. ASSUME NEW k \in Keys, NEW i \in Instances
        PROVE  /\ Belongs(k, i)' => Belongs(k, i)
               /\ Giving(k, i) => Giving(k, i)'
               /\ SeatHandle(k, i) => SeatHandle(k, i)'
               /\ Call("obtain", k, i) \in Hand' => Call("obtain", k, i) \in Hand
               /\ Credited(k, i)' => Held(k, i)
               /\ Handled(k, i) => Handled(k, i)'
               /\ Provided(k, i) => Provided(k, i)'
    <3>1. /\ \A step \in {"obtain", "persist", "release", "seat", "record"} : Call(step, k, i) # s
          /\ \A step \in {"obtain", "save", "release", "seat", "record"} : Call(step, k, i) # p
      BY <1>5 DEF Call
    <3>2. Call("save", k, i) = s => Call("persist", k, i) = p
      BY DEF Call
    <3>3. Call("persist", k, i) = p => Call("save", k, i) = s
      BY DEF Call
    <3> HIDE DEF s, p
    <3> QED
      BY <1>2, <1>6, <1>7, <1>8, <2>1, <2>2, <2>3, <3>1, <3>2, <3>3
      DEF Belongs, Giving, SeatHandle, Held, Credited, Handled, Provided
  <2>5. Smooth
    BY <1>2, <1>3, <2>4 DEF Smooth, Calm
  <2> QED
    BY <1>1, <2>5, SmoothKeeps
<1>10. CASE /\ key' = key /\ mutation' = NoOne
            /\ CallsOf(op'[a]) = {g} /\ Head(op'[a].todo) = g
  <2>1. Hand \subseteq Hand' \cup {p} /\ Hand' \subseteq Hand \cup {g}
    <3>1. /\ \A c \in CallsOf(op[a]) : c.step \in Counting => c \in CallsOf(op'[a]) \cup {p}
          /\ \A c \in CallsOf(op'[a]) : c.step \in Counting => c \in CallsOf(op[a]) \cup {g}
      BY <1>1, <1>4, <1>10
    <3> HIDE DEF p, g
    <3> QED
      BY <1>1, <3>1, HandMoves
  <2>2. g \in Hand'
    BY <1>1, <1>5, <1>10 DEF Hand, CallsOf, Counting
  <2>3. KeyOfRow' = KeyOfRow
    BY <1>1, <1>10, Numbers DEF KeyOfRow
  <2>4. ASSUME NEW k \in Keys, NEW i \in Instances
        PROVE  /\ Belongs(k, i)' => Belongs(k, i)
               /\ Giving(k, i) => Giving(k, i)'
               /\ SeatHandle(k, i) => SeatHandle(k, i)'
               /\ Call("obtain", k, i) \in Hand' => Call("obtain", k, i) \in Hand
               /\ Credited(k, i)' => Held(k, i)
               /\ Handled(k, i) => Handled(k, i)'
               /\ Provided(k, i) => Provided(k, i)'
    <3>1. /\ \A step \in {"obtain", "persist", "save", "release", "record"} : Call(step, k, i) # g
          /\ \A step \in {"obtain", "save", "release", "seat", "record"} : Call(step, k, i) # p
      BY <1>5 DEF Call
    <3>2. Call("persist", k, i) = p => Call("seat", k, i) = g
      BY DEF Call
    <3> HIDE DEF g, p
    <3> QED
      BY <1>2, <1>7, <1>8, <2>1, <2>2, <2>3, <3>1, <3>2
      DEF Belongs, Giving, SeatHandle, Held, Credited, Handled, Provided
  <2>5. Smooth
    BY <1>2, <1>3, <2>4 DEF Smooth, Calm
  <2> QED
    BY <1>1, <2>5, SmoothKeeps
<1> QED
  BY <1>1, <1>9, <1>10, PersistBase DEF IInv

LEMMA SaveKeeps ==
  ASSUME IInv, NEW a \in Commands, Save(a)
  PROVE  IInv' /\ (Stranded' => Stranded) /\ Calm
<1> DEFINE k0 == Now(a).key
           i0 == Now(a).id
           s == Call("save", k0, i0)
           g == Call("seat", k0, i0)
           r == Call("release", op[a].oldKey, op[a].oldId)
<1>1. /\ Base' /\ OneMoves(a) /\ a \in Actors /\ SameCommand(op[a], op'[a])
      /\ CallsOf(op[a]) = {Now(a)} /\ Now(a).step = "save" /\ op[a].todo # <<>>
      /\ mutation = a /\ mutation' = NoOne /\ row = op[a].oldId /\ key = k0
      /\ row # 0 => op[a].oldKey \in Keys
      /\ op[a].kind = "activate" /\ op[a].id # 0
  BY SaveBase DEF IInv, Actors
<1>2. UNCHANGED <<seats, creds, owed, abandoned, learned>>
  BY DEF Save, secrets, service
<1>3. op'[Loop] = op[Loop] /\ StillMoving
  BY <1>1, NotLoop, SameStill
<1>4. Now(a) = s
  BY <1>1, Known DEF IInv, Calls, Call
<1>5. s.step = "save" /\ g.step = "seat" /\ r.step = "release"
  BY DEF Call
<1>6. s \in Hand
  BY <1>1, <1>4, <1>5 DEF Hand, Counting
<1>7. \A k, i : ~Recording(k, i)
  BY <1>1 DEF Recording, Doing, Now
<1>8. ASSUME NEW k, NEW i, Forgetting(k, i) PROVE Forgetting(k, i)'
  BY <1>1, <1>8 DEF Forgetting, OneMoves, Doing, Now
<1>9. KeyOfRow = op[a].oldKey /\ KeyOfRow' = key'
  <2>1. KeyOfRow = op[a].oldKey
    BY <1>1 DEF KeyOfRow, Doing, Now
  <2> QED
    BY <1>1, <2>1, Numbers DEF KeyOfRow
<1>10. CASE /\ row' = i0 /\ key' = key
            /\ CallsOf(op'[a]) =
                 {Call("ensure", k0, i0)}
                 \cup (IF Teardown(a) THEN {r, Call("forget", op[a].oldKey, op[a].oldId)} ELSE {})
  <2>1. Hand \subseteq Hand' \cup {s} /\ Hand' \subseteq Hand \cup {r}
    <3>1. /\ \A c \in CallsOf(op[a]) : c.step \in Counting => c \in CallsOf(op'[a]) \cup {s}
          /\ \A c \in CallsOf(op'[a]) : c.step \in Counting => c \in CallsOf(op[a]) \cup {r}
      BY <1>1, <1>4, <1>10 DEF Counting, Call
    <3> HIDE DEF s, r
    <3> QED
      BY <1>1, <3>1, HandMoves
  <2>2. ASSUME Teardown(a) PROVE r \in Hand'
    <3>1. r \in CallsOf(op'[a])
      BY <1>10, <2>2
    <3> HIDE DEF r
    <3> QED
      BY <1>1, <1>5, <3>1 DEF Hand, CallsOf, Counting
  <2>3. ASSUME NEW k \in Keys, NEW i \in Instances, row = i, Belongs(k, i)
        PROVE  k = op[a].oldKey /\ op[a].oldKey \in Keys /\ Teardown(a) /\ i = op[a].oldId
    <3>1. i # 0 /\ op[a].oldKey \in Keys
      BY <1>1, <2>3, Numbers
    <3>2. Belongs(op[a].oldKey, i)
      BY <1>9, <2>3 DEF Belongs
    <3> QED
      BY <1>1, <2>3, <3>1, <3>2, Numbers DEF IInv, Identity, Teardown
  <2>4. ASSUME NEW k \in Keys, NEW i \in Instances
        PROVE  /\ Belongs(k, i)' => Belongs(k, i)
               /\ Giving(k, i) => Giving(k, i)'
               /\ Call("obtain", k, i) \in Hand' => Call("obtain", k, i) \in Hand
               /\ Credited(k, i)' => Held(k, i)
    <3>1. /\ \A step \in Counting \ {"release"} : Call(step, k, i) # r
          /\ \A step \in Counting \ {"save"} : Call(step, k, i) # s
      BY <1>5 DEF Call
    <3>2. i0 = i /\ k0 = k => Call("save", k, i) = s
      BY DEF Call
    <3>3. \A step \in Counting \ {"release"} : Call(step, k, i) \in Hand' => Call(step, k, i) \in Hand
      BY <2>1, <3>1
    <3>4. \A step \in Counting \ {"save"} : Call(step, k, i) \in Hand => Call(step, k, i) \in Hand'
      BY <2>1, <3>1
    <3> HIDE DEF s, r
    <3> QED
      BY <1>1, <1>2, <1>6, <1>9, <1>10, <3>2, <3>3, <3>4
      DEF Belongs, Giving, Held, Credited, Counting
  <2>5. ASSUME NEW k \in Keys, NEW i \in Instances, <<k, i>> \in seats', SeatHandle(k, i)
        PROVE  SeatHandle(k, i)'
    <3>1. CASE row = i
      <4>1. k = op[a].oldKey /\ Teardown(a) /\ i = op[a].oldId
        BY <1>2, <2>3, <2>5, <3>1 DEF Belongs
      <4>2. Replacing(op[a])
        BY <1>1, <4>1 DEF Teardown, Replacing
      <4>3. Giving(k, i)
        BY <1>2, <2>5, <4>1, <4>2 DEF IInv, Moved
      <4> QED
        BY <2>4, <4>3 DEF SeatHandle
    <3>2. CASE Call("save", k, i) \in Hand
      <4>1. Call("save", k, i) \in Hand' \/ Call("save", k, i) = s
        BY <2>1, <3>2
      <4>2. Call("save", k, i) = s => i = i0
        BY DEF Call
      <4> QED
        BY <1>10, <4>1, <4>2 DEF SeatHandle
    <3>3. CASE Call("persist", k, i) \in Hand
      <4>1. Call("persist", k, i) # s
        BY DEF Call
      <4> QED
        BY <2>1, <3>3, <4>1 DEF SeatHandle
    <3> QED
      BY <2>4, <2>5, <3>1, <3>2, <3>3 DEF SeatHandle
  <2>6. ASSUME NEW k \in Keys, NEW i \in Instances, Held(k, i)', Handled(k, i)
        PROVE  Handled(k, i)' /\ (Provided(k, i) => Provided(k, i)')
    <3>1. CASE row = i
      <4>1. Belongs(k, i)
        BY <2>4, <2>6 DEF Held, Belongs
      <4>2. k = op[a].oldKey /\ Teardown(a) /\ i = op[a].oldId
        BY <2>3, <3>1, <4>1
      <4> QED
        BY <2>2, <4>2 DEF Handled, Provided
    <3>2. CASE Call("release", k, i) \in Hand
      <4>1. Call("release", k, i) # s
        BY DEF Call
      <4> QED
        BY <2>1, <3>2, <4>1 DEF Handled, Provided
    <3> QED
      BY <1>2, <1>7, <1>8, <2>6, <3>1, <3>2 DEF Handled, Provided
  <2>7. \A k, i : Provided(k, i) => Handled(k, i)
    BY DEF Handled
  <2>8. Smooth
    BY <1>2, <1>3, <2>4, <2>5, <2>6, <2>7 DEF Smooth, Calm
  <2> QED
    BY <1>1, <2>8, SmoothKeeps
<1>11. CASE /\ row' = row /\ key' = op[a].oldKey /\ CallsOf(op'[a]) = {g}
  <2>1. Hand \subseteq Hand' \cup {s} /\ Hand' \subseteq Hand \cup {g}
    <3>1. /\ \A c \in CallsOf(op[a]) : c.step \in Counting => c \in CallsOf(op'[a]) \cup {s}
          /\ \A c \in CallsOf(op'[a]) : c.step \in Counting => c \in CallsOf(op[a]) \cup {g}
      BY <1>1, <1>4, <1>11
    <3> HIDE DEF s, g
    <3> QED
      BY <1>1, <3>1, HandMoves
  <2>2. g \in Hand'
    BY <1>1, <1>5, <1>11 DEF Hand, CallsOf, Counting
  <2>3. KeyOfRow' = KeyOfRow
    BY <1>9, <1>11
  <2>4. ASSUME NEW k \in Keys, NEW i \in Instances
        PROVE  /\ Belongs(k, i)' => Belongs(k, i)
               /\ Giving(k, i) => Giving(k, i)'
               /\ SeatHandle(k, i) => SeatHandle(k, i)'
               /\ Call("obtain", k, i) \in Hand' => Call("obtain", k, i) \in Hand
               /\ Credited(k, i)' => Held(k, i)
               /\ Handled(k, i) => Handled(k, i)'
               /\ Provided(k, i) => Provided(k, i)'
    <3>1. /\ \A step \in {"obtain", "persist", "save", "release", "record"} : Call(step, k, i) # g
          /\ \A step \in {"obtain", "persist", "release", "seat", "record"} : Call(step, k, i) # s
      BY <1>5 DEF Call
    <3>2. Call("save", k, i) = s => Call("seat", k, i) = g
      BY DEF Call
    <3> HIDE DEF g, s
    <3> QED
      BY <1>2, <1>7, <1>8, <1>11, <2>1, <2>2, <2>3, <3>1, <3>2
      DEF Belongs, Giving, SeatHandle, Held, Credited, Handled, Provided
  <2>5. Smooth
    BY <1>2, <1>3, <2>4 DEF Smooth, Calm
  <2> QED
    BY <1>1, <2>5, SmoothKeeps
<1> QED
  BY <1>1, <1>10, <1>11, SaveBase DEF IInv

LEMMA ClearRowKeeps ==
  ASSUME IInv, NEW a \in Commands, ClearRow(a)
  PROVE  IInv' /\ (Stranded' => Stranded) /\ Calm
<1> DEFINE r == Call("release", key, row)
           g == Call("seat", key, row)
           d == Call("record", key, row)
<1>1. /\ Base' /\ OneMoves(a) /\ a \in Actors
      /\ Now(a).step = "clear" /\ op[a].todo # <<>> /\ CallsOf(op[a]) = {Now(a)}
      /\ mutation = NoOne /\ key' = key
  BY ClearRowBase DEF IInv, Actors
<1>2. UNCHANGED <<seats, creds, owed, abandoned, learned>>
  BY DEF ClearRow, secrets, service
<1>3. op'[Loop] = op[Loop]
  BY <1>1, NotLoop
<1>4. r.step = "release" /\ g.step = "seat" /\ d.step = "record"
  BY DEF Call
<1>5. \A k, i : ~Recording(k, i)
  BY <1>1, Numbers DEF Recording
<1>6. ASSUME NEW k, NEW i, Forgetting(k, i) PROVE Forgetting(k, i)'
  BY <1>1, <1>6 DEF Forgetting, OneMoves, Doing, Now
<1>7. KeyOfRow = key
  BY <1>1, Numbers DEF KeyOfRow
<1>8. ASSUME NEW k \in Keys, NEW i \in Instances, row = i, Belongs(k, i) PROVE k = key
  <2>1. key \in Keys
    BY <1>1, <1>8, Numbers DEF IInv, Base
  <2>2. Belongs(key, i)
    BY <1>7, <1>8 DEF Belongs
  <2> QED
    BY <1>8, <2>1, <2>2 DEF IInv, Identity
<1>9. CASE /\ row' = 0 /\ mutation' = a
           /\ SameCommand(op[a], op'[a])
           /\ \/ CallsOf(op'[a]) = {Call("unkey", key, row), r, Call("forget", key, row), g}
              \/ /\ op'[a].todo # <<>> /\ Head(op'[a].todo) = d /\ Fault
                 /\ CallsOf(op'[a]) = {d}
  <2>1. Hand \subseteq Hand' \cup {} /\ Hand' \subseteq Hand \cup {r, g, d}
    <3>1. /\ \A c \in CallsOf(op[a]) : c.step \in Counting => c \in CallsOf(op'[a]) \cup {}
          /\ \A c \in CallsOf(op'[a]) : c.step \in Counting => c \in CallsOf(op[a]) \cup {r, g, d}
      BY <1>1, <1>9 DEF Counting, Call
    <3> DEFINE Y == {r, g, d}
    <3> HIDE DEF Y
    <3>2. \A c \in CallsOf(op'[a]) : c.step \in Counting => c \in CallsOf(op[a]) \cup Y
      BY <3>1 DEF Y
    <3>3. Hand \subseteq Hand' \cup {} /\ Hand' \subseteq Hand \cup Y
      BY <1>1, <3>1, <3>2, HandMoves
    <3> QED
      BY <3>3 DEF Y
  <2>2. {r, g} \subseteq Hand' \/ d \in Hand'
    <3>1. {r, g} \subseteq CallsOf(op'[a]) \/ d \in CallsOf(op'[a])
      BY <1>9
    <3>2. \A c \in CallsOf(op'[a]) : c.step \in Counting => c \in Hand'
      BY <1>1 DEF Hand, CallsOf
    <3> HIDE DEF r, g, d
    <3> QED
      BY <1>4, <3>1, <3>2 DEF Counting
  <2>3. ASSUME NEW k \in Keys, NEW i \in Instances
        PROVE  /\ Belongs(k, i)' => Belongs(k, i)
               /\ Giving(k, i) => Giving(k, i)'
               /\ Call("obtain", k, i) \in Hand' => Call("obtain", k, i) \in Hand
               /\ Credited(k, i)' => Held(k, i)
    <3>1. \A step \in {"obtain", "persist", "save"} : Call(step, k, i) \notin {r, g, d}
      BY <1>4 DEF Call
    <3>2. \A step \in {"obtain", "persist", "save"} :
            Call(step, k, i) \in Hand' => Call(step, k, i) \in Hand
      BY <2>1, <3>1
    <3> HIDE DEF r, g, d
    <3> QED
      BY <1>2, <1>9, <2>1, <3>2, Numbers DEF Belongs, Giving, Held, Credited
  <2>4. ASSUME NEW k \in Keys, NEW i \in Instances, <<k, i>> \in seats', SeatHandle(k, i)
        PROVE  SeatHandle(k, i)'
    <3>1. CASE row = i
      <4>1. k = key
        BY <1>2, <1>8, <2>4, <3>1 DEF Belongs
      <4>2. Giving(k, i)'
        BY <2>2, <3>1, <4>1 DEF Giving
      <4> QED
        BY <4>2 DEF SeatHandle
    <3> HIDE DEF r, g, d
    <3> QED
      BY <2>1, <2>3, <2>4, <3>1 DEF SeatHandle
  <2>5. ASSUME NEW k \in Keys, NEW i \in Instances, Held(k, i)', Handled(k, i)
        PROVE  Handled(k, i)' /\ (Provided(k, i) => Provided(k, i)' \/ faults' # faults)
    <3>1. CASE row = i
      <4>1. k = key
        BY <1>8, <2>3, <2>5, <3>1 DEF Held, Belongs
      <4>2. CASE r \in Hand'
        BY <3>1, <4>1, <4>2 DEF Handled, Provided
      <4>3. CASE op'[a].todo # <<>> /\ Head(op'[a].todo) = d /\ Fault
        <5>1. Recording(k, i)'
          BY <1>1, <1>9, <3>1, <4>1, <4>3 DEF Recording, Doing, Now, Call
        <5>2. faults' # faults
          BY <4>3 DEF Fault, IInv, Base, TypeOK
        <5> QED
          BY <5>1, <5>2 DEF Handled
      <4>4. {r, g} \subseteq Hand' \/ (op'[a].todo # <<>> /\ Head(op'[a].todo) = d /\ Fault)
        <5>1. \/ {r, g} \subseteq CallsOf(op'[a])
              \/ op'[a].todo # <<>> /\ Head(op'[a].todo) = d /\ Fault
          BY <1>9
        <5>2. \A c \in CallsOf(op'[a]) : c.step \in Counting => c \in Hand'
          BY <1>1 DEF Hand, CallsOf
        <5> HIDE DEF r, g, d
        <5> QED
          BY <1>4, <5>1, <5>2 DEF Counting
      <4> HIDE DEF r, g, d
      <4> QED
        BY <4>2, <4>3, <4>4
    <3> HIDE DEF r, g, d
    <3> QED
      BY <1>2, <1>5, <1>6, <2>1, <2>5, <3>1 DEF Handled, Provided
  <2>6. \A k, i : Provided(k, i) => Handled(k, i)
    BY DEF Handled
  <2>7. Calm
    BY <2>3, <2>5, <2>6 DEF Calm
  <2>8. Smooth
    BY <1>1, <1>2, <1>3, <1>9, <2>3, <2>4, <2>5, <2>7, SameStill DEF Smooth
  <2> QED
    BY <1>1, <2>8, SmoothKeeps
<1>10. CASE row' = row /\ UNCHANGED mutation /\ op'[a] = Resting
  <2>1. Quiet(a)
    BY <1>1, <1>2, <1>3, <1>10, Numbers, RestingOK, Idle DEF Quiet, Counting
  <2> QED
    BY <1>1, <2>1, QuietSmooth, SmoothKeeps
<1> QED
  <2>1. \/ /\ row' = 0 /\ mutation' = a /\ SameCommand(op[a], op'[a])
           /\ CallsOf(op'[a]) = {Call("unkey", key, row), r, Call("forget", key, row), g}
        \/ /\ row' = 0 /\ mutation' = a /\ SameCommand(op[a], op'[a])
           /\ op'[a].todo # <<>> /\ Head(op'[a].todo) = d /\ CallsOf(op'[a]) = {d} /\ Fault
        \/ row' = row /\ UNCHANGED mutation /\ op'[a] = Resting
    BY <1>1, ClearRowBase DEF IInv
  <2> QED
    BY <1>9, <1>10, <2>1

LEMMA DeleteKeyKeeps ==
  ASSUME IInv, NEW a \in Commands, DeleteKey(a)
  PROVE  IInv' /\ (Stranded' => Stranded) /\ Calm
<1>1. /\ Base' /\ OneMoves(a) /\ a \in Actors /\ SameCommand(op[a], op'[a])
      /\ Now(a).step = "unkey" /\ op[a].todo # <<>>
      /\ mutation = a /\ row = 0 /\ row' = 0
      /\ CallsOf(op'[a]) \subseteq CallsOf(op[a])
      /\ CallsOf(op[a]) \subseteq CallsOf(op'[a]) \cup {Now(a)}
  BY DeleteKeyBase DEF IInv, Actors
<1>2. UNCHANGED <<seats, creds, owed, abandoned, learned>>
  BY DEF DeleteKey, secrets, service, bounds
<1>3. op'[Loop] = op[Loop] /\ StillMoving
  BY <1>1, NotLoop, SameStill
<1>4. \A k, i : ~Recording(k, i)
  BY <1>1 DEF Recording, Doing, Now
<1>5. ASSUME NEW k, NEW i, Forgetting(k, i) PROVE Forgetting(k, i)'
  BY <1>1, <1>5 DEF Forgetting, OneMoves, Doing, Now
<1>6. Hand' = Hand
  <2>1. /\ \A c \in CallsOf(op[a]) : c.step \in Counting => c \in CallsOf(op'[a]) \cup {}
        /\ \A c \in CallsOf(op'[a]) : c.step \in Counting => c \in CallsOf(op[a]) \cup {}
    BY <1>1 DEF Counting
  <2>2. Hand \subseteq Hand' \cup {} /\ Hand' \subseteq Hand \cup {}
    BY <1>1, <2>1, HandMoves
  <2> QED
    BY <2>2
<1>7. ASSUME NEW k \in Keys, NEW i \in Instances
      PROVE  /\ Belongs(k, i)' => Belongs(k, i)
             /\ Giving(k, i) => Giving(k, i)'
             /\ SeatHandle(k, i) => SeatHandle(k, i)'
             /\ Call("obtain", k, i) \in Hand' => Call("obtain", k, i) \in Hand
             /\ Credited(k, i)' => Held(k, i)
             /\ Handled(k, i) => Handled(k, i)'
             /\ Provided(k, i) => Provided(k, i)'
  BY <1>1, <1>2, <1>4, <1>5, <1>6, Numbers DEF Belongs, Giving, SeatHandle, Held, Credited, Handled, Provided
<1>8. Smooth
  BY <1>2, <1>3, <1>7 DEF Smooth, Calm
<1> QED
  BY <1>1, <1>8, SmoothKeeps

\* A credential is given back with CREDENTIAL_LOCK free: none is being obtained.
LEMMA ReleaseKeeps ==
  ASSUME IInv, NEW a \in Commands, Release(a)
  PROVE  IInv' /\ (Stranded' => Stranded) /\ Calm
<1> DEFINE r == Call("release", Now(a).key, Now(a).id)
<1>1. /\ Base' /\ OneMoves(a) /\ a \in Actors /\ SameCommand(op[a], op'[a])
      /\ Now(a).step = "release" /\ op[a].todo # <<>> /\ mutation # a
      /\ op'[a].todo # <<>> /\ Head(op'[a].todo) = Call("forget", Now(a).key, Now(a).id)
      /\ CallsOf(op'[a]) \subseteq CallsOf(op[a])
      /\ CallsOf(op[a]) \subseteq CallsOf(op'[a]) \cup {Now(a)}
      /\ abandoned \subseteq abandoned'
      /\ \/ creds' = creds \ Of(Now(a).key, Now(a).id)
         \/ creds' = creds /\ Fault /\ Owed(Now(a).key, Now(a).id, "catalog") \in abandoned'
         \/ creds' \in {creds, creds \ Of(Now(a).key, Now(a).id)} /\ op'[a].lost /\ Fault
  BY ReleaseBase DEF IInv, Actors
<1>2. UNCHANGED <<row, key, mutation, seats, owed, learned>> /\ credential = NoOne
  BY DEF Release, local, secrets
<1>3. op'[Loop] = op[Loop] /\ StillMoving
  BY <1>1, NotLoop, SameStill
<1>4. Now(a) = r
  BY <1>1, Known DEF IInv, Calls, Call
<1>5. r.step = "release"
  BY DEF Call
<1>6. Hand \subseteq Hand' \cup {r} /\ Hand' \subseteq Hand \cup {}
  <2>1. /\ \A c \in CallsOf(op[a]) : c.step \in Counting => c \in CallsOf(op'[a]) \cup {r}
        /\ \A c \in CallsOf(op'[a]) : c.step \in Counting => c \in CallsOf(op[a]) \cup {}
    BY <1>1, <1>4
  <2> HIDE DEF r
  <2> QED
    BY <1>1, <2>1, HandMoves
<1>7. \A c \in Hand : c.step # "obtain"
  BY <1>2, ObtainHolds, Numbers DEF IInv
<1>8. KeyOfRow' = KeyOfRow
  BY <1>1, <1>2, RowKeyStays DEF IInv
<1>9. \A k, i : /\ Forgetting(k, i) => Forgetting(k, i)'
                /\ Recording(k, i) => Recording(k, i)'
  BY <1>1, <1>2, MarksStay DEF IInv
<1>10. creds' \subseteq creds
  BY <1>1
<1>11. ASSUME NEW k \in Keys, NEW i \in Instances
       PROVE  /\ Belongs(k, i)' => Belongs(k, i)
              /\ Giving(k, i) => Giving(k, i)'
              /\ SeatHandle(k, i) => SeatHandle(k, i)'
              /\ Call("obtain", k, i) \in Hand' => Call("obtain", k, i) \in Hand
              /\ Credited(k, i)' => Held(k, i)
  <2>1. \A step \in {"persist", "save", "seat", "record"} : Call(step, k, i) # r
    BY <1>5 DEF Call
  <2> HIDE DEF r
  <2> QED
    BY <1>1, <1>2, <1>6, <1>8, <1>10, <2>1 DEF Belongs, Giving, SeatHandle, Held, Credited
<1>12. ASSUME NEW k \in Keys, NEW i \in Instances, Held(k, i)', Handled(k, i)
       PROVE  Handled(k, i)' /\ (Provided(k, i) => Provided(k, i)' \/ faults' # faults)
  <2>1. CASE k = Now(a).key /\ i = Now(a).id
    <3>1. Credited(k, i)'
      <4>1. Call("obtain", k, i).step = "obtain"
        BY DEF Call
      <4> QED
        BY <1>6, <1>7, <1>12, <4>1 DEF Held
    <3>2. creds' # creds \ Of(k, i)
      BY <3>1 DEF Credited, Of
    <3>3. Fault /\ (op'[a].lost \/ Owed(k, i, "catalog") \in abandoned')
      BY <1>1, <2>1, <3>2
    <3>4. Forgetting(k, i)' \/ Owed(k, i, "catalog") \in abandoned'
      BY <1>1, <2>1, <3>3 DEF Forgetting, Doing, Now, Call
    <3>5. faults' # faults
      BY <3>3 DEF Fault, IInv, Base, TypeOK
    <3> QED
      BY <3>4, <3>5 DEF Handled
  <2>2. CASE ~(k = Now(a).key /\ i = Now(a).id)
    <3>1. Call("release", k, i) # r
      BY <2>2 DEF Call
    <3> HIDE DEF r
    <3> QED
      BY <1>1, <1>2, <1>6, <1>9, <1>12, <3>1 DEF Handled, Provided
  <2> QED
    BY <2>1, <2>2
<1>13. ASSUME NEW k, NEW i, Provided(k, i) PROVE Handled(k, i)
  BY <1>13 DEF Handled
<1>14. Calm
  BY <1>11, <1>12, <1>13 DEF Calm
<1>15. Smooth
  BY <1>1, <1>2, <1>3, <1>11, <1>12, <1>14 DEF Smooth
<1> QED
  BY <1>1, <1>15, SmoothKeeps

LEMMA ForgetKeeps ==
  ASSUME IInv, NEW a \in Commands, Forget(a)
  PROVE  IInv' /\ (Stranded' => Stranded) /\ Calm
<1>1. /\ Base' /\ OneMoves(a) /\ a \in Actors /\ SameCommand(op[a], op'[a])
      /\ Now(a).step = "forget" /\ op[a].todo # <<>> /\ mutation # a
      /\ CallsOf(op'[a]) \subseteq CallsOf(op[a])
      /\ CallsOf(op[a]) \subseteq CallsOf(op'[a]) \cup {Now(a)}
      /\ owed \subseteq owed' /\ abandoned \subseteq abandoned'
      /\ op[a].lost => Owed(Now(a).key, Now(a).id, "catalog") \in owed' \cup abandoned'
  BY ForgetBase DEF IInv, Actors
<1>2. UNCHANGED <<row, key, mutation, seats, creds, learned>>
  BY DEF Forget, local, service
<1>3. op'[Loop] = op[Loop] /\ StillMoving
  BY <1>1, NotLoop, SameStill
<1>4. KeyOfRow' = KeyOfRow
  BY <1>1, <1>2, RowKeyStays DEF IInv
<1>5. ASSUME NEW k, NEW i, Recording(k, i) PROVE Recording(k, i)'
  BY <1>1, <1>2, <1>5 DEF Recording, OneMoves, Doing, Now
<1>6. ASSUME NEW k, NEW i, Forgetting(k, i)
      PROVE  Forgetting(k, i)' \/ Owed(k, i, "catalog") \in owed' \cup abandoned'
  <2>1. PICK b \in Actors :
          Doing(b, "forget") /\ op[b].lost /\ Now(b).key = k /\ Now(b).id = i
    BY <1>6 DEF Forgetting
  <2>2. CASE b = a
    BY <1>1, <2>1, <2>2
  <2>3. CASE b # a
    BY <1>1, <2>1, <2>3 DEF Forgetting, OneMoves, Doing, Now
  <2> QED
    BY <2>2, <2>3
<1>7. Hand' = Hand
  <2>1. /\ \A c \in CallsOf(op[a]) : c.step \in Counting => c \in CallsOf(op'[a]) \cup {}
        /\ \A c \in CallsOf(op'[a]) : c.step \in Counting => c \in CallsOf(op[a]) \cup {}
    BY <1>1 DEF Counting
  <2>2. Hand \subseteq Hand' \cup {} /\ Hand' \subseteq Hand \cup {}
    BY <1>1, <2>1, HandMoves
  <2> QED
    BY <2>2
<1>8. ASSUME NEW k \in Keys, NEW i \in Instances
      PROVE  /\ Belongs(k, i)' => Belongs(k, i)
             /\ Giving(k, i) => Giving(k, i)'
             /\ SeatHandle(k, i) => SeatHandle(k, i)'
             /\ Call("obtain", k, i) \in Hand' => Call("obtain", k, i) \in Hand
             /\ Credited(k, i)' => Held(k, i)
             /\ Handled(k, i) => Handled(k, i)'
             /\ Provided(k, i) => Provided(k, i)'
  BY <1>1, <1>2, <1>4, <1>5, <1>6, <1>7 DEF Belongs, Giving, SeatHandle, Held, Credited, Handled, Provided
<1>9. Smooth
  BY <1>1, <1>2, <1>3, <1>8 DEF Smooth, Calm
<1> QED
  BY <1>1, <1>9, SmoothKeeps

LEMMA ReleaseSeatKeeps ==
  ASSUME IInv, NEW a \in Commands, ReleaseSeat(a)
  PROVE  IInv' /\ (Stranded' => Stranded) /\ Calm
<1> DEFINE g == Call("seat", Now(a).key, Now(a).id)
           d == Call("record", Now(a).key, Now(a).id)
<1>1. /\ Base' /\ OneMoves(a) /\ a \in Actors /\ SameCommand(op[a], op'[a])
      /\ Now(a).step = "seat" /\ op[a].todo # <<>> /\ mutation # a
      /\ CallsOf(op[a]) \subseteq CallsOf(op'[a]) \cup {Now(a)}
      /\ CallsOf(op'[a]) \subseteq CallsOf(op[a]) \cup {d}
      /\ seats' \subseteq seats /\ abandoned \subseteq abandoned'
      /\ \/ seats' = seats \ {<<Now(a).key, Now(a).id>>}
         \/ Owed(Now(a).key, Now(a).id, "provider") \in abandoned'
         \/ d \in CallsOf(op'[a])
  BY ReleaseSeatBase DEF IInv, Actors
<1>2. UNCHANGED <<row, key, mutation, creds, owed, learned>>
  BY DEF ReleaseSeat, local, secrets, locks
<1>3. op'[Loop] = op[Loop] /\ StillMoving
  BY <1>1, NotLoop, SameStill
<1>4. Now(a) = g
  BY <1>1, Known DEF IInv, Calls, Call
<1>5. g.step = "seat" /\ d.step = "record"
  BY DEF Call
<1>6. Hand \subseteq Hand' \cup {g} /\ Hand' \subseteq Hand \cup {d}
  <2>1. /\ \A c \in CallsOf(op[a]) : c.step \in Counting => c \in CallsOf(op'[a]) \cup {g}
        /\ \A c \in CallsOf(op'[a]) : c.step \in Counting => c \in CallsOf(op[a]) \cup {d}
    BY <1>1, <1>4
  <2> HIDE DEF g, d
  <2> QED
    BY <1>1, <2>1, HandMoves
<1>7. KeyOfRow' = KeyOfRow
  BY <1>1, <1>2, RowKeyStays DEF IInv
<1>8. \A k, i : /\ Forgetting(k, i) => Forgetting(k, i)'
                /\ Recording(k, i) => Recording(k, i)'
  BY <1>1, <1>2, MarksStay DEF IInv
<1>9. ASSUME NEW k \in Keys, NEW i \in Instances
      PROVE  /\ Belongs(k, i)' => Belongs(k, i)
             /\ Call("obtain", k, i) \in Hand' => Call("obtain", k, i) \in Hand
             /\ Credited(k, i)' => Held(k, i)
             /\ Handled(k, i) => Handled(k, i)'
             /\ Provided(k, i) => Provided(k, i)'
  <2>1. /\ \A step \in Counting \ {"seat"} : Call(step, k, i) # g
        /\ \A step \in Counting \ {"record"} : Call(step, k, i) # d
    BY <1>5 DEF Call
  <2>2. seats' \subseteq seats
    BY <1>1
  <2>3. /\ \A step \in {"obtain", "persist", "save"} :
             Call(step, k, i) \in Hand' => Call(step, k, i) \in Hand
        /\ Call("release", k, i) \in Hand => Call("release", k, i) \in Hand'
    <3> HIDE DEF g, d
    <3> QED
      BY <1>6, <2>1 DEF Counting
  <2> QED
    BY <1>1, <1>2, <1>7, <1>8, <2>2, <2>3 DEF Belongs, Held, Credited, Handled, Provided
<1>10. ASSUME NEW k \in Keys, NEW i \in Instances, <<k, i>> \in seats', Giving(k, i)
       PROVE  Giving(k, i)'
  <2>1. CASE k = Now(a).key /\ i = Now(a).id
    <3>1. d \in CallsOf(op'[a]) \/ Owed(k, i, "provider") \in abandoned'
      BY <1>1, <1>10, <2>1
    <3>2. d \in CallsOf(op'[a]) => d \in Hand'
      BY <1>1, <1>5 DEF Hand, CallsOf, Counting
    <3> QED
      BY <2>1, <3>1, <3>2 DEF Giving
  <2>2. CASE ~(k = Now(a).key /\ i = Now(a).id)
    <3>1. Call("seat", k, i) # g /\ Call("record", k, i) # g
      BY <1>5, <2>2 DEF Call
    <3> HIDE DEF g, d
    <3> QED
      BY <1>1, <1>2, <1>6, <1>10, <3>1 DEF Giving
  <2> QED
    BY <2>1, <2>2
<1>11. ASSUME NEW k \in Keys, NEW i \in Instances, <<k, i>> \in seats', SeatHandle(k, i)
       PROVE  SeatHandle(k, i)'
  <2>1. Call("persist", k, i) # g /\ Call("save", k, i) # g
    BY <1>5 DEF Call
  <2> HIDE DEF g, d
  <2> QED
    BY <1>2, <1>6, <1>10, <1>11, <2>1 DEF SeatHandle
<1>12. Smooth
  BY <1>1, <1>2, <1>3, <1>9, <1>10, <1>11 DEF Smooth, Calm
<1> QED
  BY <1>1, <1>12, SmoothKeeps

LEMMA RecordKeeps ==
  ASSUME IInv, NEW a \in Commands, Record(a)
  PROVE  IInv' /\ (Stranded' => Stranded) /\ Calm
<1> DEFINE d == Call("record", Now(a).key, Now(a).id)
<1>1. /\ Base' /\ OneMoves(a) /\ a \in Actors /\ SameCommand(op[a], op'[a])
      /\ Now(a).step = "record" /\ op[a].todo # <<>> /\ mutation' # a
      /\ owed \subseteq owed' /\ abandoned \subseteq abandoned'
      /\ Owed(Now(a).key, Now(a).id, "provider") \in owed' \cup abandoned'
      /\ mutation = a => Owed(Now(a).key, Now(a).id, "catalog") \in owed' \cup abandoned'
      /\ mutation # a => mutation' = mutation
      /\ CallsOf(op'[a]) \subseteq CallsOf(op[a])
      /\ CallsOf(op[a]) \subseteq CallsOf(op'[a]) \cup {Now(a)}
  BY RecordBase DEF IInv, Actors
<1>2. /\ UNCHANGED <<row, key, seats, creds, learned>>
      /\ mutation' = IF mutation = a THEN NoOne ELSE mutation
  BY DEF Record, local, service
<1>3. op'[Loop] = op[Loop] /\ StillMoving
  BY <1>1, NotLoop, SameStill
<1>4. Now(a) = d
  BY <1>1, Known DEF IInv, Calls, Call
<1>5. d.step = "record"
  BY DEF Call
<1>6. Hand \subseteq Hand' \cup {d} /\ Hand' \subseteq Hand \cup {}
  <2>1. /\ \A c \in CallsOf(op[a]) : c.step \in Counting => c \in CallsOf(op'[a]) \cup {d}
        /\ \A c \in CallsOf(op'[a]) : c.step \in Counting => c \in CallsOf(op[a]) \cup {}
    BY <1>1, <1>4
  <2> HIDE DEF d
  <2> QED
    BY <1>1, <2>1, HandMoves
<1>7. KeyOfRow' = KeyOfRow
  <2>1. CASE mutation = a
    BY <1>1, <1>2, <2>1, Numbers DEF KeyOfRow, Doing, Now
  <2>2. CASE mutation # a
    BY <1>1, <1>2, <2>2, RowKeyStays DEF IInv
  <2> QED
    BY <2>1, <2>2
<1>8. ASSUME NEW k, NEW i, Forgetting(k, i) PROVE Forgetting(k, i)'
  BY <1>1, <1>8 DEF Forgetting, OneMoves, Doing, Now
<1>9. ASSUME NEW k, NEW i, Recording(k, i)
      PROVE  Recording(k, i)' \/ Owed(k, i, "catalog") \in owed' \cup abandoned'
  <2>1. PICK b \in Actors :
          Doing(b, "record") /\ mutation = b /\ Now(b).key = k /\ Now(b).id = i
    BY <1>9 DEF Recording
  <2>2. CASE b = a
    BY <1>1, <2>1, <2>2
  <2>3. CASE b # a
    BY <1>1, <2>1, <2>3 DEF Recording, OneMoves, Doing, Now
  <2> QED
    BY <2>2, <2>3
<1>10. ASSUME NEW k \in Keys, NEW i \in Instances
       PROVE  /\ Belongs(k, i)' => Belongs(k, i)
              /\ Giving(k, i) => Giving(k, i)'
              /\ SeatHandle(k, i) => SeatHandle(k, i)'
              /\ Call("obtain", k, i) \in Hand' => Call("obtain", k, i) \in Hand
              /\ Credited(k, i)' => Held(k, i)
              /\ Handled(k, i) => Handled(k, i)'
              /\ Provided(k, i) => Provided(k, i)'
  <2>1. \A step \in Counting \ {"record"} : Call(step, k, i) # d
    BY <1>5 DEF Call
  <2>2. Call("record", k, i) = d => k = Now(a).key /\ i = Now(a).id
    BY DEF Call
  <2>3. /\ \A step \in Counting \ {"record"} :
             Call(step, k, i) \in Hand <=> Call(step, k, i) \in Hand'
        /\ Call("record", k, i) \in Hand =>
             Call("record", k, i) \in Hand' \/ (k = Now(a).key /\ i = Now(a).id)
    <3> HIDE DEF d
    <3> QED
      BY <1>6, <2>1, <2>2 DEF Counting
  <2> QED
    BY <1>1, <1>2, <1>7, <1>8, <1>9, <2>3
    DEF Belongs, Giving, SeatHandle, Held, Credited, Handled, Provided, Counting
<1>11. Smooth
  BY <1>1, <1>2, <1>3, <1>10 DEF Smooth, Calm
<1> QED
  BY <1>1, <1>11, SmoothKeeps

\* The generation is compared under LICENSE_MUTATION, so it is the row's.
LEMMA CheckGenerationKeeps ==
  ASSUME IInv, NEW a \in Actors, CheckGeneration(a)
  PROVE  IInv' /\ (Stranded' => Stranded) /\ Calm
<1> DEFINE o == Call("obtain", key, row)
<1>1. /\ Base' /\ OneMoves(a) /\ SameCommand(op[a], op'[a]) /\ op'[a].done = op[a].done
      /\ Now(a).step = "check" /\ op[a].todo # <<>>
      /\ UNCHANGED <<row, key, mutation, seats, creds, owed, abandoned, learned, minted, faults>>
      /\ CallsOf(op[a]) \subseteq CallsOf(op'[a]) \cup {Now(a)}
      /\ mutation = NoOne /\ mutation # a
  BY CheckGenerationBase, Numbers DEF IInv
<1>2. op'[Loop].done = op[Loop].done /\ StillMoving
  BY <1>1, SameStill DEF OneMoves, Actors
<1>3. CASE /\ CallsOf(op'[a]) \subseteq CallsOf(op[a])
           /\ op'[a].todo # <<>> => Head(op'[a].todo).step = "token"
  <2>1. Quiet(a)
    BY <1>1, <1>2, <1>3 DEF Quiet, Counting
  <2> QED
    BY <2>1, QuietSmooth, SmoothKeeps, <1>1
<1>4. CASE CallsOf(op'[a]) \subseteq CallsOf(op[a]) \cup {o}
  <2>1. Hand \subseteq Hand' \cup {} /\ Hand' \subseteq Hand \cup {o}
    <3>1. /\ \A c \in CallsOf(op[a]) : c.step \in Counting => c \in CallsOf(op'[a]) \cup {}
          /\ \A c \in CallsOf(op'[a]) : c.step \in Counting => c \in CallsOf(op[a]) \cup {o}
      BY <1>1, <1>4 DEF Counting
    <3> HIDE DEF o
    <3> QED
      BY <1>1, <3>1, HandMoves
  <2>2. KeyOfRow' = KeyOfRow /\ KeyOfRow = key
    BY <1>1, Numbers DEF KeyOfRow
  <2>3. \A k, i : /\ Forgetting(k, i) => Forgetting(k, i)'
                  /\ Recording(k, i) => Recording(k, i)'
    BY <1>1, MarksStay DEF IInv
  <2>4. ASSUME NEW k \in Keys, NEW i \in Instances
        PROVE  /\ Belongs(k, i)' => Belongs(k, i)
               /\ Giving(k, i) => Giving(k, i)'
               /\ SeatHandle(k, i) => SeatHandle(k, i)'
               /\ Call("obtain", k, i) \in Hand' => Call("obtain", k, i) \in Hand \/ row = i
               /\ Credited(k, i)' => Held(k, i)
               /\ Handled(k, i) => Handled(k, i)'
               /\ Provided(k, i) => Provided(k, i)'
    <3>1. \A step \in Counting \ {"obtain"} : Call(step, k, i) # o
      BY DEF Call
    <3>2. Call("obtain", k, i) = o => k = key /\ i = row
      BY DEF Call
    <3>3. /\ \A step \in Counting \ {"obtain"} :
               Call(step, k, i) \in Hand <=> Call(step, k, i) \in Hand'
          /\ Call("obtain", k, i) \in Hand' => Call("obtain", k, i) \in Hand \/ (k = key /\ i = row)
      <4> HIDE DEF o
      <4> QED
        BY <2>1, <3>1, <3>2 DEF Counting
    <3> QED
      BY <1>1, <2>2, <2>3, <3>3
      DEF Belongs, Giving, SeatHandle, Held, Credited, Handled, Provided, Counting
  <2>5. Smooth
    BY <1>1, <1>2, <2>4 DEF Smooth, Calm
  <2> QED
    BY <1>1, <2>5, SmoothKeeps
<1> QED
  <2>1. \/ /\ CallsOf(op'[a]) \subseteq CallsOf(op[a])
           /\ op'[a].todo # <<>> => Head(op'[a].todo).step = "token"
        \/ CallsOf(op'[a]) \subseteq CallsOf(op[a]) \cup {o}
    BY CheckGenerationBase DEF IInv
  <2> QED
    BY <1>3, <1>4, <2>1

LEMMA ObtainKeeps ==
  ASSUME IInv, NEW a \in Actors, Obtain(a)
  PROVE  IInv' /\ (Stranded' => Stranded) /\ Calm
<1> DEFINE o == Call("obtain", Now(a).key, Now(a).id)
<1>1. /\ Base' /\ OneMoves(a) /\ SameCommand(op[a], op'[a]) /\ op'[a].done = op[a].done
      /\ Now(a).step = "obtain" /\ op[a].todo # <<>>
      /\ UNCHANGED <<row, key, mutation, seats, owed, abandoned, learned, minted>> /\ mutation # a
      /\ CallsOf(op'[a]) \subseteq CallsOf(op[a])
      /\ CallsOf(op[a]) \subseteq CallsOf(op'[a]) \cup {Now(a)}
      /\ \A c \in creds' : c \in creds \/ (c.key = Now(a).key /\ c.id = Now(a).id)
  BY ObtainBase DEF IInv
<1>2. op'[Loop].done = op[Loop].done /\ StillMoving
  BY <1>1, SameStill DEF OneMoves, Actors
<1>3. Now(a) = o /\ Now(a) \in CallsOf(op[a])
  BY <1>1, Known DEF IInv, Calls, Call
<1>4. o.step = "obtain"
  BY DEF Call
<1>5. o \in Hand
  BY <1>3, <1>4 DEF Hand, Counting
<1>6. Hand \subseteq Hand' \cup {o} /\ Hand' \subseteq Hand \cup {}
  <2>1. /\ \A c \in CallsOf(op[a]) : c.step \in Counting => c \in CallsOf(op'[a]) \cup {o}
        /\ \A c \in CallsOf(op'[a]) : c.step \in Counting => c \in CallsOf(op[a]) \cup {}
    BY <1>1, <1>3
  <2> HIDE DEF o
  <2> QED
    BY <1>1, <2>1, HandMoves
<1>7. KeyOfRow' = KeyOfRow
  BY <1>1, RowKeyStays DEF IInv
<1>8. \A k, i : /\ Forgetting(k, i) => Forgetting(k, i)'
                /\ Recording(k, i) => Recording(k, i)'
  BY <1>1, MarksStay DEF IInv
<1>9. ASSUME NEW k \in Keys, NEW i \in Instances
      PROVE  /\ Belongs(k, i)' => Belongs(k, i)
             /\ Giving(k, i) => Giving(k, i)'
             /\ SeatHandle(k, i) => SeatHandle(k, i)'
             /\ Call("obtain", k, i) \in Hand' => Call("obtain", k, i) \in Hand
             /\ Credited(k, i)' => Held(k, i)
             /\ Handled(k, i) => Handled(k, i)'
             /\ Provided(k, i) => Provided(k, i)'
  <2>1. Credited(k, i)' => Credited(k, i) \/ Call("obtain", k, i) \in Hand
    BY <1>1, <1>5 DEF Credited
  <2>2. \A step \in Counting \ {"obtain"} : Call(step, k, i) # o
    BY <1>4 DEF Call
  <2>3. /\ \A step \in Counting : Call(step, k, i) \in Hand' => Call(step, k, i) \in Hand
        /\ \A step \in Counting \ {"obtain"} : Call(step, k, i) \in Hand => Call(step, k, i) \in Hand'
    <3> HIDE DEF o
    <3> QED
      BY <1>6, <2>2
  <2> QED
    BY <1>1, <1>7, <1>8, <2>1, <2>3 DEF Belongs, Giving, SeatHandle, Held, Handled, Provided,
           Counting
<1>10. Smooth
  BY <1>1, <1>2, <1>9 DEF Smooth, Calm
<1> QED
  BY <1>1, <1>10, SmoothKeeps

LEMMA DrainOneKeeps ==
  ASSUME IInv, DrainOne
  PROVE  IInv' /\ (Stranded' => Stranded) /\ Calm
<1>1. /\ Base' /\ OneMoves(Loop) /\ SameCommand(op[Loop], op'[Loop]) /\ Loop \in Actors
      /\ CallsOf(op'[Loop]) = CallsOf(op[Loop]) /\ op'[Loop].todo = op[Loop].todo
      /\ Now(Loop).step = "drain" /\ op[Loop].todo # <<>>
      /\ UNCHANGED <<row, key, mutation, owed, learned>>
      /\ seats' \subseteq seats /\ creds' \subseteq creds
      /\ abandoned \subseteq abandoned'
      /\ \A r \in op'[Loop].done \ op[Loop].done :
           r.side = "provider" => <<r.key, r.id>> \notin seats' \/ r \in abandoned'
  BY DrainOneBase DEF IInv, Actors
<1>2. mutation # Loop
  BY <1>1, NotHolding DEF IInv
<1>3. StillMoving
  BY <1>1, SameStill
<1>4. Hand' = Hand
  <2>1. /\ \A c \in CallsOf(op[Loop]) : c.step \in Counting => c \in CallsOf(op'[Loop]) \cup {}
        /\ \A c \in CallsOf(op'[Loop]) : c.step \in Counting => c \in CallsOf(op[Loop]) \cup {}
    BY <1>1
  <2>2. Hand \subseteq Hand' \cup {} /\ Hand' \subseteq Hand \cup {}
    BY <1>1, <2>1, HandMoves
  <2> QED
    BY <2>2
<1>5. KeyOfRow' = KeyOfRow
  BY <1>1, <1>2, RowKeyStays DEF IInv
<1>6. \A k, i : /\ Forgetting(k, i) => Forgetting(k, i)'
                /\ Recording(k, i) => Recording(k, i)'
  BY <1>1, MarksStay DEF IInv
<1>7. ASSUME NEW k \in Keys, NEW i \in Instances
      PROVE  /\ Belongs(k, i)' => Belongs(k, i)
             /\ Giving(k, i) => Giving(k, i)'
             /\ SeatHandle(k, i) => SeatHandle(k, i)'
             /\ Call("obtain", k, i) \in Hand' => Call("obtain", k, i) \in Hand
             /\ Credited(k, i)' => Held(k, i)
             /\ Handled(k, i) => Handled(k, i)'
             /\ Provided(k, i) => Provided(k, i)'
  BY <1>1, <1>4, <1>5, <1>6 DEF Belongs, Giving, SeatHandle, Held, Credited, Handled, Provided
<1>8. Smooth
  BY <1>1, <1>3, <1>7 DEF Smooth, Calm
<1> QED
  BY <1>1, <1>8, SmoothKeeps

\* A new instance belongs to the key it was minted for, and to no other.
LEMMA MintKeeps ==
  ASSUME IInv, Base', NEW a \in Commands, OneMoves(a), NEW k0 \in Keys, NEW i0 \in Instances,
         i0 = minted + 1, op[a].todo # <<>>, Now(a).step = "mint", CallsOf(op[a]) = {Now(a)},
         UNCHANGED <<row, key, mutation, creds, owed, abandoned>>,
         seats' \subseteq seats \cup {<<k0, i0>>}, learned' \subseteq learned \cup {i0},
         i0 \in learned' => SeatHandle(k0, i0)',
         \A c \in CallsOf(op'[a]) :
           c.step \in {"obtain", "persist", "save"} => c = Call("persist", k0, i0),
         StillMoving
  PROVE  IInv' /\ (Stranded' => Stranded) /\ Calm
<1>1. a \in Actors /\ op'[Loop] = op[Loop] /\ mutation # a
  BY NotLoop, NotHolding DEF IInv
<1>2. \A c \in CallsOf(op[a]) : c.step \notin Counting
  BY DEF Counting
<1>3. Hand \subseteq Hand'
  <2>1. /\ \A c \in CallsOf(op[a]) : c.step \in Counting => c \in CallsOf(op'[a]) \cup {}
        /\ \A c \in CallsOf(op'[a]) : c.step \in Counting => c \in CallsOf(op[a]) \cup Hand'
    BY <1>1, <1>2 DEF Hand, CallsOf
  <2>2. Hand \subseteq Hand' \cup {}
    BY <1>1, <2>1, HandMoves
  <2> QED
    BY <2>2
<1>4. ASSUME NEW c \in Hand', c.step \in {"obtain", "persist", "save"}
      PROVE  c \in Hand \/ c = Call("persist", k0, i0)
  <2>1. PICK b \in Actors : c \in CallsOf(op'[b])
    BY <1>4 DEF Hand, CallsOf
  <2>2. CASE b = a
    BY <1>4, <2>1, <2>2
  <2>3. CASE b # a
    BY <1>4, <2>1, <2>3 DEF Hand, OneMoves, Counting
  <2> QED
    BY <2>2, <2>3
<1>5. KeyOfRow' = KeyOfRow
  BY <1>1, RowKeyStays DEF IInv
<1>6. \A k, i : /\ Forgetting(k, i) => Forgetting(k, i)'
                /\ Recording(k, i) => Recording(k, i)'
  BY <1>1, MarksStay DEF IInv
<1>7. \A k, i : /\ Giving(k, i) => Giving(k, i)'
                /\ SeatHandle(k, i) => SeatHandle(k, i)'
                /\ Handled(k, i) => Handled(k, i)'
                /\ Provided(k, i) => Provided(k, i)'
                /\ Credited(k, i)' <=> Credited(k, i)
  BY <1>3, <1>6 DEF Giving, SeatHandle, Handled, Credited, Provided
<1>8. \A i \in Instances : i <= minted => i # i0
  BY <1>1, Known DEF IInv, Instances
<1>9. \A k : ~Belongs(k, i0)
  <2>1. ASSUME NEW c \in Hand PROVE c.id <= minted
    BY <1>1, Known DEF IInv, Hand, OpMinted
  <2>2. i0 \in Nat /\ minted \in Nat /\ ~(i0 <= minted)
    BY <1>1, Known DEF IInv
  <2>3. row # i0 /\ (\A k : <<k, i0>> \notin seats) /\ (\A k : ~Credited(k, i0))
    BY <2>2 DEF IInv, Base, StoredMinted, Credited
  <2>4. \A step, k : Call(step, k, i0) \notin Hand
    BY <2>1, <2>2 DEF Call
  <2> QED
    BY <2>3, <2>4 DEF Belongs
<1>10. ASSUME NEW k \in Keys, NEW i \in Instances, Belongs(k, i)'
       PROVE  Belongs(k, i) \/ (k = k0 /\ i = i0)
  <2>1. \A step \in {"obtain", "persist", "save"} :
          Call(step, k, i) \in Hand' => Call(step, k, i) \in Hand \/ (k = k0 /\ i = i0)
    BY <1>4 DEF Call
  <2> QED
    BY <1>5, <1>7, <1>10, <2>1 DEF Belongs
<1>11. Identity'
  BY <1>9, <1>10 DEF IInv, Identity
<1>12. Settled'
  <2>1. ASSUME NEW r \in op[Loop].done PROVE r.id # i0
    BY <1>1, Known DEF IInv, OpMinted, Actors
  <2> QED
    BY <1>1, <2>1 DEF IInv, Settled
<1>13. Moved'
  <2> SUFFICES ASSUME NEW b \in Commands, Replacing(op'[b]),
                      <<op'[b].oldKey, op'[b].oldId>> \in seats'
               PROVE  Giving(op[b].oldKey, op[b].oldId)'
    BY DEF Moved
  <2>1. CASE Giving(op[b].oldKey, op[b].oldId)'
    BY <2>1
  <2>2. CASE /\ Replacing(op[b]) /\ op'[b].oldKey = op[b].oldKey
             /\ op'[b].oldId = op[b].oldId
    <3>1. b \in Actors
      BY DEF Actors
    <3>2. op[b].oldId # i0
      BY <1>1, <3>1, Known, Fields DEF IInv, OpMinted
    <3>3. <<op[b].oldKey, op[b].oldId>> \in seats
      BY <2>2, <3>2
    <3>4. Giving(op[b].oldKey, op[b].oldId)
      BY <2>2, <3>3 DEF IInv, Moved
    <3>5. /\ Giving(op[b].oldKey, op[b].oldId) =>
               \A k, i : k = op[b].oldKey /\ i = op[b].oldId => Giving(k, i)
      OBVIOUS
    <3> QED
      BY <1>7, <2>2, <3>4
  <2> QED
    BY <2>1, <2>2 DEF StillMoving
<1>14. Seated'
  <2> SUFFICES ASSUME NEW k \in Keys, NEW i \in Instances, <<k, i>> \in seats', i \in learned'
               PROVE  SeatHandle(k, i)'
    BY DEF Seated
  <2>1. CASE i = i0
    <3>1. k = k0
      BY <1>9, <2>1 DEF Belongs
    <3> QED
      BY <2>1, <3>1
  <2>2. CASE i # i0
    BY <1>7, <2>2 DEF IInv, Seated
  <2> QED
    BY <2>1, <2>2
<1>15. Obtaining'
  <2> SUFFICES ASSUME NEW k \in Keys, NEW i \in Instances, Call("obtain", k, i) \in Hand'
               PROVE  Handled(k, i)'
    BY DEF Obtaining
  <2>1. Call("obtain", k, i) \in Hand
    BY <1>4 DEF Call
  <2> QED
    BY <1>7, <2>1 DEF IInv, Obtaining
<1>16. Stranded' => Stranded
  BY <1>7 DEF Stranded
<1>17. Calm
  <2>1. \A k, i : Call("obtain", k, i) \in Hand' => Call("obtain", k, i) \in Hand
    BY <1>4 DEF Call
  <2> QED
    BY <1>3, <1>7, <2>1 DEF Calm, Held, Provided
<1> QED
  BY <1>11, <1>12, <1>13, <1>14, <1>15, <1>16, <1>17 DEF IInv

LEMMA MintAnsweredKeeps ==
  ASSUME IInv, NEW a \in Commands, MintAnswered(a)
  PROVE  IInv' /\ (Stranded' => Stranded) /\ Calm
<1>0. PICK k0, i0 : k0 = op[a].key /\ i0 = minted + 1
  OBVIOUS
<1> DEFINE p == Call("persist", k0, i0)
           g == Call("seat", k0, i0)
           e == Call("seat", OldKey(a), op[a].oldId)
<1>1. /\ a \in Actors /\ Base' /\ OneMoves(a) /\ i0 \in Instances
      /\ op'[a].kind = "activate" /\ op'[a].retried = op[a].retried
      /\ op'[a].oldKey = op[a].oldKey /\ op'[a].oldId = op[a].oldId
  BY <1>0, MintAnsweredBase DEF IInv, Actors
<1>2. /\ k0 \in Keys /\ CallsOf(op[a]) = {Now(a)} /\ Now(a).step = "mint"
      /\ op[a].todo # <<>> /\ op[a].kind = "activate"
  BY <1>0, <1>1, AtMint DEF IInv, MintAnswered
<1>3. /\ UNCHANGED <<row, key, mutation, creds, owed, abandoned>>
      /\ seats' \subseteq seats \cup {<<k0, i0>>} /\ learned' \subseteq learned \cup {i0}
  BY <1>0 DEF MintAnswered, local, secrets, locks
<1>4. \A c \in CallsOf(op'[a]) : c.step \in Counting => c \in Hand'
  BY <1>1 DEF Hand, CallsOf
<1>5. p.step = "persist" /\ g.step = "seat" /\ e.step = "seat"
  BY DEF Call
<1>6. CASE /\ op'[a].id # 0
           /\ CallsOf(op'[a]) =
                {Call("persist", op[a].key, minted + 1)}
                \cup (IF Teardown(a) THEN {} ELSE {Call("untoken", op[a].key, minted + 1)})
                \cup (IF op[a].oldId = 0 THEN {}
                      ELSE {Call("release", OldKey(a), op[a].oldId),
                            Call("forget", OldKey(a), op[a].oldId)}
                           \cup (IF op[a].retried THEN {}
                                 ELSE {Call("seat", OldKey(a), op[a].oldId)}))
  <2>1. \A c \in CallsOf(op'[a]) : c.step \in {"obtain", "persist", "save"} => c = p
    BY <1>0, <1>6 DEF Call
  <2>2. p \in Hand'
    <3>1. p \in CallsOf(op'[a])
      BY <1>0, <1>6
    <3> HIDE DEF p
    <3> QED
      BY <1>4, <1>5, <3>1 DEF Counting
  <2>3. SeatHandle(k0, i0)'
    BY <2>2 DEF SeatHandle
  <2>4. StillMoving
    <3>1. ASSUME Replacing(op'[a]), ~op[a].retried PROVE Giving(op[a].oldKey, op[a].oldId)'
      <4>1. op[a].oldId # 0 /\ OldKey(a) = op[a].oldKey
        BY <1>1, <3>1 DEF Replacing, OldKey, Teardown
      <4>2. e \in CallsOf(op'[a])
        BY <1>6, <3>1, <4>1
      <4>3. e \in Hand'
        <5> HIDE DEF e
        <5> QED
          BY <1>4, <1>5, <4>2 DEF Counting
      <4> QED
        BY <1>1, <4>1, <4>3 DEF Giving
    <3>2. ASSUME Replacing(op'[a]), op[a].retried PROVE Replacing(op[a])
      BY <1>1, <1>2, <3>2 DEF Replacing
    <3> QED
      BY <1>1, <3>1, <3>2 DEF StillMoving, OneMoves, Actors
  <2> QED
    BY <1>0, <1>1, <1>2, <1>3, <2>1, <2>3, <2>4, MintKeeps
<1>7. CASE op'[a].id = op[a].id /\ CallsOf(op'[a]) = {g}
  <2>1. \A c \in CallsOf(op'[a]) : c.step \in {"obtain", "persist", "save"} => c = p
    BY <1>5, <1>7
  <2>2. g \in Hand'
    <3> HIDE DEF g
    <3> QED
      BY <1>4, <1>5, <1>7 DEF Counting
  <2>3. SeatHandle(k0, i0)'
    BY <2>2 DEF SeatHandle, Giving
  <2>4. StillMoving
    BY <1>1, <1>2, <1>7 DEF StillMoving, OneMoves, Actors, Replacing
  <2> QED
    BY <1>0, <1>1, <1>2, <1>3, <2>1, <2>3, <2>4, MintKeeps
<1> QED
  BY <1>0, <1>1, <1>6, <1>7, MintAnsweredBase DEF IInv

LEMMA MintLostKeeps ==
  ASSUME IInv, NEW a \in Commands, MintLost(a)
  PROVE  IInv' /\ (Stranded' => Stranded) /\ Calm
<1>0. PICK k0, i0 : k0 = op[a].key /\ i0 = minted + 1
  OBVIOUS
<1>1. /\ a \in Actors /\ Base' /\ OneMoves(a) /\ op'[a] = Resting /\ CallsOf(op'[a]) = {}
      /\ CallsOf(op[a]) = {Now(a)} /\ Now(a).step = "mint" /\ op[a].todo # <<>>
  BY MintLostBase DEF IInv, Actors
<1>2. k0 \in Keys
  BY <1>0, <1>1, AtMint DEF IInv, MintLost
<1>3. /\ UNCHANGED <<row, key, mutation, creds, owed, abandoned, learned>> /\ minted' = i0
      /\ seats' \subseteq seats \cup {<<k0, i0>>}
  BY <1>0 DEF MintLost, local, secrets, locks
<1>4. i0 \in Instances /\ i0 \notin learned
  <2>1. minted' \in {0} \cup Instances /\ minted \in Nat
    BY <1>1, Known DEF Base, TypeOK, IInv
  <2>2. i0 # 0 /\ ~(i0 <= minted)
    BY <1>0, <2>1
  <2> QED
    BY <1>3, <2>1, <2>2 DEF IInv, Base, StoredMinted
<1>5. StillMoving
  BY <1>1, Idle DEF StillMoving, OneMoves, Actors
<1>6. \A c \in CallsOf(op'[a]) :
        c.step \in {"obtain", "persist", "save"} => c = Call("persist", k0, i0)
  BY <1>1
<1> QED
  BY <1>0, <1>1, <1>2, <1>3, <1>4, <1>5, <1>6, MintKeeps

\* A credential whose release was answered, and not by a refusal, is there again when
\* the list is settled, and nothing but the list provides for it.
OwedAgain == \E k \in Keys, i \in Instances :
  /\ Credited(k, i) /\ ~Provided(k, i)
  /\ Owed(k, i, "catalog") \in op[Loop].done \ abandoned

LEMMA SettleKeeps ==
  ASSUME IInv, Settle
  PROVE  IInv' /\ (Stranded' => Stranded \/ OwedAgain) /\ Calm
<1>1. /\ Base' /\ OneMoves(Loop) /\ SameCommand(op[Loop], op'[Loop]) /\ Loop \in Actors
      /\ op'[Loop].done = {}
      /\ CallsOf(op[Loop]) = {Now(Loop)} /\ Now(Loop).step = "drain" /\ op[Loop].todo # <<>>
      /\ CallsOf(op'[Loop]) = {Call("tick", NoKey, 0)}
      /\ UNCHANGED <<row, key, mutation, seats, creds, learned, abandoned>>
      /\ owed' \in {owed, owed \ op[Loop].done} /\ credential = NoOne
  BY SettleBase DEF IInv, Actors
<1>2. mutation # Loop
  BY <1>1, NotHolding DEF IInv
<1>3. StillMoving
  BY <1>1, SameStill
<1>4. Hand' = Hand
  <2>1. /\ \A c \in CallsOf(op[Loop]) : c.step \in Counting => c \in CallsOf(op'[Loop]) \cup {}
        /\ \A c \in CallsOf(op'[Loop]) : c.step \in Counting => c \in CallsOf(op[Loop]) \cup {}
    BY <1>1 DEF Call, Counting
  <2>2. Hand \subseteq Hand' \cup {} /\ Hand' \subseteq Hand \cup {}
    BY <1>1, <2>1, HandMoves
  <2> QED
    BY <2>2
<1>5. KeyOfRow' = KeyOfRow
  BY <1>1, <1>2, RowKeyStays DEF IInv
<1>6. \A k, i : /\ Forgetting(k, i) => Forgetting(k, i)'
                /\ Recording(k, i) => Recording(k, i)'
  BY <1>1, MarksStay DEF IInv
<1>7. \A c \in Hand : c.step # "obtain"
  BY <1>1, ObtainHolds, Numbers DEF IInv
<1>8. ASSUME NEW k, NEW i, <<k, i>> \in seats'
      PROVE  /\ Giving(k, i) => Giving(k, i)'
             /\ SeatHandle(k, i) => SeatHandle(k, i)'
  <2>1. Owed(k, i, "provider") \notin op[Loop].done \ abandoned
    BY <1>1, <1>8 DEF IInv, Settled, Owed
  <2> QED
    BY <1>1, <1>4, <2>1 DEF Giving, SeatHandle
<1>9. \A k, i : (Belongs(k, i)' <=> Belongs(k, i)) /\ (Credited(k, i)' <=> Credited(k, i))
  BY <1>1, <1>4, <1>5 DEF Belongs, Credited
<1>10. Identity' /\ Settled' /\ Seated'
  BY <1>1, <1>8, <1>9 DEF IInv, Identity, Settled, Seated
<1>11. Obtaining'
  BY <1>4, <1>7 DEF Obtaining, Call
<1>12. Moved'
  <2> SUFFICES ASSUME NEW b \in Commands, Replacing(op'[b]),
                      <<op'[b].oldKey, op'[b].oldId>> \in seats'
               PROVE  Giving(op[b].oldKey, op[b].oldId)'
    BY <1>1, ActorsAssumption DEF Moved, OneMoves, Actors
  <2>1. op'[b] = op[b]
    BY <1>1, ActorsAssumption DEF OneMoves, Actors
  <2>2. Giving(op[b].oldKey, op[b].oldId)
    BY <1>1, <2>1 DEF IInv, Moved
  <2> QED
    BY <1>8, <2>1, <2>2
<1>13. Stranded' => Stranded \/ OwedAgain
  <2> SUFFICES ASSUME NEW k \in Keys, NEW i \in Instances, Credited(k, i), Handled(k, i),
                      ~OwedAgain
               PROVE  Handled(k, i)'
    BY <1>9 DEF Stranded
  <2>1. Owed(k, i, "catalog") \notin op[Loop].done \ abandoned \/ Provided(k, i)
    BY DEF OwedAgain
  <2> QED
    BY <1>1, <1>4, <1>6, <2>1 DEF Handled, Provided
<1>14. Calm
  BY <1>1, <1>4, <1>9 DEF Calm, Held, Provided
<1> QED
  BY <1>1, <1>10, <1>11, <1>12, <1>13, <1>14 DEF IInv

-----------------------------------------------------------------------------
(* The invariant, and what follows from it.                                *)

LEMMA InitIInv ==
  ASSUME Init
  PROVE  IInv
<1>1. Base
  BY InitBase
<1>2. Hand = {} /\ (\A a \in Actors : op[a] = Resting)
  BY RestingOK DEF Init, Hand
<1>3. KeyOfRow = key
  BY Numbers DEF Init, KeyOfRow
<1>4. \/ seats = {} /\ creds = {} /\ row = 0
      \/ /\ seats = {<<key, 1>>} /\ row = 1
         /\ \A c \in creds : c.key = key /\ c.id = 1
  BY DEF Init
<1>5. Identity
  BY <1>2, <1>3, <1>4, Numbers DEF Identity, Belongs, Credited
<1>6. Settled /\ Moved /\ Obtaining
  <2>1. op[Loop] = Resting /\ \A a \in Commands : op[a] = Resting
    BY <1>2 DEF Actors
  <2> QED
    BY <1>2, <2>1, RestingOK, Idle DEF Settled, Moved, Obtaining
<1>7. Seated
  BY <1>4 DEF Seated, SeatHandle
<1> QED
  BY <1>1, <1>5, <1>6, <1>7 DEF IInv

LEMMA NextKeeps ==
  ASSUME IInv, [Next]_vars
  PROVE  IInv' /\ (Stranded' => Stranded \/ (Settle /\ OwedAgain)) /\ Calm
<1>1. CASE UNCHANGED vars
  BY <1>1, StutterBase, StillKeeps DEF IInv
<1>2. CASE Lapse
  BY <1>2, LapseBase, StillKeeps DEF IInv
<1>3. ASSUME NEW a \in Commands,
             \/ \E k \in Keys : StartActivation(a, k)
             \/ StartDeactivation(a)
             \/ CommandStep(a)
             \/ MintLost(a)
      PROVE  IInv' /\ (Stranded' => Stranded) /\ Calm
  <2>1. CASE \/ \E k \in Keys : StartActivation(a, k)
             \/ StartDeactivation(a) \/ ReadRow(a) \/ ReadKey(a) \/ Confirm(a)
             \/ Ended(a)
    <3>1. Quiet(a) /\ a \in Actors
      BY <2>1, QuietCommand DEF IInv
    <3> QED
      BY <3>1, QuietSmooth, SmoothKeeps DEF Quiet
  <2>2. CASE MintAnswered(a)
    BY <2>2, MintAnsweredKeeps
  <2>3. CASE MintRefused(a)
    BY <2>3, MintRefusedKeeps
  <2>4. CASE MintLost(a)
    BY <2>4, MintLostKeeps
  <2>5. CASE Persist(a)
    BY <2>5, PersistKeeps
  <2>6. CASE Save(a)
    BY <2>6, SaveKeeps
  <2>7. CASE ClearRow(a)
    BY <2>7, ClearRowKeeps
  <2>8. CASE DeleteKey(a)
    BY <2>8, DeleteKeyKeeps
  <2>9. CASE Release(a)
    BY <2>9, ReleaseKeeps
  <2>10. CASE Forget(a)
    BY <2>10, ForgetKeeps
  <2>11. CASE ReleaseSeat(a)
    BY <2>11, ReleaseSeatKeeps
  <2>12. CASE Record(a)
    BY <2>12, RecordKeeps
  <2>13. CASE DeleteToken(a)
    BY <2>13, DeleteTokenKeeps
  <2> QED
    BY <1>3, <2>1, <2>2, <2>3, <2>4, <2>5, <2>6, <2>7, <2>8, <2>9, <2>10, <2>11, <2>12, <2>13
    DEF CommandStep
<1>4. ASSUME NEW a \in Actors, EnsureStep(a)
      PROVE  IInv' /\ (Stranded' => Stranded) /\ Calm
  <2>1. CASE EnsureLock(a)
    <3>1. Quiet(a)
      BY <2>1, QuietEnsure DEF IInv
    <3> QED
      BY <3>1, QuietSmooth, SmoothKeeps DEF Quiet
  <2>2. CASE CheckGeneration(a)
    BY <2>2, CheckGenerationKeeps
  <2>3. CASE Obtain(a)
    BY <2>3, ObtainKeeps
  <2> QED
    BY <1>4, <2>1, <2>2, <2>3 DEF EnsureStep
<1>5. ASSUME LoopStep
      PROVE  IInv' /\ (Stranded' => Stranded \/ (Settle /\ OwedAgain)) /\ Calm
  <2>1. CASE DrainRead \/ TickLoad \/ TickToken \/ TickUse \/ TickReject
    <3>1. Quiet(Loop)
      BY <2>1, QuietDrainRead, QuietTick, TickLoadBase, TickTokenBase, TickUseBase,
         TickRejectBase DEF IInv
    <3> QED
      BY <3>1, Numbers, QuietSmooth, SmoothKeeps DEF Quiet
  <2>2. CASE DrainOne
    BY <2>2, DrainOneKeeps
  <2>3. CASE Settle
    BY <2>3, SettleKeeps
  <2> QED
    BY <1>5, <2>1, <2>2, <2>3 DEF LoopStep
<1> QED
  BY <1>1, <1>2, <1>3, <1>4, <1>5 DEF Next

\* The lists, the locks and the two handles stand in every state.
THEOREM Invariance == Spec => []IInv
<1>1. Init => IInv
  BY InitIInv
<1>2. IInv /\ [Next]_vars => IInv'
  BY NextKeeps
<1> QED
  BY <1>1, <1>2, PTL DEF Spec

\* Every variable keeps its type, whatever the locks, the answers lost and the
\* number of commands.
THEOREM TypeCorrect == Spec => []TypeOK
<1>1. IInv => TypeOK
  BY DEF IInv, Base
<1> QED
  BY <1>1, Invariance, PTL

\* No seat is stranded in silence: what the provider handed out and answered for is
\* named by the row, by a release that is owed, or by the list of the command at
\* work, or its release was refused for good or could not be recorded.
THEOREM SeatsHaveHandles == Spec => []SeatHasHandle
<1>1. ASSUME IInv PROVE SeatHasHandle
  <2> SUFFICES ASSUME NEW s \in seats, s[2] \in learned
               PROVE  \/ row = s[2]
                      \/ Owed(s[1], s[2], "provider") \in owed \cup abandoned
                      \/ InHand(s[1], s[2], {"seat", "record", "persist", "save"})
    BY DEF SeatHasHandle
  <2>1. s[1] \in Keys /\ s[2] \in Instances /\ s = <<s[1], s[2]>>
    BY <1>1 DEF IInv, Base, TypeOK
  <2>2. SeatHandle(s[1], s[2])
    BY <1>1, <2>1 DEF IInv, Seated
  <2>3. {"seat", "record", "persist", "save"} \in SUBSET Counting
    BY DEF Counting
  <2>4. InHand(s[1], s[2], {"seat", "record", "persist", "save"}) <=>
          \E step \in {"seat", "record", "persist", "save"} : Call(step, s[1], s[2]) \in Hand
    BY <1>1, <2>3, HandIsInHand DEF IInv
  <2> QED
    BY <2>2, <2>4 DEF SeatHandle, Giving
<1> QED
  BY <1>1, Invariance, PTL

LEMMA HandledIsHandle ==
  ASSUME IInv
  PROVE  CredentialHasHandle <=> ~Stranded
<1>1. ASSUME NEW k, NEW i
      PROVE  InHand(k, i, {"release"}) <=> Call("release", k, i) \in Hand
  <2>1. {"release"} \in SUBSET Counting
    BY DEF Counting
  <2>2. InHand(k, i, {"release"}) <=> \E step \in {"release"} : Call(step, k, i) \in Hand
    BY <2>1, HandIsInHand DEF IInv
  <2> QED
    BY <2>2
<1>2. ASSUME NEW k, NEW i
      PROVE  (\E a \in Actors : /\ op[a].todo # <<>>
                                /\ Now(a).key = k /\ Now(a).id = i
                                /\ \/ Doing(a, "forget") /\ op[a].lost
                                   \/ Doing(a, "record") /\ mutation = a)
             <=> Forgetting(k, i) \/ Recording(k, i)
  BY DEF Forgetting, Recording, Doing
<1>3. \A c \in creds : c.key \in Keys /\ c.id \in Instances
  BY DEF IInv, Base, TypeOK, Credentials
<1> QED
  BY <1>1, <1>2, <1>3 DEF CredentialHasHandle, HasHandle, Stranded, Handled, Credited, Provided

\* Only one step can leave a credential with no handle and no refusal or failed
\* write to show for it: the loop settling its list after a release that was
\* answered has been undone by a credential obtained meanwhile.
THEOREM StrandedOnlyBySettle ==
  Spec => [][CredentialHasHandle => CredentialHasHandle' \/ (Settle /\ OwedAgain)]_vars
<1>1. IInv /\ IInv' /\ [Next]_vars =>
        [CredentialHasHandle => CredentialHasHandle' \/ (Settle /\ OwedAgain)]_vars
  <2> SUFFICES ASSUME IInv, IInv', [Next]_vars, CredentialHasHandle
               PROVE  CredentialHasHandle' \/ (Settle /\ OwedAgain)
    OBVIOUS
  <2>1. CredentialHasHandle <=> ~Stranded
    BY HandledIsHandle
  <2>2. CredentialHasHandle' <=> ~Stranded'
    BY HandledIsHandle, PTL
  <2> QED
    BY <2>1, <2>2, NextKeeps
<1> QED
  BY <1>1, Invariance, PTL DEF Spec

-----------------------------------------------------------------------------
(* With a single fault.                                                    *)

\* What is owed, or was when the loop read the list.
Pending == owed \cup op[Loop].list \cup op[Loop].done

\* Only a fault leaves a release to be owed, and until the fault is met a
\* credential that is given back stays given back: what is obtained again after
\* the loop delivered its release is provided for anew.
OneFault ==
  /\ Pending # {} => faults # 0
  /\ \A a \in Actors : op[a].lost => faults # 0
  /\ \A c \in Hand : c.step = "record" => faults # 0
  /\ \A k \in Keys, i \in Instances :
       /\ Credited(k, i) /\ Owed(k, i, "catalog") \in op[Loop].done => Provided(k, i)
       /\ Call("obtain", k, i) \in Hand /\ Owed(k, i, "catalog") \in Pending => Provided(k, i)

\* A step that meets no fault leaves no new mark of one.
Marked(a) ==
  /\ OneMoves(a)
  /\ faults' = faults \/ Fault
  /\ faults' = faults =>
       /\ op'[a].lost => op[a].lost
       /\ \A c \in CallsOf(op'[a]) : c.step = "record" => c \in CallsOf(op[a])

LEMMA ThenLost ==
  ASSUME TypeOK, NEW a \in Actors, NEW t, Then(a, t)
  PROVE  op'[a].lost = op[a].lost
<1>1. op[a] \in Ops /\ op \in [Actors -> Ops]
  BY DEF TypeOK
<1>2. op'[a] = [op[a] EXCEPT !.todo = t]
  BY <1>1 DEF Then
<1> QED
  BY <1>1, <1>2 DEF Ops

\* Only a credential's release that is not delivered is marked lost.
LEMMA NotLost ==
  ASSUME Base, NEW a \in Actors, op[a].todo = <<>> \/ Now(a).step # "forget"
  PROVE  ~op[a].lost
<1>1. OpOK(op[a]) /\ op[a] \in Ops
  BY Known
<1> QED
  BY <1>1, Fields DEF OpOK, Now

LEMMA NotLostAfter ==
  ASSUME Base', NEW a \in Actors, op'[a].todo = <<>> \/ Head(op'[a].todo).step # "forget"
  PROVE  ~op'[a].lost
<1>1. OpOK(op'[a]) /\ op'[a] \in Ops
  BY DEF Base, TypeOK
<1> QED
  BY <1>1, Fields DEF OpOK

LEMMA QuietMarked ==
  ASSUME NEW a \in Actors, Quiet(a), UNCHANGED faults
  PROVE  Marked(a)
<1>1. ~op'[a].lost
  BY NotLostAfter DEF Quiet
<1> QED
  BY <1>1 DEF Marked, Quiet, Counting

LEMMA CommandMarked ==
  ASSUME Base, NEW a \in Commands,
         \/ \E k \in Keys : StartActivation(a, k)
         \/ StartDeactivation(a)
         \/ CommandStep(a)
         \/ MintLost(a)
  PROVE  Marked(a) /\ (owed' = owed \/ Forget(a) \/ Record(a))
<1>1. a \in Actors /\ TypeOK /\ faults \in Nat
  BY DEF Actors, Base, TypeOK
<1>2. Fault => faults' # faults
  BY <1>1 DEF Fault
<1>3. CASE \/ \E k \in Keys : StartActivation(a, k)
           \/ StartDeactivation(a) \/ ReadRow(a) \/ ReadKey(a) \/ Confirm(a)
           \/ Ended(a)
  <2>1. Quiet(a)
    BY <1>3, QuietCommand
  <2>2. UNCHANGED faults
    BY <1>3 DEF StartActivation, StartDeactivation, ReadRow, ReadKey, Confirm, Ended, bounds
  <2> QED
    BY <1>1, <2>1, <2>2, QuietMarked DEF Quiet
<1>4. CASE MintAnswered(a)
  <2>1. /\ Base' /\ OneMoves(a) /\ op'[a].todo # <<>>
        /\ Head(op'[a].todo).step \in {"release", "untoken", "persist", "seat"}
        /\ \A c \in CallsOf(op'[a]) :
             c.step \in {"persist", "untoken", "release", "forget", "seat"}
    BY <1>1, <1>4, MintAnsweredBase DEF Call
  <2>2. owed' = owed /\ (faults' = faults \/ Fault)
    BY <1>4 DEF MintAnswered, secrets, NoFault
  <2> QED
    BY <1>1, <2>1, <2>2, NotLostAfter DEF Marked
<1>5. CASE MintRefused(a)
  <2>1. /\ Base' /\ OneMoves(a)
        /\ op'[a].todo = <<>> \/ Head(op'[a].todo).step = "seat"
        /\ \A c \in CallsOf(op'[a]) : c.step \in {"mint", "seat"}
    BY <1>1, <1>5, MintRefusedBase DEF Call
  <2>2. owed' = owed /\ faults' = faults
    BY <1>5 DEF MintRefused, secrets, bounds
  <2> QED
    BY <1>1, <2>1, <2>2, NotLostAfter DEF Marked
<1>6. CASE MintLost(a)
  <2>1. OneMoves(a)
    BY <1>1, <1>6, MintLostBase
  <2>2. owed' = owed /\ Fault
    BY <1>6 DEF MintLost, secrets
  <2> QED
    BY <1>2, <2>1, <2>2 DEF Marked
<1>7. CASE Persist(a)
  <2>1. /\ Base' /\ OneMoves(a) /\ op'[a].todo # <<>>
        /\ Head(op'[a].todo).step \in {"save", "seat"}
        /\ \A c \in CallsOf(op'[a]) : c.step \in {"save", "seat"}
    <3> DEFINE s == Call("save", Now(a).key, Now(a).id)
               g == Call("seat", Now(a).key, Now(a).id)
    <3>1. /\ Base' /\ OneMoves(a) /\ op'[a].todo # <<>>
          /\ \/ CallsOf(op'[a]) = {s} /\ Head(op'[a].todo) = s
             \/ CallsOf(op'[a]) = {g} /\ Head(op'[a].todo) = g
      BY <1>1, <1>7, PersistBase
    <3>2. s.step = "save" /\ g.step = "seat"
      BY DEF Call
    <3> HIDE DEF s, g
    <3> QED
      BY <3>1, <3>2
  <2>2. owed' = owed /\ faults' = faults
    BY <1>7 DEF Persist, secrets, bounds
  <2> QED
    BY <1>1, <2>1, <2>2, NotLostAfter DEF Marked
<1>8. CASE Save(a)
  <2>1. /\ OneMoves(a) /\ op[a].todo # <<>> /\ Now(a).step = "save"
        /\ \A c \in CallsOf(op'[a]) : c.step \in {"ensure", "release", "forget", "seat"}
    BY <1>1, <1>8, SaveBase DEF Call
  <2>2. owed' = owed /\ (faults' = faults \/ Fault) /\ op'[a].lost = op[a].lost
    BY <1>1, <1>8, ThenLost DEF Save, secrets, NoFault
  <2> QED
    BY <2>1, <2>2 DEF Marked
<1>9. CASE ClearRow(a)
  <2>1. owed' = owed /\ (faults' = faults \/ Fault)
    BY <1>9 DEF ClearRow, secrets, NoFault
  <2>2. OneMoves(a)
    BY <1>1, <1>9, ClearRowBase
  <2>3. \/ Fault
        \/ \A c \in CallsOf(op'[a]) : c.step \in {"unkey", "release", "forget", "seat"}
    BY <1>1, <1>9, ClearRowBase, RestingOK DEF Call
  <2>4. op'[a].lost => op[a].lost
    <3>1. CASE Finish(a)
      <4>1. op'[a] = Resting
        BY <1>1, <3>1, FinishMoves
      <4> QED
        BY <4>1 DEF Resting
    <3>2. CASE \E t : Then(a, t)
      BY <1>1, <3>2, ThenLost
    <3> QED
      BY <1>9, <3>1, <3>2 DEF ClearRow
  <2> QED
    BY <1>2, <2>1, <2>2, <2>3, <2>4 DEF Marked
<1>10. CASE DeleteKey(a)
  <2>1. OneMoves(a) /\ CallsOf(op'[a]) \subseteq CallsOf(op[a])
    BY <1>1, <1>10, DeleteKeyBase
  <2>2. owed' = owed /\ (faults' = faults \/ Fault) /\ op'[a].lost = op[a].lost
    BY <1>1, <1>10, ThenLost DEF DeleteKey, secrets, NoFault
  <2> QED
    BY <2>1, <2>2 DEF Marked
<1>11. CASE Release(a)
  <2>1. /\ OneMoves(a) /\ CallsOf(op'[a]) \subseteq CallsOf(op[a])
        /\ (~op'[a].lost /\ NoFault) \/ Fault
    BY <1>1, <1>11, ReleaseBase
  <2>2. owed' = owed
    BY <1>11 DEF Release, secrets
  <2> QED
    BY <1>2, <2>1, <2>2 DEF Marked, NoFault
<1>12. CASE Forget(a)
  <2>1. OneMoves(a) /\ CallsOf(op'[a]) \subseteq CallsOf(op[a]) /\ ~op'[a].lost
    BY <1>1, <1>12, ForgetBase
  <2>2. faults' = faults \/ Fault
    BY <1>12 DEF Forget, NoFault
  <2> QED
    BY <1>12, <2>1, <2>2 DEF Marked
<1>13. CASE ReleaseSeat(a)
  <2>1. /\ OneMoves(a)
        /\ (CallsOf(op'[a]) \subseteq CallsOf(op[a]) /\ NoFault) \/ Fault
    BY <1>1, <1>13, ReleaseSeatBase
  <2>2. owed' = owed /\ op'[a].lost = op[a].lost
    BY <1>1, <1>13, ThenLost DEF ReleaseSeat, secrets
  <2> QED
    BY <1>2, <2>1, <2>2 DEF Marked, NoFault
<1>14. CASE Record(a)
  <2>1. OneMoves(a) /\ CallsOf(op'[a]) \subseteq CallsOf(op[a])
    BY <1>1, <1>14, RecordBase
  <2>2. faults' = faults /\ op'[a].lost = op[a].lost
    BY <1>1, <1>14, ThenLost DEF Record
  <2> QED
    BY <1>14, <2>1, <2>2 DEF Marked
<1>15. CASE DeleteToken(a)
  <2>1. /\ OneMoves(a) /\ owed' = owed /\ (CallsOf(op'[a]) \subseteq CallsOf(op[a]) \/ Fault)
    BY <1>1, <1>15, DeleteTokenBase
  <2>2. (faults' = faults \/ Fault) /\ op'[a].lost = op[a].lost
    BY <1>1, <1>15, ThenLost DEF DeleteToken, NoFault
  <2> QED
    BY <1>2, <2>1, <2>2 DEF Marked
<1> QED
  BY <1>3, <1>4, <1>5, <1>6, <1>7, <1>8, <1>9, <1>10, <1>11, <1>12, <1>13, <1>14, <1>15
  DEF CommandStep

LEMMA EnsureMarked ==
  ASSUME Base, NEW a \in Actors, EnsureStep(a)
  PROVE  /\ Marked(a) /\ owed' = owed
         /\ op'[a].list = op[a].list /\ op'[a].done = op[a].done
<1>1. TypeOK
  BY DEF Base
<1>2. CASE EnsureLock(a)
  <2>1. Quiet(a)
    BY <1>2, QuietEnsure
  <2>2. UNCHANGED faults
    BY <1>2 DEF EnsureLock, bounds
  <2>3. op'[a].list = op[a].list /\ op'[a].done = op[a].done
    BY <1>2, EnsureLockBase
  <2> QED
    BY <2>1, <2>2, <2>3, QuietMarked DEF Quiet
<1>3. CASE CheckGeneration(a)
  <2>1. /\ Base' /\ OneMoves(a) /\ UNCHANGED <<owed, abandoned, faults>>
        /\ op'[a].list = op[a].list /\ op'[a].done = op[a].done
        /\ op'[a].todo # <<>> => Head(op'[a].todo).step \in {"token", "obtain"}
        /\ \A c \in CallsOf(op'[a]) : c \in CallsOf(op[a]) \/ c.step = "obtain"
    BY <1>3, CheckGenerationBase DEF Call
  <2>2. ~op'[a].lost
    BY <2>1, NotLostAfter
  <2> QED
    BY <2>1, <2>2 DEF Marked
<1>4. CASE Obtain(a)
  <2>1. /\ OneMoves(a) /\ owed' = owed /\ CallsOf(op'[a]) \subseteq CallsOf(op[a])
        /\ op'[a].list = op[a].list /\ op'[a].done = op[a].done
    BY <1>4, ObtainBase
  <2>2. op'[a].lost = op[a].lost
    BY <1>1, <1>4, ThenLost DEF Obtain
  <2>3. faults' = faults \/ Fault
    BY <1>4 DEF Obtain, Activate, Issue, Unanswered, Refused, NoFault
  <2> QED
    BY <2>1, <2>2, <2>3 DEF Marked
<1> QED
  BY <1>2, <1>3, <1>4 DEF EnsureStep

LEMMA LoopMarked ==
  ASSUME Base, LoopStep
  PROVE  /\ Marked(Loop) /\ (owed' \subseteq Pending)
         /\ op'[Loop].list \cup op'[Loop].done \subseteq Pending
         /\ \A r \in op'[Loop].done \ op[Loop].done :
              r.side = "catalog" => ~Credited(r.key, r.id)' \/ Fault
<1>1. Loop \in Actors
  BY DEF Actors
<1>2. CASE DrainRead
  <2>1. Quiet(Loop) /\ op'[Loop].list = owed /\ op'[Loop].done = {}
    BY <1>2, QuietDrainRead, DrainReadBase
  <2>2. UNCHANGED <<owed, abandoned, faults>>
    BY <1>2 DEF DrainRead, secrets, bounds
  <2> QED
    BY <1>1, <2>1, <2>2, QuietMarked DEF Pending
<1>3. CASE TickLoad \/ TickToken \/ TickUse \/ TickReject
  <2>1. Ticked
    BY <1>3, TickLoadBase, TickTokenBase, TickUseBase, TickRejectBase
  <2>2. Quiet(Loop) /\ UNCHANGED <<owed, abandoned, faults>>
        /\ op'[Loop].list \subseteq op[Loop].list /\ op'[Loop].done \subseteq op[Loop].done
    BY <2>1, QuietTick DEF Ticked
  <2> QED
    BY <1>1, <2>2, QuietMarked DEF Pending
<1>4. CASE DrainOne
  <2>1. /\ Base' /\ OneMoves(Loop) /\ op'[Loop].list \subseteq op[Loop].list
        /\ CallsOf(op'[Loop]) = CallsOf(op[Loop]) /\ op'[Loop].todo = op[Loop].todo
        /\ Now(Loop).step = "drain" /\ owed' = owed
        /\ op'[Loop].done \subseteq op[Loop].done \cup op[Loop].list
        /\ \A r \in op'[Loop].done \ op[Loop].done :
             r.side = "catalog" => ~Credited(r.key, r.id)' \/ Fault
    BY <1>4, DrainOneBase DEF Credited, Of
  <2>2. ~op'[Loop].lost
    BY <1>1, <2>1, NotLostAfter DEF Now
  <2>3. faults' = faults \/ Fault
    BY <1>4 DEF DrainOne, NoFault
  <2> QED
    BY <2>1, <2>2, <2>3 DEF Marked, Pending
<1>5. CASE Settle
  <2>1. /\ Base' /\ OneMoves(Loop) /\ op'[Loop].done = {} /\ op'[Loop].list = op[Loop].list
        /\ CallsOf(op'[Loop]) = {Call("tick", NoKey, 0)}
        /\ (faults' = faults \/ Fault) /\ owed' \subseteq owed
        /\ Call("tick", NoKey, 0).step = "tick"
    BY <1>5, SettleBase DEF Call
  <2>2. \A c \in CallsOf(op'[Loop]) : c.step = "tick"
    BY <2>1
  <2>3. op'[Loop].todo = <<>> \/ Head(op'[Loop].todo).step # "forget"
    BY <1>1, <2>1, <2>2, Fields DEF Base, TypeOK
  <2>4. ~op'[Loop].lost
    BY <1>1, <2>1, <2>3, NotLostAfter
  <2> QED
    BY <2>1, <2>2, <2>4 DEF Marked, Pending
<1> QED
  BY <1>2, <1>3, <1>4, <1>5 DEF LoopStep

LEMMA InitOneFault ==
  ASSUME Init
  PROVE  OneFault
<1>1. Hand = {} /\ (\A a \in Actors : op[a] = Resting) /\ owed = {}
  BY RestingOK DEF Init, Hand
<1>2. op[Loop] = Resting
  BY <1>1 DEF Actors
<1> QED
  BY <1>1, <1>2, RestingOK DEF OneFault, Pending, Resting

\* What a step of the model leaves pending.
LEMMA StepMarks ==
  ASSUME IInv, [Next]_vars
  PROVE  /\ faults' = faults \/ Fault
         /\ op'[Loop].list \cup op'[Loop].done \subseteq Pending
         /\ owed' \subseteq Pending \/ \E a \in Commands : Forget(a) \/ Record(a)
         /\ \A r \in op'[Loop].done \ op[Loop].done :
              r.side = "catalog" => ~Credited(r.key, r.id)' \/ Fault
         /\ faults' = faults => \A b \in Actors :
              /\ op'[b].lost => op[b].lost
              /\ \A c \in CallsOf(op'[b]) : c.step = "record" => c \in CallsOf(op[b])
<1>1. CASE UNCHANGED op /\ owed' = owed /\ (faults' = faults \/ Fault)
  BY <1>1 DEF Pending, CallsOf
<1>2. ASSUME NEW a \in Actors, Marked(a)
      PROVE  /\ faults' = faults \/ Fault
             /\ faults' = faults => \A b \in Actors :
                  /\ op'[b].lost => op[b].lost
                  /\ \A c \in CallsOf(op'[b]) : c.step = "record" => c \in CallsOf(op[b])
  BY <1>2 DEF Marked, OneMoves
<1>3. ASSUME NEW a \in Commands,
             \/ \E k \in Keys : StartActivation(a, k)
             \/ StartDeactivation(a)
             \/ CommandStep(a)
             \/ MintLost(a)
      PROVE  /\ Marked(a) /\ (owed' = owed \/ Forget(a) \/ Record(a)) /\ a \in Actors
             /\ op'[Loop] = op[Loop]
  BY <1>3, CommandMarked, NotLoop DEF IInv, Marked
<1>4. CASE \E a \in Commands : \/ \E k \in Keys : StartActivation(a, k)
                              \/ StartDeactivation(a)
                              \/ CommandStep(a)
                              \/ MintLost(a)
  BY <1>2, <1>3, <1>4 DEF Pending
<1>5. CASE \E a \in Actors : EnsureStep(a)
  <2>1. PICK a \in Actors : EnsureStep(a)
    BY <1>5
  <2>2. /\ Marked(a) /\ owed' = owed
        /\ op'[Loop].list = op[Loop].list /\ op'[Loop].done = op[Loop].done
    BY <2>1, EnsureMarked DEF IInv, Marked, OneMoves, Actors
  <2> QED
    BY <1>2, <2>2 DEF Pending
<1>6. CASE LoopStep
  BY <1>2, <1>6, LoopMarked, Numbers DEF IInv
<1>7. CASE Lapse
  BY <1>1, <1>7 DEF Lapse, secrets
<1>8. CASE UNCHANGED vars
  BY <1>1, <1>8 DEF vars, secrets, bounds
<1> QED
  BY <1>4, <1>5, <1>6, <1>7, <1>8 DEF Next

LEMMA NextOneFault ==
  ASSUME MaxFaults <= 1, IInv, OneFault, [Next]_vars
  PROVE  OneFault'
<1>1. /\ faults \in Nat /\ MaxFaults \in Nat /\ faults <= MaxFaults
      /\ Fault => faults' # 0 /\ faults = 0
  BY BoundsAssumption DEF IInv, Base, TypeOK, Fault
<1>2. /\ faults' = faults \/ Fault
      /\ op'[Loop].list \cup op'[Loop].done \subseteq Pending
      /\ owed' \subseteq Pending \/ \E a \in Commands : Forget(a) \/ Record(a)
      /\ \A r \in op'[Loop].done \ op[Loop].done :
           r.side = "catalog" => ~Credited(r.key, r.id)' \/ Fault
      /\ faults' = faults => \A b \in Actors :
           /\ op'[b].lost => op[b].lost
           /\ \A c \in CallsOf(op'[b]) : c.step = "record" => c \in CallsOf(op[b])
  BY StepMarks
<1>3. CASE faults = 0
  <2>1. /\ Pending = {} /\ (\A a \in Actors : ~op[a].lost)
        /\ \A c \in Hand : c.step # "record"
    BY <1>3 DEF OneFault
  <2>2. ASSUME NEW a \in Commands, Forget(a) PROVE owed' = owed
    BY <2>1, <2>2 DEF Forget, Note, Actors
  <2>3. ASSUME NEW a \in Commands PROVE ~Record(a)
    <3>1. SUFFICES ASSUME Record(a) PROVE FALSE
      OBVIOUS
    <3>2. a \in Actors /\ op[a].todo # <<>> /\ Now(a).step = "record"
      BY <3>1 DEF Record, Doing, Now, Actors
    <3>3. Now(a) \in Hand
      BY <3>2, Known DEF IInv, Hand, Counting
    <3> QED
      BY <2>1, <3>2, <3>3
  <2>4. Pending' = {}
    BY <1>2, <2>1, <2>2, <2>3 DEF Pending
  <2>5. CASE faults' # 0
    BY <2>4, <2>5 DEF OneFault, Pending
  <2>6. CASE faults' = faults
    <3>1. \A a \in Actors : ~op'[a].lost
      BY <1>2, <2>1, <2>6
    <3>2. \A c \in Hand' : c.step # "record"
      <4>1. SUFFICES ASSUME NEW c \in Hand', c.step = "record" PROVE FALSE
        OBVIOUS
      <4>2. PICK b \in Actors : c \in CallsOf(op'[b])
        BY DEF Hand, CallsOf
      <4>3. c \in Hand
        BY <1>2, <2>6, <4>1, <4>2 DEF Hand, Counting
      <4> QED
        BY <2>1, <4>1, <4>3
    <3> QED
      BY <2>4, <3>1, <3>2 DEF OneFault, Pending
  <2> QED
    BY <1>1, <1>2, <2>5, <2>6
<1>4. CASE faults # 0
  <2>1. faults' = faults
    BY <1>1, <1>2, <1>4
  <2>2. Calm
    BY NextKeeps
  <2>3. ASSUME NEW k \in Keys, NEW i \in Instances, Held(k, i)', Provided(k, i)
        PROVE  Provided(k, i)'
    BY <2>1, <2>2, <2>3 DEF Calm
  <2>4. ASSUME NEW k \in Keys, NEW i \in Instances, Credited(k, i)',
               Owed(k, i, "catalog") \in op'[Loop].done
        PROVE  Provided(k, i)'
    <3> DEFINE r == Owed(k, i, "catalog")
    <3>1. r.key = k /\ r.id = i /\ r.side = "catalog"
      BY DEF Owed
    <3>2. r \in op[Loop].done /\ r \in Pending
      BY <1>1, <1>2, <1>4, <2>4, <3>1 DEF Pending
    <3>3. Held(k, i)' /\ Held(k, i)
      BY <2>2, <2>4 DEF Held, Calm
    <3>4. Provided(k, i)
      BY <3>2, <3>3 DEF Held, OneFault
    <3> QED
      BY <2>3, <3>3, <3>4
  <2>5. ASSUME NEW k \in Keys, NEW i \in Instances, Call("obtain", k, i) \in Hand',
               Owed(k, i, "catalog") \in Pending'
        PROVE  Provided(k, i)'
    <3>1. Held(k, i)'
      BY <2>5 DEF Held
    <3>2. CASE row = i
      BY <2>3, <3>1, <3>2 DEF Provided
    <3>3. CASE Call("obtain", k, i) \in Hand /\ Owed(k, i, "catalog") \in Pending
      BY <2>3, <3>1, <3>3 DEF OneFault
    <3>4. CASE Call("obtain", k, i) \in Hand /\ Owed(k, i, "catalog") \notin Pending
      <4>1. Call("obtain", k, i).step = "obtain"
        BY DEF Call
      <4>2. PICK b \in Actors : credential = b /\ op[b].todo # <<>> /\ Now(b).step = "obtain"
        BY <3>4, <4>1, ObtainHolds DEF IInv
      <4>3. \E a \in Commands : Forget(a) \/ Record(a)
        BY <1>2, <2>5, <3>4 DEF Pending
      <4>4. ASSUME NEW a \in Commands, Forget(a) PROVE FALSE
        <5>1. credential = a /\ Now(a).step = "forget"
          BY <4>4, ForgetBase DEF IInv, Actors
        <5> QED
          BY <4>2, <5>1
      <4>5. ASSUME NEW a \in Commands, Record(a) PROVE FALSE
        BY <4>2, <4>5, Numbers DEF Record
      <4> QED
        BY <4>3, <4>4, <4>5
    <3> QED
      BY <2>2, <2>5, <3>2, <3>3, <3>4 DEF Calm
  <2> QED
    BY <1>4, <2>1, <2>4, <2>5 DEF OneFault, Pending
<1> QED
  BY <1>3, <1>4

\* With at most one fault, which may be a refusal or a failed write, no credential is
\* stranded in silence: one that is active at the catalog service is named by the
\* row, by a release that is owed, by one that some operation is about to make, or
\* by one that was given up knowingly.
THEOREM CredentialsHaveHandles == ASSUME MaxFaults <= 1 PROVE Spec => []CredentialHasHandle
<1> DEFINE J == OneFault /\ CredentialHasHandle
<1>1. Init => J
  <2> SUFFICES ASSUME Init PROVE J
    OBVIOUS
  <2>1. IInv /\ OneFault
    BY InitIInv, InitOneFault
  <2>2. ~Stranded
    <3>1. \/ creds = {}
          \/ /\ row = 1
             /\ \A c \in creds : c.id = 1
      BY DEF Init
    <3> QED
      BY <3>1 DEF Stranded, Credited, Handled, Provided
  <2> QED
    BY <2>1, <2>2, HandledIsHandle
<1>2. IInv /\ IInv' /\ J /\ [Next]_vars => J'
  <2> SUFFICES ASSUME IInv, IInv', J, [Next]_vars
               PROVE  J'
    OBVIOUS
  <2>1. OneFault'
    BY NextOneFault
  <2>2. Stranded' => Stranded \/ (Settle /\ OwedAgain)
    BY NextKeeps
  <2>3. ~OwedAgain
    BY DEF OwedAgain, OneFault
  <2>4. (CredentialHasHandle <=> ~Stranded) /\ (CredentialHasHandle' <=> ~Stranded')
    BY HandledIsHandle, PTL
  <2> QED
    BY <2>1, <2>2, <2>3, <2>4
<1> QED
  BY <1>1, <1>2, Invariance, PTL DEF Spec

-----------------------------------------------------------------------------
(* Who waits for whom.                                                     *)

\* a cannot go on before b lets go of a lock.
Waits(a, b) ==
  \/ /\ credential = b
     /\ \/ \E step \in {"release", "record", "ensure", "reject"} : Doing(a, step)
        \/ a = Loop /\ (op[Loop] = Resting \/ (Doing(Loop, "drain") /\ op[Loop].list = {}))
  \/ mutation = b /\ \E step \in {"persist", "clear", "check"} : Doing(a, step)

\* Whoever is waited for goes on at once, or waits for somebody who does: the two
\* locks can stop the operations for good in one way only, a command recording
\* what an ambiguous clear left owed while a credential is being checked.
THEOREM ShortWaits ==
  Spec => [](\A a, b, c, d \in Actors : Waits(a, b) /\ Waits(b, c) /\ Waits(c, d) => Wedged)
<1>1. ASSUME IInv, NEW a \in Actors, NEW b \in Actors, NEW c \in Actors, NEW d \in Actors,
             Waits(a, b), Waits(b, c), Waits(c, d)
      PROVE  Wedged
  <2>1. ASSUME NEW x \in Actors, credential = x
        PROVE  \E step \in {"forget", "check", "obtain"} : Doing(x, step)
    BY <1>1, <2>1 DEF IInv, Base, HolderOK
  <2>2. ASSUME NEW x \in Actors, mutation = x
        PROVE  \E step \in {"save", "unkey", "record"} : Doing(x, step)
    BY <1>1, <2>2 DEF IInv, Base, HolderOK
  <2>3. ASSUME NEW x \in Actors, NEW y \in Actors, credential = x, Waits(x, y)
        PROVE  Doing(x, "check") /\ mutation = y
    <3>1. PICK step \in {"forget", "check", "obtain"} : Doing(x, step)
      BY <2>1, <2>3
    <3>2. op[x] # Resting
      BY <3>1, RestingOK DEF Doing
    <3> QED
      BY <2>3, <3>1, <3>2 DEF Waits, Doing
  <2>4. ASSUME NEW x \in Actors, NEW y \in Actors, mutation = x, Waits(x, y)
        PROVE  Doing(x, "record") /\ credential = y
    <3>1. PICK step \in {"save", "unkey", "record"} : Doing(x, step)
      BY <2>2, <2>4
    <3>2. op[x] # Resting
      BY <3>1, RestingOK DEF Doing
    <3> QED
      BY <2>4, <3>1, <3>2 DEF Waits, Doing
  <2>5. credential = b \/ mutation = b
    BY <1>1 DEF Waits
  <2>6. CASE credential = b
    BY <1>1, <2>3, <2>4, <2>6 DEF Wedged
  <2>7. CASE mutation = b
    BY <1>1, <2>3, <2>4, <2>7 DEF Wedged
  <2> QED
    BY <2>5, <2>6, <2>7
<1>2. IInv => \A a, b, c, d \in Actors : Waits(a, b) /\ Waits(b, c) /\ Waits(c, d) => Wedged
  BY <1>1
<1> QED
  BY <1>2, Invariance, PTL
=============================================================================
