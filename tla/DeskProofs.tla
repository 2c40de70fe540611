------------------------------ MODULE DeskProofs ------------------------------
(***************************************************************************)
(* Proofs about the components of Desk, each while it is the part that     *)
(* runs: for any people, rows and concurrent handlers.                     *)
(***************************************************************************)
EXTENDS Desk, FiniteSetTheorems, WellFoundedInduction, TLAPS

-----------------------------------------------------------------------------
(* Nudges *)

Nudge == [by : Readers, of : Things, at : Nat]
NudgeInHand(t) == t.by \in Readers /\ t.of \in Things /\ t.at \in Nat /\ t.after \in Nat

NudgesShape ==
    /\ clock \in Nat
    /\ nudges \in Seq(Nudge)
    /\ DOMAIN work = Workers
    /\ \A w \in Workers : work[w] # Nudges!Idle => NudgeInHand(work[w])

\* What a handler has in hand keeps its distance from every nudge there was when it looked.
InHandSpaced ==
    \A w \in Workers : work[w] # Nudges!Idle =>
        /\ work[w].after <= Len(nudges)
        /\ \A i \in 1..work[w].after :
              (nudges[i].by = work[w].by /\ nudges[i].of = work[w].of)
                  => work[w].at - nudges[i].at >= 2

NudgesInv == NudgesShape /\ InHandSpaced /\ Nudges!NudgesAreSpaced

LEMMA NudgesInit ==
    ASSUME Nudges!Init
    PROVE  NudgesInv
<1>1. NudgesShape
  BY DEF Nudges!Init, NudgesShape
<1>2. InHandSpaced
  BY DEF Nudges!Init, InHandSpaced
<1>3. Nudges!NudgesAreSpaced
  BY DEF Nudges!Init, Nudges!NudgesAreSpaced
<1> QED BY <1>1, <1>2, <1>3 DEF NudgesInv

\* A handler that looks finds no nudge less than a day old.
LEMMA NudgesLoad ==
    ASSUME NudgesInv, NEW w \in Workers, NEW p \in Readers, NEW x \in Things,
           Nudges!SendLoad(w, p, x)
    PROVE  NudgesInv'
<1>1. PICK to :
          /\ work' = [work EXCEPT ![w] = [op |-> "nudge", by |-> p, of |-> x, at |-> clock,
                                          to |-> to, after |-> Len(nudges)]]
          /\ nudges' = nudges /\ clock' = clock /\ crossed' = crossed
  BY DEF Nudges!SendLoad
<1>2. \A i \in DOMAIN nudges :
          nudges[i].by = p /\ nudges[i].of = x => clock - nudges[i].at >= 2
  BY DEF Nudges!SendLoad, Nudges!MayNudgeNow, Nudges!Past, Nudges!CooledDown, Nudges!COOLDOWN
<1>3. NudgesShape'
  BY <1>1 DEF NudgesInv, NudgesShape, NudgeInHand
<1>4. InHandSpaced'
  <2> SUFFICES ASSUME NEW v \in Workers, work'[v] # Nudges!Idle
               PROVE  /\ work'[v].after <= Len(nudges)
                      /\ \A i \in 1..work'[v].after :
                           (nudges[i].by = work'[v].by /\ nudges[i].of = work'[v].of)
                              => work'[v].at - nudges[i].at >= 2
    BY <1>1 DEF InHandSpaced, Nudges!Idle
  <2>1. CASE v = w
    BY <1>1, <1>2, <2>1 DEF NudgesInv, NudgesShape
  <2>2. CASE v # w
    BY <1>1, <2>2 DEF NudgesInv, NudgesShape, InHandSpaced
  <2> QED BY <2>1, <2>2
<1>5. Nudges!NudgesAreSpaced'
  BY <1>1 DEF NudgesInv, Nudges!NudgesAreSpaced
<1> QED BY <1>3, <1>4, <1>5 DEF NudgesInv

\* What it keeps is spaced from what it saw; what it did not see, it crossed.
LEMMA NudgesCommit ==
    ASSUME NudgesInv, NEW w \in Workers, Nudges!SendCommit(w)
    PROVE  NudgesInv'
<1> DEFINE t == work[w]
           row == [by |-> t.by, of |-> t.of, at |-> t.at]
<1>1. /\ t # Nudges!Idle
      /\ nudges' = Append(nudges, row)
      /\ work' = [work EXCEPT ![w] = Nudges!Idle]
      /\ clock' = clock
  BY DEF Nudges!SendCommit
<1>2. /\ crossed \subseteq crossed'
      /\ (\E i \in DOMAIN nudges :
            i > t.after /\ nudges[i].by = t.by /\ nudges[i].of = t.of)
           => <<t.by, t.of>> \in crossed'
  BY DEF Nudges!SendCommit
<1>3. NudgeInHand(t) /\ row \in Nudge
  BY <1>1 DEF NudgesInv, NudgesShape, NudgeInHand, Nudge
<1>4. /\ nudges \in Seq(Nudge)
      /\ nudges' \in Seq(Nudge)
      /\ Len(nudges') = Len(nudges) + 1
      /\ \A i \in 1..Len(nudges) : nudges'[i] = nudges[i]
      /\ nudges'[Len(nudges) + 1] = row
      /\ DOMAIN nudges = 1..Len(nudges) /\ DOMAIN nudges' = 1..Len(nudges')
      /\ Len(nudges) \in Nat
  <2>1. nudges \in Seq(Nudge)
    BY DEF NudgesInv, NudgesShape
  <2> HIDE DEF row
  <2> QED BY <2>1, <1>1, <1>3
<1> HIDE DEF t
<1>5. NudgesShape'
  BY <1>1, <1>4 DEF NudgesInv, NudgesShape
<1>6. InHandSpaced'
  <2> SUFFICES ASSUME NEW v \in Workers, work'[v] # Nudges!Idle
               PROVE  /\ work'[v].after <= Len(nudges')
                      /\ \A i \in 1..work'[v].after :
                           (nudges'[i].by = work'[v].by /\ nudges'[i].of = work'[v].of)
                              => work'[v].at - nudges'[i].at >= 2
    BY DEF InHandSpaced, Nudges!Idle
  <2>1. v # w /\ work'[v] = work[v]
    BY <1>1 DEF NudgesInv, NudgesShape
  <2>2. NudgeInHand(work[v])
    BY <2>1 DEF NudgesInv, NudgesShape
  <2>3. work[v].after \in Nat /\ work[v].after <= Len(nudges)
    BY <2>1, <2>2 DEF NudgesInv, InHandSpaced, NudgeInHand
  <2>4. \A i \in 1..work[v].after : nudges'[i] = nudges[i]
    BY <1>4, <2>3
  <2>5. work[v].after <= Len(nudges')
    BY <1>4, <2>3
  <2>6. \A i \in 1..work[v].after :
            (nudges[i].by = work[v].by /\ nudges[i].of = work[v].of)
               => work[v].at - nudges[i].at >= 2
    BY <2>1 DEF NudgesInv, InHandSpaced
  <2> QED BY <2>1, <2>4, <2>5, <2>6
<1>7. Nudges!NudgesAreSpaced'
  <2> SUFFICES ASSUME NEW i \in 1..Len(nudges'), NEW j \in 1..Len(nudges'),
                      i < j, nudges'[i].by = nudges'[j].by, nudges'[i].of = nudges'[j].of,
                      <<nudges'[i].by, nudges'[i].of>> \notin crossed'
               PROVE  nudges'[j].at - nudges'[i].at >= 2
    BY <1>4 DEF Nudges!NudgesAreSpaced, Nudges!COOLDOWN
  <2>0. i \in 1..Len(nudges) /\ nudges'[i] = nudges[i]
    BY <1>4
  <2>1. CASE j \in 1..Len(nudges)
    BY <1>2, <1>4, <2>0, <2>1 DEF NudgesInv, Nudges!NudgesAreSpaced, Nudges!COOLDOWN
  <2>2. CASE j = Len(nudges) + 1
    <3>1. nudges'[j] = row
      BY <1>4, <2>2
    <3>2. nudges[i].by = t.by /\ nudges[i].of = t.of /\ nudges'[j].at = t.at
      BY <3>1, <2>0
    <3>3. ~(i > t.after)
      BY <1>2, <1>4, <2>0, <3>2
    <3>4. i \in 1..t.after
      BY <3>3, <1>3, <2>0 DEF NudgeInHand
    <3> QED BY <1>1, <3>2, <3>4, <2>0 DEF NudgesInv, InHandSpaced, t
  <2> QED BY <1>4, <2>1, <2>2
<1> QED BY <1>5, <1>6, <1>7 DEF NudgesInv

LEMMA NudgesNext ==
    ASSUME NudgesInv, [Nudges!Next]_<<users, Nudges!nudgeVars>>
    PROVE  NudgesInv'
<1>1. CASE \E w \in Workers : Nudges!Rollback(w)
  BY <1>1 DEF Nudges!Rollback, NudgesInv, NudgesShape, InHandSpaced, Nudges!NudgesAreSpaced
<1>2. CASE UNCHANGED <<nudges, work, crossed>> /\ clock' \in Nat
  BY <1>2 DEF NudgesInv, NudgesShape, InHandSpaced, Nudges!NudgesAreSpaced
<1>3. CASE Nudges!HalfDay
  BY <1>2, <1>3 DEF Nudges!HalfDay, NudgesInv, NudgesShape
<1>4. CASE \E x \in Things : Nudges!Turns(x)
  BY <1>2, <1>4 DEF Nudges!Turns, NudgesInv, NudgesShape
<1>5. CASE \E p \in Readers : Nudges!Activity(p)
  BY <1>2, <1>5 DEF Nudges!Activity, NudgesInv, NudgesShape
<1>6. CASE UNCHANGED <<users, Nudges!nudgeVars>>
  BY <1>2, <1>6 DEF Nudges!nudgeVars, NudgesInv, NudgesShape
<1> QED BY <1>1, <1>3, <1>4, <1>5, <1>6, NudgesLoad, NudgesCommit DEF Nudges!Next

\* On the desk, while it is the part that runs.
LEMMA NudgesRuns ==
    /\ Init /\ part = "nudges" => Nudges!UsersTypeOK /\ Nudges!Init
    /\ [Next]_vars /\ part = "nudges" => part' = "nudges" /\ [Nudges!Next]_<<users, Nudges!nudgeVars>>
<1>1. Init /\ part = "nudges" => Nudges!UsersTypeOK /\ Nudges!Init
  BY DEF Init
<1>2. ASSUME Next, part = "nudges" PROVE part' = "nudges" /\ Nudges!Next
  BY <1>2 DEF Next
<1>3. ASSUME UNCHANGED vars, part = "nudges"
      PROVE  part' = "nudges" /\ UNCHANGED <<users, Nudges!nudgeVars>>
  BY <1>3 DEF vars, nudgeOwn, Nudges!nudgeVars
<1> QED BY <1>1, <1>2, <1>3

LEMMA NudgesHold == Spec => [](part = "nudges" => NudgesInv)
<1>1. Init => (part = "nudges" => NudgesInv)
  BY NudgesRuns, NudgesInit
<1>2. (part = "nudges" => NudgesInv) /\ [Next]_vars => (part = "nudges" => NudgesInv)'
  <2> SUFFICES ASSUME part = "nudges" => NudgesInv, [Next]_vars, part' = "nudges"
               PROVE  NudgesInv'
    OBVIOUS
  <2>1. part = "nudges"
    BY DEF Next, vars
  <2> QED BY <2>1, NudgesRuns, NudgesNext
<1> QED BY <1>1, <1>2, PTL DEF Spec

\* Two nudges by one person about one thing are a whole day apart, unless the two were on
\* their way together (nudges/service.py: the last nudge is read without a lock).
THEOREM NudgesKeepTheirDistance == Spec => []NudgesAreSpaced
<1>1. (part = "nudges" => NudgesInv) => NudgesAreSpaced
  BY DEF NudgesInv, NudgesAreSpaced
<1> QED BY <1>1, NudgesHold, PTL

-----------------------------------------------------------------------------
(* Sessions *)

\* A family that nobody raced over began with the token it is named by.
Rooted(f) == f \in crossed \/ (f \in Sessions!Stored /\ token[f].family = f)

SessionsShape ==
    /\ NoRow \notin Sessions!TokenRow
    /\ token \in [Tokens -> Sessions!TokenRow \cup {NoRow}]
    /\ work \in [Workers -> Sessions!Work]

AllRooted ==
    /\ \A t \in Sessions!Stored : Rooted(token[t].family)
    /\ \A f \in ended : Rooted(f)
    /\ \A w \in Workers : work[w].op = "replay" => Rooted(work[w].family)

OneIsLive ==
    \A f \in Tokens \ crossed : \A s, t \in Sessions!Family(f) \cap Sessions!Live : s = t

NoneIsLive == \A f \in ended \ crossed : Sessions!Family(f) \cap Sessions!Live = {}

SessionsInv ==
    SessionsShape /\ AllRooted /\ OneIsLive /\ NoneIsLive /\ Sessions!HandedMeansWalled

LEMMA SessionWorkShape ==
    ASSUME SessionsShape, NEW w \in Workers
    PROVE  /\ work[w].op = "login" => work[w].by \in Callers
           /\ work[w].op \in {"rotate", "logout"} => work[w].of \in Tokens
           /\ work[w].op = "replay" => work[w].family \in Tokens
           /\ work[w].op \in {"change", "reset", "deactivate"} => work[w].owed \in BOOLEAN
BY DEF SessionsShape, Sessions!Work, Sessions!Idle

LEMMA SessionsInit ==
    ASSUME NoRow \notin Sessions!TokenRow, Sessions!Init
    PROVE  SessionsInv
<1>1. SessionsShape
  BY DEF Sessions!Init, SessionsShape, Sessions!Work, Sessions!Idle
<1>2. Sessions!Stored = {} /\ ended = {} /\ handed = owes
  BY DEF Sessions!Init, Sessions!Stored
<1>3. \A w \in Workers : work[w].op # "replay"
  BY DEF Sessions!Init, Sessions!Idle
<1> QED BY <1>1, <1>2, <1>3
    DEF SessionsInv, AllRooted, OneIsLive, NoneIsLive, Sessions!HandedMeansWalled,
        Sessions!Family, Sessions!Live

\* Revoking keeps every row and its family, and takes exactly S from what is live.
LEMMA RevokedFacts ==
    ASSUME SessionsShape, NEW S, token' = Sessions!Revoked(S)
    PROVE  /\ token' \in [Tokens -> Sessions!TokenRow \cup {NoRow}]
           /\ Sessions!Stored' = Sessions!Stored
           /\ \A t \in Sessions!Stored : token'[t].family = token[t].family
           /\ Sessions!Live' = Sessions!Live \ S
           /\ \A f : Sessions!Family(f)' = Sessions!Family(f)
<1>1. \A t \in Tokens : token'[t] = IF t \in S \cap Sessions!Stored
                                    THEN [token[t] EXCEPT !.revoked = TRUE] ELSE token[t]
  BY DEF Sessions!Revoked
<1>2. \A t \in Sessions!Stored : token[t] \in Sessions!TokenRow
  BY DEF SessionsShape, Sessions!Stored
<1>3. \A t \in Sessions!Stored : [token[t] EXCEPT !.revoked = TRUE] \in Sessions!TokenRow
  BY <1>2 DEF Sessions!TokenRow
<1>4. token' \in [Tokens -> Sessions!TokenRow \cup {NoRow}]
  BY <1>3 DEF SessionsShape, Sessions!Revoked
<1>5. \A t \in Tokens : (token'[t] # NoRow) <=> (token[t] # NoRow)
  BY <1>1, <1>2, <1>3 DEF SessionsShape, Sessions!Stored
<1>6. Sessions!Stored' = Sessions!Stored
  BY <1>5 DEF Sessions!Stored
<1>7. \A t \in Sessions!Stored :
          /\ token'[t].family = token[t].family
          /\ token'[t].revoked = IF t \in S THEN TRUE ELSE token[t].revoked
  BY <1>1, <1>2 DEF Sessions!TokenRow, Sessions!Stored
<1>8. Sessions!Live' = Sessions!Live \ S
  BY <1>6, <1>7 DEF Sessions!Live
<1>9. \A f : Sessions!Family(f)' = Sessions!Family(f)
  BY <1>6, <1>7 DEF Sessions!Family
<1> QED BY <1>4, <1>6, <1>7, <1>8, <1>9

\* A handler that only revokes keeps the invariant, if whatever it calls ended is dead.
LEMMA RevokingKeeps ==
    ASSUME SessionsInv, NEW S, token' = Sessions!Revoked(S),
           NEW w \in Workers, work' = [work EXCEPT ![w] = Sessions!Idle],
           crossed \subseteq crossed',
           \A f \in ended' \ ended : Rooted(f),
           \A f \in ended' \ (ended \cup crossed') :
              Sessions!Family(f) \cap Sessions!Live \subseteq S,
           Sessions!HandedMeansWalled'
    PROVE  SessionsInv'
<1> USE DEF SessionsInv
<1>1. /\ token' \in [Tokens -> Sessions!TokenRow \cup {NoRow}]
      /\ Sessions!Stored' = Sessions!Stored
      /\ \A t \in Sessions!Stored : token'[t].family = token[t].family
      /\ Sessions!Live' = Sessions!Live \ S
      /\ \A f : Sessions!Family(f)' = Sessions!Family(f)
  BY RevokedFacts
<1>2. SessionsShape'
  BY <1>1 DEF SessionsShape, Sessions!Work
<1>3. \A f : Rooted(f) => Rooted(f)'
  BY <1>1 DEF Rooted
<1>4. AllRooted'
  <2>1. \A v \in Workers : work'[v].op = "replay" =>
            work[v].op = "replay" /\ work'[v].family = work[v].family
    BY DEF SessionsShape, Sessions!Idle
  <2> QED BY <1>1, <1>3, <2>1 DEF AllRooted
<1>5. OneIsLive'
  BY <1>1 DEF OneIsLive
<1>6. NoneIsLive'
  BY <1>1 DEF NoneIsLive
<1> QED BY <1>2, <1>4, <1>5, <1>6

\* The key that is drawn is no one's.
LEMMA FreshIsFree ==
    ASSUME Sessions!Stored # Tokens
    PROVE  Sessions!Fresh \in Tokens \ Sessions!Stored
BY DEF Sessions!Fresh, Sessions!Stored

LEMMA LoginKeeps ==
    ASSUME SessionsInv, NEW w \in Workers, Sessions!LoginCommit(w)
    PROVE  SessionsInv'
<1> USE DEF SessionsInv
<1>0. [of |-> work[w].by, family |-> Sessions!Fresh, revoked |-> FALSE] \in Sessions!TokenRow
  BY FreshIsFree, SessionWorkShape DEF Sessions!LoginCommit, Sessions!TokenRow
<1>1. PICK k \in Tokens \ Sessions!Stored, row \in Sessions!TokenRow :
          /\ row.family = k /\ ~row.revoked
          /\ token' = [token EXCEPT ![k] = row]
          /\ work' = [work EXCEPT ![w] = Sessions!Idle]
          /\ crossed' = crossed /\ handed' = handed /\ owes' = owes /\ ended' = ended
  BY <1>0, FreshIsFree DEF Sessions!LoginCommit, Sessions!End
<1>3. row # NoRow
  BY DEF SessionsShape
<1>4. /\ Sessions!Stored' = Sessions!Stored \cup {k}
      /\ \A t \in Sessions!Stored : t # k /\ token'[t] = token[t]
      /\ token'[k] = row
  BY <1>1, <1>3 DEF SessionsShape, Sessions!Stored
<1>5. SessionsShape'
  BY <1>1 DEF SessionsShape, Sessions!Work
<1>6. \A f : Rooted(f) => Rooted(f)'
  BY <1>1, <1>4 DEF Rooted
<1>7. Rooted(k)'
  BY <1>1, <1>4 DEF Rooted
<1>8. AllRooted'
  <2>1. \A v \in Workers : work'[v].op = "replay" =>
            work[v].op = "replay" /\ work'[v].family = work[v].family
    BY <1>1 DEF SessionsShape, Sessions!Idle
  <2> QED BY <1>1, <1>3, <1>4, <1>6, <1>7, <2>1 DEF AllRooted
<1>9. \A f \in Tokens \ crossed : f # k =>
          Sessions!Family(f)' \cap Sessions!Live' = Sessions!Family(f) \cap Sessions!Live
  BY <1>1, <1>4 DEF Sessions!Family, Sessions!Live
<1>10. k \in Tokens \ crossed =>
          Sessions!Family(k)' \cap Sessions!Live' = {k} /\ k \notin ended
  BY <1>1, <1>3, <1>4 DEF Sessions!Family, Sessions!Live, AllRooted, Rooted
<1>11. OneIsLive'
  BY <1>1, <1>9, <1>10 DEF OneIsLive
<1>12. NoneIsLive'
  <2>1. \A f \in ended \ crossed : f \in Tokens
    BY DEF AllRooted, Rooted, Sessions!Stored
  <2> QED BY <2>1, <1>1, <1>9, <1>10 DEF NoneIsLive
<1>13. Sessions!HandedMeansWalled'
  BY <1>1 DEF Sessions!HandedMeansWalled
<1> QED BY <1>5, <1>8, <1>11, <1>12, <1>13

\* An exchange leaves the family its new token alone, or it is crossed.
LEMMA RotateKeeps ==
    ASSUME SessionsInv, NEW w \in Workers, Sessions!RotateCommit(w)
    PROVE  SessionsInv'
<1> USE DEF SessionsInv
<1>1. PICK t \in Sessions!Stored, k \in Tokens \ Sessions!Stored,
           row \in Sessions!TokenRow, old \in Sessions!TokenRow, f \in Tokens :
          /\ token[t].family = f
          /\ row.family = f /\ ~row.revoked
          /\ old.family = f /\ old.revoked
          /\ token' = [token EXCEPT ![t] = old, ![k] = row]
          /\ work' = [work EXCEPT ![w] = Sessions!Idle]
          /\ crossed' = IF t \in Sessions!Live THEN crossed
                        ELSE crossed \cup {f}
          /\ handed' = handed /\ owes' = owes /\ ended' = ended
  <2> DEFINE t == work[w].of
             row == [of |-> token[t].of, family |-> token[t].family, revoked |-> FALSE]
             old == [token[t] EXCEPT !.revoked = TRUE]
  <2>1. t \in Sessions!Stored /\ Sessions!Fresh \in Tokens \ Sessions!Stored
    BY FreshIsFree DEF Sessions!RotateCommit
  <2>2. token[t] \in Sessions!TokenRow
    BY <2>1 DEF SessionsShape, Sessions!Stored
  <2>3. /\ token[t].family \in Tokens
        /\ row \in Sessions!TokenRow /\ row.family = token[t].family /\ ~row.revoked
        /\ old \in Sessions!TokenRow /\ old.family = token[t].family /\ old.revoked
    BY <2>2 DEF Sessions!TokenRow
  <2>4. token' = [token EXCEPT ![t] = old, ![Sessions!Fresh] = row]
    BY <2>1 DEF Sessions!RotateCommit, Sessions!Exchanged
  <2>5. /\ work' = [work EXCEPT ![w] = Sessions!Idle]
        /\ crossed' = IF t \in Sessions!Live THEN crossed ELSE crossed \cup {token[t].family}
        /\ handed' = handed /\ owes' = owes /\ ended' = ended
    BY DEF Sessions!RotateCommit, Sessions!End
  <2> HIDE DEF t, row, old
  <2> QED BY <2>1, <2>3, <2>4, <2>5
<1>3. row # NoRow /\ old # NoRow
  BY DEF SessionsShape
<1>4. /\ t \in Tokens /\ t # k
      /\ Sessions!Stored' = Sessions!Stored \cup {k}
      /\ \A s \in Sessions!Stored \ {t} : s # k /\ token'[s] = token[s]
      /\ token'[k] = row /\ token'[t] = old
  BY <1>1, <1>3 DEF SessionsShape, Sessions!Stored
<1>5. \A s \in Sessions!Stored : s # k /\ token'[s].family = token[s].family
  BY <1>1, <1>4
<1>6. Sessions!Live' = (Sessions!Live \ {t}) \cup {k}
  BY <1>1, <1>4 DEF Sessions!Live
<1>7. SessionsShape'
  BY <1>1 DEF SessionsShape, Sessions!Work
<1>8. \A g : Rooted(g) => Rooted(g)'
  BY <1>1, <1>4, <1>5 DEF Rooted
<1>9. AllRooted'
  <2>1. \A v \in Workers : work'[v].op = "replay" =>
            work[v].op = "replay" /\ work'[v].family = work[v].family
    BY <1>1 DEF SessionsShape, Sessions!Idle
  <2>2. \A g : (g \in ended \/ \E s \in Sessions!Stored' : token'[s].family = g) => Rooted(g)
    <3>1. Rooted(f)
      BY <1>1 DEF AllRooted
    <3>2. \A s \in Sessions!Stored : Rooted(token[s].family)
      BY DEF AllRooted
    <3>3. token'[k].family = f /\ Sessions!Stored' = Sessions!Stored \cup {k}
      BY <1>1, <1>4
    <3>4. \A g \in ended : Rooted(g)
      BY DEF AllRooted
    <3> QED BY <1>5, <3>1, <3>2, <3>3, <3>4
  <2> QED BY <1>1, <1>8, <2>1, <2>2 DEF AllRooted
<1>10. \A g \in Tokens : g # f =>
          Sessions!Family(g)' \cap Sessions!Live' = Sessions!Family(g) \cap Sessions!Live
  BY <1>1, <1>4, <1>5, <1>6 DEF Sessions!Family
<1>11. f \notin crossed' =>
          /\ Sessions!Family(f) \cap Sessions!Live = {t}
          /\ Sessions!Family(f)' \cap Sessions!Live' = {k}
  <2> SUFFICES ASSUME f \notin crossed'
               PROVE  /\ Sessions!Family(f) \cap Sessions!Live = {t}
                      /\ Sessions!Family(f)' \cap Sessions!Live' = {k}
    OBVIOUS
  <2>1. t \in Sessions!Live /\ f \notin crossed
    BY <1>1
  <2>2. Sessions!Family(f) \cap Sessions!Live = {t}
    BY <2>1, <1>1 DEF OneIsLive, Sessions!Family
  <2>3. Sessions!Family(f)' \cap Sessions!Live' = {k}
    BY <2>2, <1>1, <1>4, <1>5, <1>6 DEF Sessions!Family
  <2> QED BY <2>2, <2>3
<1>12. OneIsLive'
  BY <1>1, <1>10, <1>11 DEF OneIsLive
<1>13. NoneIsLive'
  <2>1. \A g \in ended \ crossed : g \in Tokens
    BY DEF AllRooted, Rooted, Sessions!Stored
  <2> QED BY <2>1, <1>1, <1>10, <1>11 DEF NoneIsLive
<1>14. Sessions!HandedMeansWalled'
  BY <1>1 DEF Sessions!HandedMeansWalled
<1> QED BY <1>7, <1>9, <1>12, <1>13, <1>14

LEMMA ReplayKeeps ==
    ASSUME SessionsInv, NEW w \in Workers, Sessions!ReplayCommit(w)
    PROVE  SessionsInv'
<1> USE DEF SessionsInv
<1>1. PICK S, f :
          /\ Rooted(f)
          /\ token' = Sessions!Revoked(S)
          /\ work' = [work EXCEPT ![w] = Sessions!Idle]
          /\ ended' = ended \cup ({f} \cap Sessions!Stored)
          /\ crossed' = crossed \cup
                {g \in {f} : ~(Sessions!Family(g) \cap Sessions!Live \subseteq S)}
          /\ handed' = handed /\ owes' = owes
  BY DEF Sessions!ReplayCommit, Sessions!End, AllRooted
<1>2. \A g \in ended' \ ended : g = f /\ Rooted(g)
  BY <1>1
<1>3. \A g \in ended' \ (ended \cup crossed') :
          Sessions!Family(g) \cap Sessions!Live \subseteq S
  BY <1>1
<1>4. Sessions!HandedMeansWalled'
  BY <1>1 DEF Sessions!HandedMeansWalled
<1> QED BY <1>1, <1>2, <1>3, <1>4, RevokingKeeps

\* A token that was still live was the only one of its family.
LEMMA LogoutKeeps ==
    ASSUME SessionsInv, NEW w \in Workers, Sessions!LogoutCommit(w)
    PROVE  SessionsInv'
<1> USE DEF SessionsInv
<1>1. PICK t \in Sessions!Stored, f \in Tokens :
          /\ token[t].family = f
          /\ token' = [token EXCEPT ![t].revoked = TRUE]
          /\ work' = [work EXCEPT ![w] = Sessions!Idle]
          /\ ended' = ended \cup {f}
          /\ crossed' = IF t \in Sessions!Live THEN crossed ELSE crossed \cup {f}
          /\ handed' = handed /\ owes' = owes
  <2>1. \A t \in Sessions!Stored : token[t].family \in Tokens
    BY DEF SessionsShape, Sessions!Stored, Sessions!TokenRow
  <2> QED BY <2>1 DEF Sessions!LogoutCommit, Sessions!End
<1>2. token' = Sessions!Revoked({t})
  BY <1>1 DEF Sessions!Revoked, SessionsShape, Sessions!Stored
<1>3. Rooted(f)
  BY <1>1 DEF AllRooted
<1>4. f \notin crossed' => Sessions!Family(f) \cap Sessions!Live \subseteq {t}
  BY <1>1 DEF OneIsLive, Sessions!Family
<1>5. Sessions!HandedMeansWalled'
  BY <1>1 DEF Sessions!HandedMeansWalled
<1>6. \A g \in ended' \ ended : Rooted(g)
  BY <1>1, <1>3
<1>7. \A g \in ended' \ (ended \cup crossed') :
          Sessions!Family(g) \cap Sessions!Live \subseteq {t}
  BY <1>1, <1>4
<1>8. crossed \subseteq crossed'
  BY <1>1
<1> QED BY <1>1, <1>2, <1>5, <1>6, <1>7, <1>8, RevokingKeeps

\* Who changes or resets a password, or closes an account, ends every session they saw; and
\* the wall is where they left it, unless somebody moved it in the meantime.
LEMMA SignOutKeeps ==
    ASSUME SessionsInv, NEW w \in Workers, Sessions!SignOutCommit(w)
    PROVE  SessionsInv'
<1> USE DEF SessionsInv
<1>1. PICK S, F :
          /\ F = Sessions!FamiliesOf(work[w].by)
          /\ token' = Sessions!Revoked(S)
          /\ work' = [work EXCEPT ![w] = Sessions!Idle]
          /\ ended' = ended \cup F
          /\ crossed \subseteq crossed'
          /\ \A f \in F \ crossed' : Sessions!Family(f) \cap Sessions!Live \subseteq S
  BY DEF Sessions!SignOutCommit, Sessions!End
<1>2. \A f \in F : Rooted(f)
  BY <1>1 DEF AllRooted, Sessions!FamiliesOf
<1>3. Sessions!HandedMeansWalled'
  <2> DEFINE t == work[w]
  <2>1. t.owed \in BOOLEAN
    BY SessionWorkShape DEF Sessions!SignOutCommit
  <2>2. t.owed # (t.by \in owes) => t.by \in crossed'
    BY DEF Sessions!SignOutCommit
  <2>3. CASE t.op = "deactivate"
    BY <1>1, <2>3 DEF Sessions!SignOutCommit, Sessions!HandedMeansWalled
  <2>4. CASE t.op # "deactivate"
    <3>1. /\ handed' = IF t.op = "reset" THEN handed \cup {t.by} ELSE handed \ {t.by}
          /\ owes' = Sessions!Owing(t, t.op = "reset")
      BY <2>4 DEF Sessions!SignOutCommit
    <3> HIDE DEF t
    <3> QED BY <1>1, <2>1, <2>2, <3>1 DEF Sessions!HandedMeansWalled, Sessions!Owing
  <2> QED BY <2>3, <2>4
<1>4. \A g \in ended' \ ended : Rooted(g)
  BY <1>1, <1>2
<1>5. \A g \in ended' \ (ended \cup crossed') :
          Sessions!Family(g) \cap Sessions!Live \subseteq S
  BY <1>1
<1> QED BY <1>1, <1>3, <1>4, <1>5, RevokingKeeps

\* With an account go its tokens, and with them everything that was said of their families.
LEMMA DeletionKeeps ==
    ASSUME SessionsInv, NEW p \in Followed, Sessions!AccountDeleted(p)
    PROVE  SessionsInv'
<1> USE DEF SessionsInv
<1>0. PICK G : G = {t \in Sessions!Stored : token[t].of = p}
  OBVIOUS
<1>1. /\ G \subseteq Sessions!Stored
      /\ token' = [t \in Tokens |-> IF t \in G THEN NoRow ELSE token[t]]
      /\ crossed' = crossed \cup {token[t].family : t \in G}
      /\ handed' = handed \ {p} /\ owes' = owes \ {p}
      /\ ended' = ended /\ work' = work
  BY <1>0 DEF Sessions!AccountDeleted, Sessions!FamiliesOf
<1>2. /\ token' \in [Tokens -> Sessions!TokenRow \cup {NoRow}]
      /\ \A t \in Tokens : token'[t] = IF t \in G THEN NoRow ELSE token[t]
  BY <1>1 DEF SessionsShape
<1>3. /\ Sessions!Stored' = Sessions!Stored \ G
      /\ \A t \in Sessions!Stored' : token'[t] = token[t]
  BY <1>1, <1>2 DEF Sessions!Stored
<1>4. SessionsShape'
  BY <1>1, <1>2 DEF SessionsShape, Sessions!Work
<1>5. \A f : Rooted(f) => Rooted(f)'
  <2> SUFFICES ASSUME NEW f, f \in Sessions!Stored, token[f].family = f
               PROVE  f \in crossed' \/ (f \in Sessions!Stored' /\ token'[f].family = f)
    BY <1>1 DEF Rooted
  <2> QED BY <1>1, <1>3
<1>6. AllRooted'
  <2>1. \A g : (\/ g \in ended
                \/ \E s \in Sessions!Stored' : token'[s].family = g
                \/ \E v \in Workers : work[v].op = "replay" /\ work[v].family = g) => Rooted(g)
    BY <1>3 DEF AllRooted
  <2> QED BY <1>1, <1>5, <2>1 DEF AllRooted
<1>7. \A f : /\ Sessions!Family(f)' \subseteq Sessions!Family(f)
             /\ Sessions!Live' \subseteq Sessions!Live
  BY <1>3 DEF Sessions!Family, Sessions!Live
<1>8. OneIsLive'
  BY <1>1, <1>7 DEF OneIsLive
<1>9. NoneIsLive'
  BY <1>1, <1>7 DEF NoneIsLive
<1>10. Sessions!HandedMeansWalled'
  BY <1>1 DEF Sessions!HandedMeansWalled
<1> QED BY <1>4, <1>6, <1>8, <1>9, <1>10

\* Reading, giving up and letting somebody in again touch no row.
LEMMA LookingKeeps ==
    ASSUME SessionsInv, UNCHANGED <<token, handed, owes, ended, crossed>>,
           work' \in [Workers -> Sessions!Work],
           \A w \in Workers : work'[w].op = "replay" => Rooted(work'[w].family)
    PROVE  SessionsInv'
<1> USE DEF SessionsInv
<1>1. SessionsShape'
  BY DEF SessionsShape
<1>2. Sessions!Stored' = Sessions!Stored /\ Sessions!Live' = Sessions!Live
  BY DEF Sessions!Stored, Sessions!Live
<1>3. \A f : Sessions!Family(f)' = Sessions!Family(f)
  BY DEF Sessions!Family, Sessions!Stored
<1>4. \A f : Rooted(f) => Rooted(f)'
  BY <1>2 DEF Rooted
<1>5. AllRooted'
  <2>1. \A g : (\/ g \in ended
                \/ \E s \in Sessions!Stored : token[s].family = g
                \/ \E v \in Workers : work'[v].op = "replay" /\ work'[v].family = g) => Rooted(g)
    BY DEF AllRooted
  <2> QED BY <1>2, <1>4, <2>1 DEF AllRooted
<1> QED BY <1>1, <1>2, <1>3, <1>5 DEF OneIsLive, NoneIsLive, Sessions!HandedMeansWalled

LEMMA SessionsNext ==
    ASSUME SessionsInv, [Sessions!Next]_<<users, Sessions!sessionVars>>
    PROVE  SessionsInv'
<1> USE DEF SessionsInv
<1> DEFINE Looking(t) ==
        \E w \in Workers : /\ work' = [work EXCEPT ![w] = t]
                           /\ UNCHANGED <<token, handed, owes, ended, crossed>>
<1>1. ASSUME NEW t \in Sessions!Work, Looking(t), t.op = "replay" => Rooted(t.family)
      PROVE  SessionsInv'
  BY <1>1, LookingKeeps DEF SessionsShape, AllRooted
<1>2. CASE \E w \in Workers, p \in Callers : Sessions!LoginLoad(w, p)
  <2>1. PICK p \in Callers : Looking([op |-> "login", by |-> p])
    BY <1>2 DEF Sessions!LoginLoad, Sessions!Begin, Sessions!RowsUnchanged
  <2>2. [op |-> "login", by |-> p] \in Sessions!Work
    BY DEF Sessions!Work
  <2> HIDE DEF Looking
  <2> QED BY <1>1, <2>1, <2>2
<1>3. CASE \E w \in Workers, op \in {"change", "reset", "deactivate"}, p \in Callers :
              Sessions!SignOutLoad(w, op, p)
  <2>1. PICK op \in {"change", "reset", "deactivate"}, p \in Callers :
            Looking([op |-> op, by |-> p, owed |-> p \in owes, seen |-> Sessions!LiveOf(p)])
    BY <1>3 DEF Sessions!SignOutLoad, Sessions!Begin, Sessions!RowsUnchanged
  <2>2. [op |-> op, by |-> p, owed |-> p \in owes, seen |-> Sessions!LiveOf(p)]
          \in Sessions!Work
    BY DEF Sessions!Work, Sessions!LiveOf, Sessions!Live, Sessions!Stored
  <2> HIDE DEF Looking
  <2> QED BY <1>1, <2>1, <2>2
<1>4. CASE \E w \in Workers, t \in Tokens :
              Sessions!RotateLoad(w, t) \/ Sessions!LogoutLoad(w, t)
  <2>1. PICK op \in {"rotate", "logout"}, t \in Tokens : Looking([op |-> op, of |-> t])
    BY <1>4 DEF Sessions!RotateLoad, Sessions!LogoutLoad, Sessions!Begin,
                Sessions!RowsUnchanged
  <2>2. [op |-> op, of |-> t] \in Sessions!Work
    BY DEF Sessions!Work
  <2> HIDE DEF Looking
  <2> QED BY <1>1, <2>1, <2>2
<1>5. CASE \E w \in Workers, t \in Tokens : Sessions!ReplayLoad(w, t)
  <2>1. PICK t \in Sessions!Stored, S \in SUBSET Tokens :
            Looking([op |-> "replay", family |-> token[t].family, seen |-> S])
    BY <1>5 DEF Sessions!ReplayLoad, Sessions!Begin, Sessions!RowsUnchanged,
                Sessions!Live, Sessions!Stored
  <2>2. token[t].family \in Tokens
    BY DEF SessionsShape, Sessions!Stored, Sessions!TokenRow
  <2>3. [op |-> "replay", family |-> token[t].family, seen |-> S] \in Sessions!Work
    BY <2>2 DEF Sessions!Work
  <2>4. Rooted(token[t].family)
    BY DEF AllRooted
  <2> HIDE DEF Looking
  <2> QED BY <1>1, <2>1, <2>3, <2>4
<1>6. CASE \E w \in Workers : Sessions!Rollback(w)
  <2>1. Looking(Sessions!Idle)
    BY <1>6 DEF Sessions!Rollback, Sessions!End, Sessions!RowsUnchanged
  <2>2. Sessions!Idle \in Sessions!Work /\ Sessions!Idle.op # "replay"
    BY DEF Sessions!Work, Sessions!Idle
  <2> HIDE DEF Looking
  <2> QED BY <1>1, <2>1, <2>2
<1>7. CASE UNCHANGED <<token, handed, owes, ended, crossed, work>>
  BY <1>7, LookingKeeps DEF SessionsShape, AllRooted
<1>8. CASE \E a, p \in Callers : Sessions!Activate(a, p)
  BY <1>7, <1>8 DEF Sessions!Activate
<1>9. CASE \E w \in Workers, p \in Callers :
              \/ Sessions!ChangePassword(w, p)
              \/ \E a \in Callers : \/ Sessions!ResetPassword(w, a, p)
                                    \/ Sessions!Deactivate(w, a, p)
  BY <1>3, <1>9 DEF Sessions!ChangePassword, Sessions!ResetPassword, Sessions!Deactivate
<1>10. CASE UNCHANGED <<users, Sessions!sessionVars>>
  BY <1>7, <1>10 DEF Sessions!sessionVars
<1> QED
  BY <1>2, <1>4, <1>5, <1>6, <1>8, <1>9, <1>10, LoginKeeps, RotateKeeps, ReplayKeeps,
     LogoutKeeps, SignOutKeeps, DeletionKeeps DEF Sessions!Next

\* On the desk, while it is the part that runs.
LEMMA SessionsRuns ==
    /\ Init /\ part = "sessions" => Sessions!UsersTypeOK /\ Sessions!Init
    /\ [Next]_vars /\ part = "sessions" => part' = "sessions" /\ [Sessions!Next]_<<users, Sessions!sessionVars>>
<1>1. Init /\ part = "sessions" => Sessions!UsersTypeOK /\ Sessions!Init
  BY DEF Init
<1>2. ASSUME Next, part = "sessions" PROVE part' = "sessions" /\ Sessions!Next
  BY <1>2 DEF Next
<1>3. ASSUME UNCHANGED vars, part = "sessions"
      PROVE  part' = "sessions" /\ UNCHANGED <<users, Sessions!sessionVars>>
  BY <1>3 DEF vars, sessionOwn, Sessions!sessionVars
<1> QED BY <1>1, <1>2, <1>3

LEMMA SessionsHold == Spec => [](part = "sessions" => SessionsInv)
<1>1. Init => (part = "sessions" => SessionsInv)
  BY SessionsRuns, SessionsInit, RowsAssumption
<1>2. (part = "sessions" => SessionsInv) /\ [Next]_vars => (part = "sessions" => SessionsInv)'
  <2> SUFFICES ASSUME part = "sessions" => SessionsInv, [Next]_vars, part' = "sessions"
               PROVE  SessionsInv'
    OBVIOUS
  <2>1. part = "sessions"
    BY DEF Next, vars
  <2> QED BY <2>1, SessionsRuns, SessionsNext, RowsAssumption
<1> QED BY <1>1, <1>2, PTL DEF Spec

\* A family has one live token at most, and none once it was ended; whoever has a password
\* that somebody else knows is behind the wall (auth/service.py): unless two handlers crossed.
THEOREM SessionsStayTheirOwners == Spec => []SessionsAreTheirOwners
<1>1. SessionsInv => Sessions!EndedStaysEnded
  BY DEF SessionsInv, OneIsLive, NoneIsLive, Sessions!EndedStaysEnded
<1>2. (part = "sessions" => SessionsInv) => SessionsAreTheirOwners
  BY <1>1 DEF SessionsInv, Sessions!SessionsAreTheirOwners, SessionsAreTheirOwners
<1> QED BY <1>2, SessionsHold, PTL

-----------------------------------------------------------------------------
(* Accounts *)

Changes(c) ==
    /\ DOMAIN c \subseteq {"role", "department", "active", "scope"}
    /\ "role" \in DOMAIN c => c["role"] \in Accounts!Roles
    /\ "department" \in DOMAIN c => c["department"] \in Departments \cup {NoRow}
    /\ "active" \in DOMAIN c => c["active"] \in BOOLEAN
    /\ "scope" \in DOMAIN c => c["scope"] \in Departments \cup {NoRow}

IsGuess(t) == "op" \in DOMAIN t /\ t.op = "guess"
IsDelete(t) ==
    /\ t = [op |-> "delete", of |-> t.of, stale |-> t.stale]
    /\ t.stale \in BOOLEAN
IsChange(t) ==
    /\ t.op \in {"change", "promote"}
    /\ t = [op |-> t.op, of |-> t.of, changes |-> t.changes, open |-> t.open, stale |-> t.stale]
    /\ t.of \in Officers /\ t.stale \in BOOLEAN /\ t.open \in BOOLEAN
    /\ Changes(t.changes)

AccountsShape ==
    /\ NoRow \notin Accounts!UserRow
    /\ users \in [Officers -> Accounts!UserRow \cup {NoRow}]
    /\ departments \subseteq Departments
    /\ scope \in [Officers -> Departments \cup {NoRow}]
    /\ DOMAIN work = Workers
    /\ \A w \in Workers :
          \/ work[w] = Accounts!Idle
          \/ IsGuess(work[w]) \/ IsDelete(work[w]) \/ IsChange(work[w])

\* The columns take an administrator away.
Unseats(c) ==
    \/ "role" \in DOMAIN c /\ c["role"] # "admin"
    \/ "active" \in DOMAIN c /\ ~c["active"]

\* Whoever takes an administrator away, and has not been overtaken, leaves another.
CountIsGood(t) ==
    (/\ (t.op \in {"change", "promote"} /\ Unseats(t.changes)) \/ t.op = "delete"
     /\ ~t.stale /\ t.of \in Accounts!ActiveAdmins)
        => Accounts!ActiveAdmins \ {t.of} # {}

AccountsInv == AccountsShape /\ \A w \in Workers : CountIsGood(work[w])

LEMMA AccountWorkKinds ==
    ASSUME AccountsShape, NEW w \in Workers
    PROVE  /\ work[w].op \in {"change", "promote"} => IsChange(work[w])
           /\ work[w].op = "delete" => IsDelete(work[w])
           /\ work[w].op = "guess" => IsGuess(work[w])
           /\ work[w] # Accounts!Idle => work[w].op \in {"change", "promote", "delete", "guess"}
<1>1. IsGuess(work[w]) => work[w].op = "guess"
  BY DEF IsGuess
<1>2. IsDelete(work[w]) => work[w].op = "delete"
  BY DEF IsDelete
<1>3. IsChange(work[w]) => work[w].op \in {"change", "promote"}
  BY DEF IsChange
<1>4. work[w] = Accounts!Idle => work[w].op = "idle"
  BY DEF Accounts!Idle
<1> QED BY <1>1, <1>2, <1>3, <1>4 DEF AccountsShape

LEMMA AccountsInit ==
    ASSUME NoRow \notin Accounts!UserRow, Accounts!UsersTypeOK, Accounts!Init
    PROVE  AccountsInv
<1>1. scope \in [Officers -> Departments \cup {NoRow}]
  BY DEF Accounts!Init, Accounts!UsersTypeOK, Accounts!Exists, Accounts!UserRow
<1>2. AccountsShape
  BY <1>1 DEF Accounts!Init, AccountsShape, Accounts!UsersTypeOK
<1>3. \A w \in Workers : work[w].op = "idle"
  BY DEF Accounts!Init, Accounts!Idle
<1> QED BY <1>2, <1>3 DEF AccountsInv, CountIsGood

\* A handler that begins: its columns are those of a row that differ from the loaded one.
LEMMA ChangingKeeps ==
    ASSUME AccountsInv, NEW w \in Workers, NEW p \in Officers, Accounts!Exists(p),
           NEW op \in {"change", "promote"}, NEW row \in Accounts!Account,
           Accounts!Changing(w, op, p, row),
           p \in Accounts!ActiveAdmins =>
               (row.role = "admin" /\ row.active) \/ Accounts!ActiveAdmins \ {p} # {}
    PROVE  AccountsInv'
<1> DEFINE c == [x \in {x \in DOMAIN row : row[x] # Accounts!AccountOf(p)[x]} |-> row[x]]
           t == [op |-> op, of |-> p, changes |-> c, open |-> op = "promote", stale |-> FALSE]
<1>1. /\ work' = [work EXCEPT ![w] = t]
      /\ UNCHANGED <<users, departments, scope>>
  BY DEF Accounts!Changing, Accounts!Begin, Accounts!RowsUnchanged
<1>2. Changes(c)
  BY DEF Changes, Accounts!Account
<1>3. IsChange(t)
  BY <1>2 DEF IsChange
<1>4. AccountsShape'
  BY <1>1, <1>3 DEF AccountsInv, AccountsShape, Accounts!UserRow, Accounts!Roles
<1>5. Accounts!ActiveAdmins' = Accounts!ActiveAdmins
  BY <1>1 DEF Accounts!ActiveAdmins, Accounts!SignedIn, Accounts!Exists
<1>6. Unseats(c) => ~(row.role = "admin" /\ row.active)
  BY DEF Unseats, Accounts!Account
<1> HIDE DEF c
<1>7. \A v \in Workers : CountIsGood(work[v])'
  <2> SUFFICES ASSUME NEW v \in Workers PROVE CountIsGood(work[v])'
    OBVIOUS
  <2>1. CASE v = w
    <3>1. work'[v] = t
      BY <1>1, <2>1 DEF AccountsInv, AccountsShape
    <3> QED BY <1>5, <1>6, <3>1 DEF CountIsGood
  <2>2. CASE v # w
    BY <1>1, <1>5, <2>2 DEF AccountsInv, AccountsShape, CountIsGood
  <2> QED BY <2>1, <2>2
<1> QED BY <1>4, <1>7 DEF AccountsInv

\* Closing a challenge changes nothing but whether a handler's challenge is open.
LEMMA ClosedFacts ==
    ASSUME AccountsShape, NEW p, NEW v \in Workers
    PROVE  LET t == Accounts!Closed(p)[v] IN
           /\ IsChange(work[v]) => /\ IsChange(t) /\ t.op = work[v].op /\ t.of = work[v].of
                                   /\ t.changes = work[v].changes /\ t.stale = work[v].stale
           /\ IsDelete(work[v]) => t = work[v]
           /\ IsGuess(work[v]) => IsGuess(t)
           /\ work[v] = Accounts!Idle => t = Accounts!Idle
<1> DEFINE t == Accounts!Closed(p)[v]
<1>1. t = IF work[v].op \in {"guess", "promote"} /\ work[v].of = p
          THEN [work[v] EXCEPT !.open = FALSE] ELSE work[v]
  BY DEF Accounts!Closed
<1> HIDE DEF t
<1>2. ASSUME IsChange(work[v])
      PROVE  /\ IsChange(t) /\ t.op = work[v].op /\ t.of = work[v].of
             /\ t.changes = work[v].changes /\ t.stale = work[v].stale
  BY <1>1, <1>2 DEF IsChange
<1>3. IsDelete(work[v]) => t = work[v]
  BY <1>1 DEF IsDelete
<1>4. IsGuess(work[v]) => IsGuess(t)
  BY <1>1 DEF IsGuess
<1>5. work[v] = Accounts!Idle => t = Accounts!Idle
  BY <1>1 DEF Accounts!Idle
<1> QED BY <1>2, <1>3, <1>4, <1>5 DEF t

\* What is left in hand after a commit: the same columns, and a count marked stale if the
\* administrators are others by now.
LEMMA OvertakeKeeps ==
    ASSUME AccountsInv, NEW w \in Workers, NEW p, NEW H,
           H = work \/ H = Accounts!Closed(p),
           Accounts!Overtake(w, H)
    PROVE  /\ DOMAIN work' = Workers
           /\ work'[w] = Accounts!Idle
           /\ \A v \in Workers :
                 /\ \/ work'[v] = Accounts!Idle
                    \/ IsGuess(work'[v]) \/ IsDelete(work'[v]) \/ IsChange(work'[v])
                 /\ CountIsGood(work[v])'
<1>1. work' = [v \in Workers |->
          IF v = w \/ work[v] = Accounts!Idle THEN Accounts!Idle
          ELSE IF work[v].op = "guess" THEN H[v]
          ELSE [H[v] EXCEPT !.stale = @ \/ Accounts!ActiveAdmins' # Accounts!ActiveAdmins]]
  BY DEF Accounts!Overtake
<1>2. SUFFICES ASSUME NEW v \in Workers, v # w, work[v] # Accounts!Idle
      PROVE  /\ IsGuess(work'[v]) \/ IsDelete(work'[v]) \/ IsChange(work'[v])
             /\ CountIsGood(work[v])'
  <2>1. Accounts!Idle.op = "idle"
    BY DEF Accounts!Idle
  <2>2. \A v \in Workers : v = w \/ work[v] = Accounts!Idle => work'[v] = Accounts!Idle
    BY <1>1
  <2>3. \A v \in Workers : v = w \/ work[v] = Accounts!Idle => CountIsGood(work[v])'
    BY <2>1, <2>2 DEF CountIsGood
  <2> QED BY <1>1, <2>2, <2>3
<1>3. PICK differ \in BOOLEAN : differ = (Accounts!ActiveAdmins' # Accounts!ActiveAdmins)
  OBVIOUS
<1>4. CASE IsGuess(work[v])
  <2>1. work'[v] = H[v] /\ IsGuess(H[v])
    <3>1. work[v].op = "guess"
      BY <1>4 DEF IsGuess
    <3> QED BY <1>1, <1>2, <1>4, <3>1, ClosedFacts DEF AccountsInv
  <2>2. work'[v].op = "guess"
    BY <2>1 DEF IsGuess
  <2> QED BY <2>1, <2>2 DEF CountIsGood
<1>5. CASE IsDelete(work[v])
  <2>1. work[v].op = "delete" /\ H[v] = work[v]
    BY <1>5, ClosedFacts DEF IsDelete, AccountsInv
  <2>2. work'[v] = [work[v] EXCEPT !.stale = @ \/ differ]
    BY <1>1, <1>2, <1>3, <2>1
  <2>3. /\ IsDelete(work'[v]) /\ work'[v].op = "delete" /\ work'[v].of = work[v].of
        /\ work'[v].stale = (work[v].stale \/ differ)
    BY <2>2, <1>5 DEF IsDelete
  <2>4. CountIsGood(work[v])
    BY DEF AccountsInv
  <2>5. CountIsGood(work[v])'
    BY <1>3, <2>1, <2>3, <2>4 DEF CountIsGood
  <2> QED BY <2>3, <2>5
<1>6. CASE IsChange(work[v])
  <2>1. /\ IsChange(H[v]) /\ H[v].op = work[v].op /\ H[v].of = work[v].of
        /\ H[v].changes = work[v].changes /\ H[v].stale = work[v].stale
    BY <1>6, ClosedFacts DEF AccountsInv
  <2>2. work[v].op # "guess"
    BY <1>6 DEF IsChange
  <2>3. work'[v] = [H[v] EXCEPT !.stale = @ \/ differ]
    BY <1>1, <1>2, <1>3, <2>2
  <2>4. /\ IsChange(work'[v]) /\ work'[v].op = H[v].op /\ work'[v].of = H[v].of
        /\ work'[v].changes = H[v].changes
        /\ work'[v].stale = (H[v].stale \/ differ)
    BY <2>3, <2>1 DEF IsChange
  <2>5. CountIsGood(work[v]) /\ work[v].op # "delete"
    BY <1>6 DEF AccountsInv, IsChange
  <2>6. CountIsGood(work[v])'
    BY <1>3, <2>1, <2>4, <2>5 DEF CountIsGood
  <2> QED BY <2>4, <2>6
<1> QED BY <1>2, <1>4, <1>5, <1>6 DEF AccountsInv, AccountsShape

LEMMA ChangeCommitKeeps ==
    ASSUME AccountsInv, NEW w \in Workers, Accounts!ChangeCommit(w)
    PROVE  AccountsInv'
<1> DEFINE p == work[w].of
           row == Accounts!Written(Accounts!AccountOf(p), work[w].changes)
<1>1. IsChange(work[w])
  BY AccountWorkKinds DEF AccountsInv, Accounts!ChangeCommit
<1>2. row \in Accounts!Account
  <2>1. p \in Officers /\ Accounts!Exists(p) /\ Changes(work[w].changes)
    BY <1>1 DEF IsChange, Accounts!ChangeCommit
  <2>2. Accounts!AccountOf(p) \in Accounts!Account
    BY <2>1 DEF AccountsInv, AccountsShape, Accounts!AccountOf, Accounts!Account,
                Accounts!UserRow, Accounts!Exists
  <2> QED BY <2>1, <2>2 DEF Accounts!Written, Accounts!Account, Changes
<1>3. \E H : /\ H = work \/ H = Accounts!Closed(p)
             /\ Accounts!Overtake(w, H)
  BY DEF Accounts!ChangeCommit
<1>4. /\ users' = [users EXCEPT ![p] =
            [role |-> row.role, department |-> row.department, active |-> row.active]]
      /\ scope' = [scope EXCEPT ![p] = row.scope]
      /\ departments' = departments
  BY DEF Accounts!ChangeCommit
<1> HIDE DEF row
<1>5. /\ users' \in [Officers -> Accounts!UserRow \cup {NoRow}]
      /\ scope' \in [Officers -> Departments \cup {NoRow}]
  BY <1>1, <1>2, <1>4 DEF AccountsInv, AccountsShape, Accounts!Account, Accounts!UserRow
<1>6. AccountsShape'
  BY <1>3, <1>4, <1>5, OvertakeKeeps DEF AccountsInv, AccountsShape, Accounts!UserRow,
     Accounts!Roles
<1>7. \A v \in Workers : CountIsGood(work[v])'
  BY <1>3, OvertakeKeeps
<1> QED BY <1>6, <1>7 DEF AccountsInv

LEMMA DeleteCommitKeeps ==
    ASSUME AccountsInv, NEW w \in Workers, Accounts!DeleteCommit(w)
    PROVE  AccountsInv'
<1>1. PICK p : /\ users' = [users EXCEPT ![p] = NoRow]
               /\ scope' = [scope EXCEPT ![p] = NoRow]
               /\ departments' = departments
               /\ Accounts!Overtake(w, Accounts!Closed(p))
  BY DEF Accounts!DeleteCommit
<1>2. AccountsShape'
  BY <1>1, OvertakeKeeps DEF AccountsInv, AccountsShape, Accounts!UserRow, Accounts!Roles
<1>3. \A v \in Workers : CountIsGood(work[v])'
  BY <1>1, OvertakeKeeps
<1> QED BY <1>2, <1>3 DEF AccountsInv

\* Whatever leaves the administrators as they are keeps what was counted.
LEMMA SameAdminsKeep ==
    ASSUME AccountsInv, Accounts!ActiveAdmins' = Accounts!ActiveAdmins,
           users' \in [Officers -> Accounts!UserRow \cup {NoRow}],
           scope' \in [Officers -> Departments \cup {NoRow}],
           departments' \subseteq Departments,
           \/ work' = work \/ (\E p : work' = Accounts!Closed(p))
           \/ \E w \in Workers : work' = [work EXCEPT ![w] = Accounts!Idle]
    PROVE  AccountsInv'
<1>1. DOMAIN work' = Workers
  BY DEF AccountsInv, AccountsShape, Accounts!Closed
<1>2. ASSUME NEW v \in Workers
      PROVE  /\ \/ work'[v] = Accounts!Idle
                \/ IsGuess(work'[v]) \/ IsDelete(work'[v]) \/ IsChange(work'[v])
             /\ CountIsGood(work[v])'
  <2>0. Accounts!Idle.op = "idle"
    BY DEF Accounts!Idle
  <2>1. CASE work'[v] = work[v]
    BY <2>1 DEF AccountsInv, AccountsShape, CountIsGood
  <2>2. CASE work'[v] = Accounts!Idle
    BY <2>0, <2>2 DEF CountIsGood
  <2>3. CASE \E p : work' = Accounts!Closed(p)
    <3>1. CASE IsGuess(work[v])
      <4>1. IsGuess(work'[v])
        BY <2>3, <3>1, ClosedFacts DEF AccountsInv
      <4>2. work'[v].op = "guess"
        BY <4>1 DEF IsGuess
      <4> QED BY <4>1, <4>2 DEF CountIsGood
    <3>2. CASE IsDelete(work[v]) \/ work[v] = Accounts!Idle
      BY <2>1, <2>3, <3>2, ClosedFacts DEF AccountsInv
    <3>3. CASE IsChange(work[v])
      <4>1. /\ IsChange(work'[v]) /\ work'[v].op = work[v].op /\ work'[v].of = work[v].of
            /\ work'[v].changes = work[v].changes /\ work'[v].stale = work[v].stale
        BY <2>3, <3>3, ClosedFacts DEF AccountsInv
      <4>2. CountIsGood(work[v])
        BY DEF AccountsInv
      <4> QED BY <4>1, <4>2 DEF CountIsGood
    <3> QED BY <3>1, <3>2, <3>3 DEF AccountsInv, AccountsShape
  <2> QED BY <2>1, <2>2, <2>3 DEF AccountsInv, AccountsShape
<1>3. AccountsShape'
  BY <1>1, <1>2 DEF AccountsInv, AccountsShape, Accounts!UserRow, Accounts!Roles
<1> QED BY <1>2, <1>3 DEF AccountsInv

\* Every role that is given by hand is none that needs a challenge, but for ChangeRole's.
LEMMA CreatedKeeps ==
    ASSUME AccountsInv, NEW p \in Officers, NEW role \in Accounts!Roles \ {"admin"},
           NEW department, Accounts!Created(p, role, department)
    PROVE  AccountsInv'
<1> DEFINE row == [role |-> role, department |-> department, active |-> TRUE]
<1>1. /\ users' = [users EXCEPT ![p] = row]
      /\ ~Accounts!Exists(p) /\ row \in Accounts!UserRow
      /\ department \in Departments \cup {NoRow}
      /\ UNCHANGED <<departments, work>>
  BY DEF Accounts!Created, AccountsInv, AccountsShape, Accounts!UserRow
<1>2. users' \in [Officers -> Accounts!UserRow \cup {NoRow}]
  BY <1>1 DEF AccountsInv, AccountsShape
<1>3. scope' \in [Officers -> Departments \cup {NoRow}]
  BY <1>1 DEF AccountsInv, AccountsShape, Accounts!Created
<1>4. Accounts!ActiveAdmins' = Accounts!ActiveAdmins
  BY <1>1 DEF AccountsInv, AccountsShape, Accounts!ActiveAdmins, Accounts!SignedIn,
     Accounts!Exists
<1>5. departments' \subseteq Departments
  BY <1>1 DEF AccountsInv, AccountsShape
<1> QED BY <1>1, <1>2, <1>3, <1>4, <1>5, SameAdminsKeep

LEMMA BringingInKeeps ==
    ASSUME AccountsInv, NEW a \in Officers, NEW p \in Officers, NEW role, NEW d,
           Accounts!CreateAccount(a, p, role, d) \/ Accounts!CreateAsAdmin(a, p, role, d)
    PROVE  AccountsInv'
<1>1. \A r : Accounts!CREATABLE_ROLE(r) \subseteq Accounts!Roles \ {"admin"}
  BY DEF Accounts!CREATABLE_ROLE, Accounts!Roles
<1>2. /\ role \in Accounts!Roles \ {"admin"}
      /\ Accounts!Created(p, role, d)
  BY <1>1 DEF Accounts!CreateAccount, Accounts!CreateAsAdmin, Accounts!APPOINTABLE_BY_ADMIN,
     Accounts!Roles
<1> QED BY <1>2, CreatedKeeps

LEMMA AccountOfFacts ==
    ASSUME AccountsShape, NEW p \in Officers, Accounts!Exists(p)
    PROVE  /\ Accounts!AccountOf(p) \in Accounts!Account
           /\ p \in Accounts!ActiveAdmins =>
                 Accounts!AccountOf(p).role = "admin" /\ Accounts!AccountOf(p).active
BY DEF AccountsShape, Accounts!AccountOf, Accounts!Account, Accounts!UserRow,
       Accounts!Exists, Accounts!ActiveAdmins, Accounts!SignedIn

LEMMA ChangeLoadIsChanging ==
    ASSUME AccountsInv, Given \subseteq Accounts!Roles,
           NEW w \in Workers, NEW a \in Officers, NEW p \in Officers,
           \/ \E r \in Given : Accounts!ChangeRole(w, a, p, r)
           \/ \E active \in BOOLEAN : Accounts!SetActive(w, a, p, active)
           \/ \E r \in Given : Accounts!StepDown(w, a, r)
           \/ \E d \in Departments \cup {NoRow} : Accounts!UpdateUser(w, a, p, d)
           \/ Accounts!ConfirmPromotion(w, a, p)
    PROVE  \E q \in Officers, op \in {"change", "promote"}, row \in Accounts!Account :
               /\ Accounts!Exists(q) /\ Accounts!Changing(w, op, q, row)
               /\ q \in Accounts!ActiveAdmins =>
                     (row.role = "admin" /\ row.active) \/ Accounts!ActiveAdmins \ {q} # {}
<1> USE DEF AccountsInv
<1>0. ASSUME NEW row \in Accounts!Account
      PROVE  /\ Accounts!ScopeSynced(row) \in Accounts!Account
             /\ Accounts!PlacementSynced(row) \in Accounts!Account
             /\ Accounts!ScopeSynced(row).role = row.role
             /\ Accounts!ScopeSynced(row).active = row.active
             /\ Accounts!PlacementSynced(row).role = row.role
             /\ Accounts!PlacementSynced(row).active = row.active
  BY DEF Accounts!Account, Accounts!ScopeSynced, Accounts!PlacementSynced
<1>1. CASE \E r \in Given : Accounts!ChangeRole(w, a, p, r)
  <2>1. PICK r \in Accounts!Roles : Accounts!ChangeRole(w, a, p, r)
    BY <1>1
  <2> DEFINE row == [Accounts!AccountOf(p) EXCEPT !.role = r]
  <2>2. Accounts!Exists(p) /\ row \in Accounts!Account
    BY <2>1, AccountOfFacts DEF Accounts!ChangeRole, Accounts!Account
  <2>3. p \in Accounts!ActiveAdmins =>
            (row.role = "admin" /\ row.active) \/ Accounts!ActiveAdmins \ {p} # {}
    BY <2>1 DEF Accounts!ChangeRole, Accounts!KeepsAnAdmin
  <2>4. Accounts!Changing(w, "change", p, Accounts!PlacementSynced(Accounts!ScopeSynced(row)))
    BY <2>1 DEF Accounts!ChangeRole
  <2> HIDE DEF row
  <2>5. LET new == Accounts!PlacementSynced(Accounts!ScopeSynced(row)) IN
        new \in Accounts!Account /\ new.role = row.role /\ new.active = row.active
    BY <1>0, <2>2
  <2> QED BY <2>2, <2>3, <2>4, <2>5
<1>2. CASE \E active \in BOOLEAN : Accounts!SetActive(w, a, p, active)
  <2>1. PICK active \in BOOLEAN : Accounts!SetActive(w, a, p, active)
    BY <1>2
  <2> DEFINE row == [Accounts!AccountOf(p) EXCEPT !.active = active]
  <2>2. Accounts!Exists(p) /\ row \in Accounts!Account
    BY <2>1, AccountOfFacts DEF Accounts!SetActive, Accounts!Account
  <2>3. p \in Accounts!ActiveAdmins =>
            (row.role = "admin" /\ row.active) \/ Accounts!ActiveAdmins \ {p} # {}
    BY <2>1 DEF Accounts!SetActive, Accounts!KeepsAnAdmin
  <2>4. Accounts!Changing(w, "change", p, row)
    BY <2>1 DEF Accounts!SetActive
  <2> HIDE DEF row
  <2> QED BY <2>2, <2>3, <2>4
<1>3. CASE \E r \in Given : Accounts!StepDown(w, a, r)
  <2>1. PICK r \in Accounts!Roles : Accounts!StepDown(w, a, r)
    BY <1>3
  <2> DEFINE row == [Accounts!AccountOf(a) EXCEPT !.role = r]
  <2>2. Accounts!Exists(a) /\ row \in Accounts!Account
    BY <2>1, AccountOfFacts DEF Accounts!StepDown, Accounts!Account, Accounts!May,
       Accounts!SignedIn
  <2>3. Accounts!ActiveAdmins \ {a} # {} /\ Accounts!Changing(w, "change", a, row)
    BY <2>1 DEF Accounts!StepDown
  <2> HIDE DEF row
  <2> QED BY <2>2, <2>3
<1>4. CASE \E d \in Departments \cup {NoRow} : Accounts!UpdateUser(w, a, p, d)
  <2>1. PICK d \in Departments \cup {NoRow} : Accounts!UpdateUser(w, a, p, d)
    BY <1>4
  <2>2. Accounts!Exists(p)
    BY <2>1 DEF Accounts!UpdateUser
  <2> DEFINE old == Accounts!AccountOf(p)
             row == [old EXCEPT !.department = d]
  <2>3. /\ row \in Accounts!Account /\ row.role = old.role /\ row.active = old.active
        /\ p \in Accounts!ActiveAdmins => old.role = "admin" /\ old.active
    BY <2>2, AccountOfFacts DEF Accounts!Account
  <2>4. PICK r : /\ \/ r = Accounts!ScopeSynced(row)
                    \/ \E e \in Departments \cup {NoRow} : r = [row EXCEPT !.scope = e]
                 /\ Accounts!Changing(w, "change", p, Accounts!PlacementSynced(r))
    BY <2>1 DEF Accounts!UpdateUser, AccountsShape
  <2> HIDE DEF row, old
  <2>5. r \in Accounts!Account /\ r.role = row.role /\ r.active = row.active
    <3>1. CASE r = Accounts!ScopeSynced(row)
      BY <1>0, <2>3, <3>1
    <3>2. CASE \E e \in Departments \cup {NoRow} : r = [row EXCEPT !.scope = e]
      BY <2>3, <3>2 DEF Accounts!Account
    <3> QED BY <2>4, <3>1, <3>2
  <2>6. LET new == Accounts!PlacementSynced(r) IN
        new \in Accounts!Account /\ new.role = row.role /\ new.active = row.active
    BY <1>0, <2>5
  <2> QED BY <2>2, <2>3, <2>4, <2>6
<1>5. CASE Accounts!ConfirmPromotion(w, a, p)
  <2> DEFINE row == [Accounts!AccountOf(p) EXCEPT !.role = "admin"]
  <2>1. /\ Accounts!Exists(p) /\ row \in Accounts!Account
        /\ p \in Accounts!ActiveAdmins => row.role = "admin" /\ row.active
    BY <1>5, AccountOfFacts DEF Accounts!ConfirmPromotion, Accounts!Account, Accounts!Roles
  <2>2. Accounts!Changing(w, "promote", p, row)
    BY <1>5 DEF Accounts!ConfirmPromotion
  <2> HIDE DEF row
  <2> QED BY <2>1, <2>2
<1> QED BY <1>1, <1>2, <1>3, <1>4, <1>5

LEMMA ChangeLoadKeeps ==
    ASSUME AccountsInv, Given \subseteq Accounts!Roles,
           NEW w \in Workers, NEW a \in Officers, NEW p \in Officers,
           \/ \E r \in Given : Accounts!ChangeRole(w, a, p, r)
           \/ \E active \in BOOLEAN : Accounts!SetActive(w, a, p, active)
           \/ \E r \in Given : Accounts!StepDown(w, a, r)
           \/ \E d \in Departments \cup {NoRow} : Accounts!UpdateUser(w, a, p, d)
           \/ Accounts!ConfirmPromotion(w, a, p)
    PROVE  AccountsInv'
<1>1. PICK q \in Officers, op \in {"change", "promote"}, row \in Accounts!Account :
               /\ Accounts!Exists(q) /\ Accounts!Changing(w, op, q, row)
               /\ q \in Accounts!ActiveAdmins =>
                     (row.role = "admin" /\ row.active) \/ Accounts!ActiveAdmins \ {q} # {}
  BY ChangeLoadIsChanging
<1> QED BY <1>1, ChangingKeeps

\* Whoever deletes an administrator is another one.
LEMMA DeleteLoadKeeps ==
    ASSUME AccountsInv, NEW w \in Workers, NEW a \in Officers, NEW p \in Officers,
           Accounts!DeleteLoad(w, a, p)
    PROVE  AccountsInv'
<1> USE DEF AccountsInv
<1> DEFINE t == [op |-> "delete", of |-> p, stale |-> FALSE]
<1>1. /\ work' = [work EXCEPT ![w] = t]
      /\ UNCHANGED <<users, departments, scope>>
  BY DEF Accounts!DeleteLoad, Accounts!Begin, Accounts!RowsUnchanged
<1>2. IsDelete(t)
  BY DEF IsDelete
<1>3. AccountsShape'
  BY <1>1, <1>2 DEF AccountsShape, Accounts!UserRow, Accounts!Roles
<1>4. Accounts!ActiveAdmins' = Accounts!ActiveAdmins
  BY <1>1 DEF Accounts!ActiveAdmins, Accounts!SignedIn, Accounts!Exists
<1>5. p \in Accounts!ActiveAdmins => a \in Accounts!ActiveAdmins \ {p}
  <2>1. a # p /\ Accounts!SignedIn(a)
    BY DEF Accounts!DeleteLoad, Accounts!MayDelete, Accounts!May
  <2>2. users[p].role \in Accounts!DELETABLE_ROLES(users[a].role)
    BY DEF Accounts!DeleteLoad, Accounts!MayDelete
  <2>3. users[p].role = "admin" => users[a].role = "admin"
    BY <2>2 DEF Accounts!DELETABLE_ROLES
  <2> QED BY <2>1, <2>3 DEF Accounts!ActiveAdmins
<1>6. ASSUME NEW v \in Workers PROVE CountIsGood(work[v])'
  <2>1. CASE v = w
    <3>1. work'[v] = t
      BY <1>1, <2>1 DEF AccountsShape
    <3> QED BY <1>4, <1>5, <3>1 DEF CountIsGood
  <2>2. CASE v # w
    BY <1>1, <1>4, <2>2 DEF AccountsShape, CountIsGood
  <2> QED BY <2>1, <2>2
<1> QED BY <1>3, <1>6

LEMMA GuessLoadKeeps ==
    ASSUME AccountsInv, NEW w \in Workers, NEW a, NEW p, Accounts!GuessLoad(w, a, p)
    PROVE  AccountsInv'
<1> USE DEF AccountsInv
<1>1. PICK t : /\ t = [op |-> "guess", of |-> p, left |-> guesses[p], open |-> TRUE]
               /\ work' = [work EXCEPT ![w] = t]
               /\ UNCHANGED <<users, departments, scope>>
  BY DEF Accounts!GuessLoad, Accounts!Begin, Accounts!RowsUnchanged
<1>2. IsGuess(t) /\ t.op = "guess"
  BY <1>1 DEF IsGuess
<1>3. AccountsShape'
  BY <1>1, <1>2 DEF AccountsShape, Accounts!UserRow, Accounts!Roles
<1>4. Accounts!ActiveAdmins' = Accounts!ActiveAdmins
  BY <1>1 DEF Accounts!ActiveAdmins, Accounts!SignedIn, Accounts!Exists
<1> QED BY <1>1, <1>2, <1>3, <1>4 DEF AccountsShape, CountIsGood

\* A department that goes takes the administrators' department at most.
LEMMA DepartmentGoneKeeps ==
    ASSUME AccountsInv, NEW a, NEW d, Accounts!DeleteDepartment(a, d)
    PROVE  AccountsInv'
<1> USE DEF AccountsInv
<1>1. /\ departments' \subseteq Departments
      /\ users' = [p \in Officers |->
            IF Accounts!Exists(p) /\ users[p].department = d
            THEN [users[p] EXCEPT !.department = NoRow] ELSE users[p]]
      /\ UNCHANGED <<scope, work>>
  BY DEF Accounts!DeleteDepartment, AccountsShape
<1>2. \A p \in Officers : users[p] # NoRow => users[p] \in Accounts!UserRow
  BY DEF AccountsShape
<1>3. \A p \in Officers :
          /\ users'[p] \in Accounts!UserRow \cup {NoRow}
          /\ users[p] = NoRow <=> users'[p] = NoRow
          /\ users[p] # NoRow =>
                users'[p].role = users[p].role /\ users'[p].active = users[p].active
  BY <1>1, <1>2 DEF Accounts!UserRow, Accounts!Exists, AccountsShape
<1>4. users' \in [Officers -> Accounts!UserRow \cup {NoRow}]
  BY <1>1, <1>3
<1>5. Accounts!ActiveAdmins' = Accounts!ActiveAdmins
  BY <1>3 DEF Accounts!ActiveAdmins, Accounts!SignedIn, Accounts!Exists
<1>6. scope' \in [Officers -> Departments \cup {NoRow}]
  BY <1>1 DEF AccountsShape
<1> QED BY <1>1, <1>4, <1>5, <1>6, SameAdminsKeep

LEMMA AccountsNext ==
    ASSUME AccountsInv, Given \subseteq Accounts!Roles,
           [Accounts!Next]_<<users, Accounts!accountVars>>
    PROVE  AccountsInv'
<1>1. CASE /\ UNCHANGED <<users, scope>> /\ departments' \subseteq Departments
           /\ \/ work' = work \/ (\E p : work' = Accounts!Closed(p))
              \/ \E w \in Workers : work' = [work EXCEPT ![w] = Accounts!Idle]
  <2>1. Accounts!ActiveAdmins' = Accounts!ActiveAdmins
    BY <1>1 DEF Accounts!ActiveAdmins, Accounts!SignedIn, Accounts!Exists
  <2>2. users' \in [Officers -> Accounts!UserRow \cup {NoRow}]
    BY <1>1 DEF AccountsInv, AccountsShape
  <2>3. scope' \in [Officers -> Departments \cup {NoRow}]
    BY <1>1 DEF AccountsInv, AccountsShape
  <2> QED BY <1>1, <2>1, <2>2, <2>3, SameAdminsKeep
<1>2. departments \subseteq Departments
  BY DEF AccountsInv, AccountsShape
<1>3. CASE \E w \in Workers : Accounts!Rollback(w) \/ Accounts!GuessCommit(w)
  BY <1>1, <1>2, <1>3 DEF Accounts!Rollback, Accounts!GuessCommit, Accounts!End,
     Accounts!RowsUnchanged
<1>4. CASE \E a, p \in Officers : Accounts!RequestPromotion(a, p) \/ Accounts!Expire(p)
  BY <1>1, <1>2, <1>4 DEF Accounts!RequestPromotion, Accounts!Expire
<1>5. CASE \E p \in Officers : Accounts!Verification(p)
  BY <1>1, <1>2, <1>5 DEF Accounts!Verification
<1>6. CASE \E a \in Officers, d \in Departments : Accounts!CreateDepartment(a, d)
  BY <1>1, <1>2, <1>6 DEF Accounts!CreateDepartment
<1>7. CASE UNCHANGED <<users, Accounts!accountVars>>
  BY <1>1, <1>2, <1>7 DEF Accounts!accountVars
<1> QED
  BY <1>3, <1>4, <1>5, <1>6, <1>7, BringingInKeeps, ChangeLoadKeeps, DeleteLoadKeeps,
     GuessLoadKeeps, DepartmentGoneKeeps, ChangeCommitKeeps, DeleteCommitKeeps
  DEF Accounts!Next

LEMMA AccountsKeepAdministrator ==
    ASSUME NoRow \notin Accounts!UserRow, Given \subseteq Accounts!Roles,
           AccountsInv, AccountsInv', [Accounts!Next]_<<users, Accounts!accountVars>>
    PROVE  Accounts!KeepsAdministrator
<1> DEFINE admins == Accounts!ActiveAdmins
<1>1. ASSUME AccountsInv, NEW w \in Workers, Accounts!ChangeCommit(w),
             admins # {}, admins' = {}
      PROVE  work[w].stale
  <2> DEFINE t == work[w]
             row == Accounts!Written(Accounts!AccountOf(t.of), t.changes)
  <2>1. IsChange(t) /\ CountIsGood(t) /\ t.op # "delete"
    BY <1>1, AccountWorkKinds DEF AccountsInv, Accounts!ChangeCommit
  <2>2. /\ users' = [users EXCEPT ![t.of] =
              [role |-> row.role, department |-> row.department, active |-> row.active]]
        /\ Accounts!Exists(t.of) /\ t.of \in Officers
    BY <1>1, <2>1 DEF Accounts!ChangeCommit, IsChange
  <2>3. row \in Accounts!Account
    <3>1. Accounts!AccountOf(t.of) \in Accounts!Account /\ Changes(t.changes)
      BY <1>1, <2>1, <2>2, AccountOfFacts DEF AccountsInv, IsChange
    <3> QED BY <3>1 DEF Accounts!Written, Accounts!Account, Changes
  <2>4. t.of \in admins => Accounts!AccountOf(t.of).role = "admin" /\ Accounts!AccountOf(t.of).active
    BY <1>1, <2>2, AccountOfFacts DEF AccountsInv
  <2>5. t.of \in admins /\ ~Unseats(t.changes) => row.role = "admin" /\ row.active
    BY <2>1, <2>4 DEF Unseats, Accounts!Written, Accounts!AccountOf
  <2> HIDE DEF row
  <2>6. [role |-> row.role, department |-> row.department, active |-> row.active]
            \in Accounts!UserRow
    BY <2>3 DEF Accounts!Account, Accounts!UserRow
  <2>7. \A p \in Officers \ {t.of} : users'[p] = users[p]
    BY <1>1, <2>2 DEF AccountsInv, AccountsShape
  <2>8. users'[t.of] = [role |-> row.role, department |-> row.department, active |-> row.active]
    BY <1>1, <2>2 DEF AccountsInv, AccountsShape
  <2>9. admins \ {t.of} \subseteq admins'
    BY <2>7 DEF Accounts!ActiveAdmins, Accounts!SignedIn, Accounts!Exists
  <2>10. row.role = "admin" /\ row.active => t.of \in admins'
    <3>1. users'[t.of] # NoRow
      BY <1>1, <2>6, <2>8 DEF AccountsInv, AccountsShape
    <3> QED BY <2>2, <2>8, <3>1 DEF Accounts!ActiveAdmins, Accounts!SignedIn, Accounts!Exists
  <2>11. t.of \in admins /\ Unseats(t.changes) /\ admins \ {t.of} = {}
    BY <1>1, <2>5, <2>9, <2>10
  <2> QED BY <2>1, <2>11 DEF CountIsGood, IsChange
<1>2. ASSUME AccountsInv, NEW w \in Workers, Accounts!DeleteCommit(w),
             admins # {}, admins' = {}
      PROVE  work[w].stale
  <2> DEFINE t == work[w]
  <2>1. t.op = "delete" /\ CountIsGood(t)
    BY <1>2 DEF AccountsInv, Accounts!DeleteCommit
  <2>2. users' = [users EXCEPT ![t.of] = NoRow]
    BY <1>2 DEF Accounts!DeleteCommit
  <2>3. \A p \in Officers \ {t.of} : users'[p] = users[p]
    BY <1>2, <2>2 DEF AccountsInv, AccountsShape
  <2>4. admins \ {t.of} \subseteq admins'
    BY <2>3 DEF Accounts!ActiveAdmins, Accounts!SignedIn, Accounts!Exists
  <2> QED BY <1>2, <2>1, <2>4 DEF CountIsGood
<1>3. ASSUME AccountsInv, AccountsInv', [Accounts!Next]_<<users, Accounts!accountVars>>,
             admins # {}, admins' = {}
      PROVE  \E w \in Workers : Accounts!ChangeCommit(w) \/ Accounts!DeleteCommit(w)
  <2>1. users' # users
    BY <1>3 DEF Accounts!ActiveAdmins, Accounts!SignedIn, Accounts!Exists
  <2>2. ASSUME NEW a \in Officers, NEW d, Accounts!DeleteDepartment(a, d)
        PROVE  FALSE
    <3>1. \A p \in Officers : users[p] # NoRow => users[p] \in Accounts!UserRow
      BY <1>3 DEF AccountsInv, AccountsShape
    <3>2. \A p \in Officers : users[p] # NoRow =>
              /\ users'[p] # NoRow
              /\ users'[p].role = users[p].role /\ users'[p].active = users[p].active
      BY <1>3, <2>2, <3>1 DEF Accounts!DeleteDepartment, Accounts!UserRow, Accounts!Exists,
         AccountsInv, AccountsShape
    <3> QED BY <1>3, <3>2 DEF Accounts!ActiveAdmins, Accounts!SignedIn, Accounts!Exists
  <2>3. ASSUME NEW a \in Officers, NEW p \in Officers, NEW r, NEW d,
               Accounts!CreateAccount(a, p, r, d) \/ Accounts!CreateAsAdmin(a, p, r, d)
        PROVE  FALSE
    <3>1. \A x \in Officers : users[x] # NoRow => users'[x] = users[x]
      BY <1>3, <2>3 DEF Accounts!CreateAccount, Accounts!CreateAsAdmin, Accounts!Created,
         Accounts!Exists, AccountsInv, AccountsShape
    <3> QED BY <1>3, <3>1 DEF Accounts!ActiveAdmins, Accounts!SignedIn, Accounts!Exists
  <2>4. \A w, op, p, row : Accounts!Changing(w, op, p, row) => users' = users
    BY DEF Accounts!Changing, Accounts!RowsUnchanged
  <2>5. \A w, a, p, r :
            (\/ Accounts!ChangeRole(w, a, p, r) \/ Accounts!SetActive(w, a, p, r)
             \/ Accounts!StepDown(w, a, r) \/ Accounts!UpdateUser(w, a, p, r)
             \/ Accounts!ConfirmPromotion(w, a, p)) => users' = users
    <3>1. \A w, a, p, r : Accounts!ChangeRole(w, a, p, r) => users' = users
      BY <2>4 DEF Accounts!ChangeRole
    <3>2. \A w, a, p, r : Accounts!SetActive(w, a, p, r) => users' = users
      BY <2>4 DEF Accounts!SetActive
    <3>3. \A w, a, r : Accounts!StepDown(w, a, r) => users' = users
      BY <2>4 DEF Accounts!StepDown
    <3>4. \A w, a, p, d : Accounts!UpdateUser(w, a, p, d) => users' = users
      BY <2>4 DEF Accounts!UpdateUser
    <3>5. \A w, a, p : Accounts!ConfirmPromotion(w, a, p) => users' = users
      BY <2>4 DEF Accounts!ConfirmPromotion
    <3> QED BY <3>1, <3>2, <3>3, <3>4, <3>5
  <2>6. \A w, a, p : (\/ Accounts!GuessLoad(w, a, p) \/ Accounts!DeleteLoad(w, a, p)
                      \/ Accounts!GuessCommit(w) \/ Accounts!Rollback(w)) => users' = users
    BY DEF Accounts!GuessLoad, Accounts!DeleteLoad, Accounts!GuessCommit, Accounts!Rollback,
       Accounts!RowsUnchanged
  <2>7. \A a, p, d : (\/ Accounts!RequestPromotion(a, p) \/ Accounts!Expire(p)
                      \/ Accounts!Verification(p) \/ Accounts!CreateDepartment(a, d))
                         => users' = users
    BY DEF Accounts!RequestPromotion, Accounts!Expire, Accounts!Verification,
       Accounts!CreateDepartment
  <2>8. Accounts!Next
    BY <1>3, <2>1 DEF Accounts!accountVars
  <2> QED BY <2>1, <2>2, <2>3, <2>5, <2>6, <2>7, <2>8 DEF Accounts!Next
<1>4. ASSUME AccountsInv, NEW w \in Workers,
             Accounts!ChangeCommit(w) \/ Accounts!DeleteCommit(w)
      PROVE  /\ work[w].op \in {"change", "promote", "delete"}
             /\ work'[w] = Accounts!Idle
  BY <1>4 DEF Accounts!ChangeCommit, Accounts!DeleteCommit, Accounts!Overtake
<1> QED BY <1>1, <1>2, <1>3, <1>4 DEF Accounts!KeepsAdministrator

\* On the desk, while it is the part that runs.
LEMMA AccountsRuns ==
    /\ Init /\ part = "accounts" => Accounts!UsersTypeOK /\ Accounts!Init
    /\ [Next]_vars /\ part = "accounts" => part' = "accounts" /\ [Accounts!Next]_<<users, Accounts!accountVars>>
<1>1. Init /\ part = "accounts" => Accounts!UsersTypeOK /\ Accounts!Init
  BY DEF Init
<1>2. ASSUME Next, part = "accounts" PROVE part' = "accounts" /\ Accounts!Next
  BY <1>2 DEF Next
<1>3. ASSUME UNCHANGED vars, part = "accounts"
      PROVE  part' = "accounts" /\ UNCHANGED <<users, Accounts!accountVars>>
  BY <1>3 DEF vars, accountOwn, Accounts!accountVars
<1> QED BY <1>1, <1>2, <1>3

LEMMA AccountsHold == Spec => [](part = "accounts" => AccountsInv)
<1>1. Init => (part = "accounts" => AccountsInv)
  BY AccountsRuns, AccountsInit, RowsAssumption, RolesAssumption
<1>2. (part = "accounts" => AccountsInv) /\ [Next]_vars => (part = "accounts" => AccountsInv)'
  <2> SUFFICES ASSUME part = "accounts" => AccountsInv, [Next]_vars, part' = "accounts"
               PROVE  AccountsInv'
    OBVIOUS
  <2>1. part = "accounts"
    BY DEF Next, vars
  <2> QED BY <2>1, AccountsRuns, AccountsNext, RowsAssumption, RolesAssumption
<1> QED BY <1>1, <1>2, PTL DEF Spec

\* The last administrator who may sign in goes only by a change or a deletion whose handler
\* counted another one, who was taken away before it committed (admin/policies.py:
\* assert_preserves_last_active_admin, read without a lock).
THEOREM AdministratorIsKept == Spec => AdministratorRemains
<1>1. (part = "accounts" => AccountsInv) /\ (part = "accounts" => AccountsInv)' /\ [Next]_vars
        => [part = "accounts" => Accounts!KeepsAdministrator]_vars
  <2>1. ASSUME part = "accounts" => AccountsInv, (part = "accounts" => AccountsInv)',
               [Next]_vars, part = "accounts"
        PROVE  Accounts!KeepsAdministrator
    <3>1. AccountsInv /\ AccountsInv' /\ [Accounts!Next]_<<users, Accounts!accountVars>>
      BY <2>1, AccountsRuns
    <3> QED BY <3>1, AccountsKeepAdministrator, RowsAssumption, RolesAssumption
  <2> QED BY <2>1
<1> QED BY <1>1, AccountsHold, PTL DEF Spec, AdministratorRemains

-----------------------------------------------------------------------------
(* Personal requests *)

RequestsShape ==
    /\ NoRow \notin Requests!LetterRow
    /\ Requests!UsersTypeOK
    /\ request \in [Letters -> Requests!LetterRow \cup {NoRow}]
    /\ work \in [Workers -> Requests!Work]
    /\ DOMAIN attached = Letters /\ DOMAIN told = Letters

\* A handler read the request while it had no answer, and a letter is sent without one.
ReadWhileOpen ==
    \A w \in Workers :
        /\ work[w].op = "submit" =>
              work[w].letter.status = "submitted" /\ ~work[w].letter.dated
        /\ work[w].op = "move" => work[w].seen.status \in {"submitted", "under_review"}
        /\ work[w].op \in {"attach", "remove"} =>
              work[w].seen \in {"submitted", "under_review"}

\* Of a request nobody raced over, what its sender has been told.
AnswerTold ==
    \A q \in Letters :
        /\ request[q] = NoRow => told[q] = <<>>
        /\ request[q] # NoRow /\ q \notin crossed =>
              /\ told[q] = IF request[q].status \in {"resolved", "declined"}
                           THEN <<[status |-> request[q].status, note |-> request[q].note]>>
                           ELSE <<>>
              /\ request[q].dated <=> request[q].status \in {"resolved", "declined"}

RequestsInv == RequestsShape /\ ReadWhileOpen /\ AnswerTold

LEMMA TerminalStatuses ==
    /\ Requests!TERMINAL_STATUSES = {"resolved", "declined", "withdrawn"}
    /\ \A s, target, side : <<s, target, side>> \in Requests!TRANSITIONS =>
          s \in {"submitted", "under_review"}
<1>1. \A s, target, side : <<s, target, side>> \in Requests!TRANSITIONS =>
          s \in {"submitted", "under_review"}
  BY DEF Requests!TRANSITIONS
<1>2. <<"submitted", "resolved", "recipient">> \in Requests!TRANSITIONS
  BY DEF Requests!TRANSITIONS
<1>3. <<"under_review", "resolved", "recipient">> \in Requests!TRANSITIONS
  BY DEF Requests!TRANSITIONS
<1>4. \A t \in Requests!TRANSITIONS : t[1] \in {"submitted", "under_review"}
  BY DEF Requests!TRANSITIONS
<1>5. \A s \in {"submitted", "under_review"} : \E t \in Requests!TRANSITIONS : t[1] = s
  BY <1>2, <1>3
<1> QED BY <1>1, <1>4, <1>5 DEF Requests!TERMINAL_STATUSES, Requests!Status

LEMMA RequestWorkShape ==
    ASSUME RequestsShape, NEW w \in Workers
    PROVE  /\ work[w].op = "submit" => work[w] \in Requests!SubmitWork
           /\ work[w].op = "move" => work[w] \in Requests!MoveWork
           /\ work[w].op \in {"attach", "remove"} => work[w] \in Requests!FileWork
BY DEF RequestsShape, Requests!Work, Requests!Idle, Requests!SubmitWork, Requests!MoveWork,
       Requests!FileWork

LEMMA RequestsInit ==
    ASSUME NoRow \notin Requests!LetterRow, Requests!UsersTypeOK, Requests!Init
    PROVE  RequestsInv
<1>1. RequestsShape
  BY DEF Requests!Init, RequestsShape, Requests!Work
<1>2. \A w \in Workers : work[w].op = "idle"
  BY DEF Requests!Init, Requests!Idle
<1>3. ReadWhileOpen
  BY <1>2 DEF ReadWhileOpen
<1>4. AnswerTold
  BY DEF Requests!Init, AnswerTold
<1> QED BY <1>1, <1>3, <1>4 DEF RequestsInv

\* A handler that reads, or gives up.
LEMMA RequestLookKeeps ==
    ASSUME RequestsInv, UNCHANGED <<users, request, attached, told, crossed>>,
           NEW w \in Workers, NEW t \in Requests!Work, work' = [work EXCEPT ![w] = t],
           t.op = "submit" => t.letter.status = "submitted" /\ ~t.letter.dated,
           t.op = "move" => t.seen.status \in {"submitted", "under_review"},
           t.op \in {"attach", "remove"} => t.seen \in {"submitted", "under_review"}
    PROVE  RequestsInv'
<1>1. RequestsShape'
  BY DEF RequestsInv, RequestsShape, Requests!UsersTypeOK
<1>2. ReadWhileOpen'
  BY DEF RequestsInv, RequestsShape, ReadWhileOpen
<1>3. AnswerTold'
  BY DEF RequestsInv, AnswerTold
<1> QED BY <1>1, <1>2, <1>3 DEF RequestsInv

LEMMA RequestLoadKeeps ==
    ASSUME RequestsInv, NEW w \in Workers,
           \/ \E p, r \in Correspondents : Requests!SubmitLoad(w, p, r)
           \/ \E q \in Letters, p \in Correspondents, s \in Requests!Status, n \in Notes \cup {NoRow} :
                 Requests!MoveLoad(w, q, p, s, n)
           \/ \E q \in Letters, p \in Correspondents, f \in Files :
                 Requests!AttachLoad(w, q, p, f) \/ Requests!RemoveLoad(w, q, p, f)
           \/ Requests!Rollback(w)
    PROVE  RequestsInv'
<1> USE DEF RequestsInv
<1>1. CASE \E p, r \in Correspondents : Requests!SubmitLoad(w, p, r)
  <2>1. PICK p \in Correspondents, r \in Correspondents : Requests!SubmitLoad(w, p, r)
    BY <1>1
  <2> DEFINE letter == [sender |-> p, senderRole |-> users[p].role,
                        recipient |-> r, recipientRole |-> users[r].role,
                        status |-> "submitted", note |-> NoRow,
                        dated |-> FALSE, decidedBy |-> NoRow]
             t == [op |-> "submit", letter |-> letter]
  <2>2. users[p].role \in Requests!Roles /\ users[r].role \in Requests!Roles
    BY <2>1 DEF RequestsShape, Requests!UsersTypeOK, Requests!UserRow, Requests!SubmitLoad,
       Requests!Addressable, Requests!SignedIn, Requests!Exists
  <2>3. letter \in Requests!LetterRow /\ letter.status = "submitted" /\ ~letter.dated
    BY <2>2 DEF Requests!LetterRow, Requests!Status
  <2>4. t \in Requests!Work /\ t.op = "submit"
    BY <2>3 DEF Requests!Work, Requests!SubmitWork
  <2>5. work' = [work EXCEPT ![w] = t] /\ UNCHANGED <<users, request, attached, told, crossed>>
    BY <2>1 DEF Requests!SubmitLoad, Requests!Begin
  <2>6. t.letter = letter
    OBVIOUS
  <2> HIDE DEF letter, t
  <2> QED BY <2>3, <2>4, <2>5, <2>6, RequestLookKeeps
<1>2. CASE \E q \in Letters, p \in Correspondents, s \in Requests!Status, n \in Notes \cup {NoRow} :
              Requests!MoveLoad(w, q, p, s, n)
  <2>1. PICK q \in Letters, p \in Correspondents, s \in Requests!Status, n \in Notes \cup {NoRow} :
            Requests!MoveLoad(w, q, p, s, n)
    BY <1>2
  <2> DEFINE t == [op |-> "move", of |-> q, by |-> p, seen |-> request[q],
                   target |-> s, note |-> n]
  <2>2. request[q] \in Requests!LetterRow
    BY <2>1 DEF RequestsShape, Requests!MoveLoad, Requests!Visible
  <2>3. request[q].status \in {"submitted", "under_review"}
    BY <2>1, TerminalStatuses DEF Requests!MoveLoad, Requests!MayMove
  <2>4. t \in Requests!Work /\ t.op = "move" /\ t.seen = request[q]
    BY <2>2 DEF Requests!Work, Requests!MoveWork
  <2>5. work' = [work EXCEPT ![w] = t] /\ UNCHANGED <<users, request, attached, told, crossed>>
    BY <2>1 DEF Requests!MoveLoad, Requests!Begin
  <2> HIDE DEF t
  <2> QED BY <2>3, <2>4, <2>5, RequestLookKeeps
<1>3. CASE \E q \in Letters, p \in Correspondents, f \in Files :
              Requests!AttachLoad(w, q, p, f) \/ Requests!RemoveLoad(w, q, p, f)
  <2>1. PICK q \in Letters, p \in Correspondents, f \in Files :
            Requests!AttachLoad(w, q, p, f) \/ Requests!RemoveLoad(w, q, p, f)
    BY <1>3
  <2>2. PICK op \in {"attach", "remove"} : \E t :
            /\ t = [op |-> op, of |-> q, file |-> f, seen |-> request[q].status]
            /\ work' = [work EXCEPT ![w] = t]
            /\ UNCHANGED <<users, request, attached, told, crossed>>
    BY <2>1 DEF Requests!AttachLoad, Requests!RemoveLoad, Requests!Begin
  <2> PICK t :
            /\ t = [op |-> op, of |-> q, file |-> f, seen |-> request[q].status]
            /\ work' = [work EXCEPT ![w] = t]
            /\ UNCHANGED <<users, request, attached, told, crossed>>
    BY <2>2
  <2>3. request[q] \in Requests!LetterRow
    BY <2>1 DEF RequestsShape, Requests!AttachLoad, Requests!RemoveLoad, Requests!Visible
  <2>4. request[q].status \in {"submitted", "under_review"}
    <3>1. request[q].status \in Requests!Status
      BY <2>3 DEF Requests!LetterRow
    <3>2. request[q].status \notin Requests!TERMINAL_STATUSES
      BY <2>1 DEF Requests!AttachLoad, Requests!RemoveLoad, Requests!StillOpen
    <3> QED BY <3>1, <3>2, TerminalStatuses DEF Requests!Status
  <2>5. t \in Requests!Work /\ t.op = op /\ t.seen = request[q].status
    BY <2>2, <2>4 DEF Requests!Work, Requests!FileWork, Requests!Status
  <2> QED BY <2>2, <2>4, <2>5, RequestLookKeeps
<1>4. CASE Requests!Rollback(w)
  <2>1. Requests!Idle \in Requests!Work /\ Requests!Idle.op = "idle"
    BY DEF Requests!Work, Requests!Idle
  <2>2. /\ work' = [work EXCEPT ![w] = Requests!Idle]
        /\ UNCHANGED <<users, request, attached, told, crossed>>
    BY <1>4 DEF Requests!Rollback, Requests!End
  <2> QED BY <2>1, <2>2, RequestLookKeeps
<1> QED BY <1>1, <1>2, <1>3, <1>4

LEMMA SubmitKeeps ==
    ASSUME RequestsInv, NEW w \in Workers, Requests!SubmitCommit(w)
    PROVE  RequestsInv'
<1> USE DEF RequestsInv
<1>1. PICK q \in Letters, letter \in Requests!LetterRow :
          /\ letter.status = "submitted" /\ ~letter.dated
          /\ request[q] = NoRow
          /\ request' = [request EXCEPT ![q] = letter]
          /\ work' = [work EXCEPT ![w] = Requests!Idle]
          /\ UNCHANGED <<users, attached, told, crossed>>
  <2>1. work[w].op = "submit" /\ work[w].letter \in Requests!LetterRow
    BY RequestWorkShape DEF Requests!SubmitCommit, Requests!SubmitWork
  <2> QED BY <2>1 DEF Requests!SubmitCommit, Requests!End, ReadWhileOpen
<1>2. RequestsShape'
  BY <1>1 DEF RequestsShape, Requests!UsersTypeOK, Requests!Work
<1>3. ReadWhileOpen'
  BY <1>1 DEF ReadWhileOpen, RequestsShape, Requests!Idle
<1>4. AnswerTold'
  <2>1. \A k \in Letters \ {q} : request'[k] = request[k]
    BY <1>1 DEF RequestsShape
  <2>2. request'[q] = letter /\ letter # NoRow
    BY <1>1 DEF RequestsShape
  <2> QED BY <1>1, <2>1, <2>2 DEF AnswerTold
<1> QED BY <1>2, <1>3, <1>4

\* The row after a move, if nothing but its recipient has changed since it was read.
LEMMA MovedFacts ==
    ASSUME NEW row \in Requests!LetterRow, NEW t \in Requests!MoveWork
    PROVE  /\ Requests!Moved(row, t) \in Requests!LetterRow
           /\ Requests!Moved(row, t).status = t.target
           /\ Requests!Moved(row, t).dated = (t.target \in {"resolved", "declined"} \/ row.dated)
           /\ t.target \in {"resolved", "declined"} /\ row.note = t.seen.note
                 => Requests!Moved(row, t).note = t.note
<1>1. /\ t.target \in Requests!Status /\ t.note \in Notes \cup {NoRow}
      /\ t.by \in Correspondents
  BY DEF Requests!MoveWork
<1>2. Requests!Moved(row, t) \in Requests!LetterRow
  BY <1>1 DEF Requests!Moved, Requests!LetterRow, Requests!DECIDED_STATUSES
<1> QED BY <1>1, <1>2 DEF Requests!Moved, Requests!LetterRow, Requests!DECIDED_STATUSES

LEMMA SameButRecipient ==
    ASSUME NEW a \in Requests!LetterRow, NEW b \in Requests!LetterRow,
           [a EXCEPT !.recipient = NoRow] = [b EXCEPT !.recipient = NoRow]
    PROVE  a.status = b.status /\ a.note = b.note /\ a.dated = b.dated
<1> DEFINE x == [a EXCEPT !.recipient = NoRow]
           y == [b EXCEPT !.recipient = NoRow]
<1>1. x.status = a.status /\ x.note = a.note /\ x.dated = a.dated
  BY DEF Requests!LetterRow
<1>2. y.status = b.status /\ y.note = b.note /\ y.dated = b.dated
  BY DEF Requests!LetterRow
<1> QED BY <1>1, <1>2

\* What a move of handler w does: t is what it held, row what the request is from now on.
MoveDid(w, q, t, row) ==
    /\ t = work[w] /\ t.of = q
    /\ t.seen.status \in {"submitted", "under_review"}
    /\ request[q] \in Requests!LetterRow
    /\ request' = [request EXCEPT ![q] = row]
    /\ row.status = t.target
    /\ row.dated = (t.target \in {"resolved", "declined"} \/ request[q].dated)
    /\ t.target \in {"resolved", "declined"} /\ request[q].note = t.seen.note
          => row.note = t.note
    /\ q \notin crossed' =>
          /\ q \notin crossed
          /\ request[q].status = t.seen.status /\ request[q].note = t.seen.note
    /\ crossed \subseteq crossed' /\ crossed' \subseteq crossed \cup {q}
    /\ told' = IF t.target \in {"resolved", "declined"}
               THEN [told EXCEPT ![q] = Append(@, [status |-> t.target, note |-> t.note])]
               ELSE told
    /\ work' = [work EXCEPT ![w] = Requests!Idle]
    /\ UNCHANGED <<users, attached>>

LEMMA MoveFacts ==
    ASSUME RequestsInv, NEW w \in Workers, Requests!MoveCommit(w)
    PROVE  \E q \in Letters, t \in Requests!MoveWork, row \in Requests!LetterRow :
               MoveDid(w, q, t, row)
<1> USE DEF RequestsInv
<1> DEFINE t == work[w]
           q == work[w].of
           row == Requests!Moved(request[q], t)
<1>1. t \in Requests!MoveWork
  BY RequestWorkShape DEF Requests!MoveCommit
<1>2. q \in Letters /\ t.seen \in Requests!LetterRow
  BY <1>1 DEF Requests!MoveWork
<1>3. t.seen.status \in {"submitted", "under_review"}
  BY DEF Requests!MoveCommit, ReadWhileOpen
<1>4. request[q] \in Requests!LetterRow
  BY <1>2 DEF RequestsShape, Requests!MoveCommit
<1>5. /\ row \in Requests!LetterRow /\ row.status = t.target
      /\ row.dated = (t.target \in {"resolved", "declined"} \/ request[q].dated)
      /\ t.target \in {"resolved", "declined"} /\ request[q].note = t.seen.note
            => row.note = t.note
  BY <1>1, <1>4, MovedFacts
<1>6. /\ request' = [request EXCEPT ![q] = row]
      /\ work' = [work EXCEPT ![w] = Requests!Idle]
      /\ UNCHANGED <<users, attached>>
  BY DEF Requests!MoveCommit, Requests!End
<1>7. told' = IF t.target \in {"resolved", "declined"}
              THEN [told EXCEPT ![q] = Append(@, [status |-> t.target, note |-> t.note])]
              ELSE told
  BY DEF Requests!MoveCommit, Requests!DECIDED_STATUSES
<1>8. crossed' = IF [request[q] EXCEPT !.recipient = NoRow] = [t.seen EXCEPT !.recipient = NoRow]
                 THEN crossed ELSE crossed \cup {q}
  BY DEF Requests!MoveCommit
<1>9. q \notin crossed' =>
          /\ q \notin crossed
          /\ request[q].status = t.seen.status /\ request[q].note = t.seen.note
  BY <1>2, <1>4, <1>8, SameButRecipient
<1>10. crossed \subseteq crossed' /\ crossed' \subseteq crossed \cup {q}
  BY <1>8
<1> HIDE DEF t, q, row
<1>11. q = t.of /\ t = work[w]
  BY DEF q, t
<1>12. MoveDid(w, q, t, row)
  BY <1>3, <1>4, <1>5, <1>6, <1>7, <1>9, <1>10, <1>11 DEF MoveDid
<1> QED BY <1>1, <1>2, <1>5, <1>12

LEMMA MoveKeeps ==
    ASSUME RequestsInv, NEW w \in Workers, Requests!MoveCommit(w)
    PROVE  RequestsInv'
<1>0. PICK q \in Letters, t \in Requests!MoveWork, row \in Requests!LetterRow :
          MoveDid(w, q, t, row)
  BY MoveFacts
<1> USE DEF RequestsInv
<1>1. /\ t.seen.status \in {"submitted", "under_review"}
      /\ request[q] \in Requests!LetterRow
      /\ request' = [request EXCEPT ![q] = row]
      /\ row.status = t.target
      /\ row.dated = (t.target \in {"resolved", "declined"} \/ request[q].dated)
      /\ t.target \in {"resolved", "declined"} /\ request[q].note = t.seen.note
            => row.note = t.note
      /\ q \notin crossed' =>
            /\ q \notin crossed
            /\ request[q].status = t.seen.status /\ request[q].note = t.seen.note
      /\ crossed \subseteq crossed' /\ crossed' \subseteq crossed \cup {q}
      /\ told' = IF t.target \in {"resolved", "declined"}
                 THEN [told EXCEPT ![q] = Append(@, [status |-> t.target, note |-> t.note])]
                 ELSE told
      /\ work' = [work EXCEPT ![w] = Requests!Idle]
      /\ UNCHANGED <<users, attached>>
  BY <1>0 DEF MoveDid
<1>2. RequestsShape'
  BY <1>1 DEF RequestsShape, Requests!UsersTypeOK, Requests!Work
<1>3. ReadWhileOpen'
  BY <1>1 DEF ReadWhileOpen, RequestsShape, Requests!Idle
<1>4. /\ \A k \in Letters \ {q} : /\ request'[k] = request[k] /\ told'[k] = told[k]
                                  /\ k \in crossed' => k \in crossed
      /\ request'[q] = row /\ row # NoRow /\ request[q] # NoRow
      /\ told'[q] = IF t.target \in {"resolved", "declined"}
                    THEN Append(told[q], [status |-> t.target, note |-> t.note]) ELSE told[q]
  BY <1>1 DEF RequestsShape
<1>5. q \notin crossed' =>
          /\ told'[q] = IF row.status \in {"resolved", "declined"}
                        THEN <<[status |-> row.status, note |-> row.note]>> ELSE <<>>
          /\ row.dated <=> row.status \in {"resolved", "declined"}
  <2> SUFFICES ASSUME q \notin crossed'
               PROVE  /\ told'[q] = IF row.status \in {"resolved", "declined"}
                                    THEN <<[status |-> row.status, note |-> row.note]>> ELSE <<>>
                      /\ row.dated <=> row.status \in {"resolved", "declined"}
    OBVIOUS
  <2>1. /\ request[q].status \in {"submitted", "under_review"}
        /\ request[q].note = t.seen.note
        /\ q \notin crossed
    BY <1>1
  <2>2. told[q] = <<>> /\ ~request[q].dated
    BY <1>4, <2>1 DEF AnswerTold
  <2>3. row.dated <=> row.status \in {"resolved", "declined"}
    BY <1>1, <2>2 DEF Requests!LetterRow
  <2>4. CASE t.target \in {"resolved", "declined"}
    <3>1. told'[q] = <<[status |-> t.target, note |-> t.note]>>
      BY <1>4, <2>2, <2>4
    <3>2. row.status = t.target /\ row.note = t.note
      BY <1>1, <2>1, <2>4
    <3> QED BY <2>3, <2>4, <3>1, <3>2
  <2>5. CASE t.target \notin {"resolved", "declined"}
    BY <1>1, <1>4, <2>2, <2>3, <2>5
  <2> QED BY <2>4, <2>5
<1>6. AnswerTold'
  <2> SUFFICES ASSUME NEW k \in Letters
               PROVE  /\ request'[k] = NoRow => told'[k] = <<>>
                      /\ request'[k] # NoRow /\ k \notin crossed' =>
                           /\ told'[k] = IF request'[k].status \in {"resolved", "declined"}
                                         THEN <<[status |-> request'[k].status,
                                                 note |-> request'[k].note]>> ELSE <<>>
                           /\ request'[k].dated <=> request'[k].status \in {"resolved", "declined"}
    BY DEF AnswerTold
  <2>1. CASE k = q
    BY <1>4, <1>5, <2>1
  <2>2. CASE k # q
    <3>1. request'[k] = request[k] /\ told'[k] = told[k] /\ (k \notin crossed' => k \notin crossed)
      BY <1>1, <1>4, <2>2
    <3> QED BY <3>1 DEF AnswerTold
  <2> QED BY <2>1, <2>2
<1> QED BY <1>2, <1>3, <1>6

LEMMA FileKeeps ==
    ASSUME RequestsInv, NEW w \in Workers, Requests!FileCommit(w)
    PROVE  RequestsInv'
<1> USE DEF RequestsInv
<1>1. /\ UNCHANGED <<users, request, told>>
      /\ crossed \subseteq crossed'
      /\ work' = [work EXCEPT ![w] = Requests!Idle]
      /\ DOMAIN attached' = DOMAIN attached
  BY DEF Requests!FileCommit, Requests!End
<1>2. RequestsShape'
  BY <1>1 DEF RequestsShape, Requests!UsersTypeOK, Requests!Work
<1>3. ReadWhileOpen'
  BY <1>1 DEF ReadWhileOpen, RequestsShape, Requests!Idle
<1>4. AnswerTold'
  BY <1>1 DEF AnswerTold
<1> QED BY <1>2, <1>3, <1>4

\* The foreign keys touch neither the status of a row that stays, nor its note or its date.
LEMMA RequestAccountFacts ==
    ASSUME RequestsInv, NEW p \in Correspondents, Requests!AccountDeleted(p)
    PROVE  /\ request' \in [Letters -> Requests!LetterRow \cup {NoRow}]
           /\ \A q \in Letters :
                 \/ request'[q] = NoRow /\ told'[q] = <<>>
                 \/ /\ request[q] # NoRow /\ request'[q] # NoRow
                    /\ request'[q].status = request[q].status
                    /\ request'[q].note = request[q].note
                    /\ request'[q].dated = request[q].dated
                    /\ told'[q] = told[q] /\ attached'[q] = attached[q]
<1> DEFINE gone(q) == request[q] # NoRow /\ request[q].sender = p
           unnamed(x) == IF x = p THEN NoRow ELSE x
<1>1. /\ request' = [q \in Letters |->
            IF request[q] = NoRow \/ gone(q) THEN NoRow
            ELSE [request[q] EXCEPT !.recipient = unnamed(@), !.decidedBy = unnamed(@)]]
      /\ attached' = [q \in Letters |-> IF gone(q) THEN {} ELSE attached[q]]
      /\ told' = [q \in Letters |-> IF gone(q) THEN <<>> ELSE told[q]]
  BY DEF Requests!AccountDeleted
<1>2. ASSUME NEW row \in Requests!LetterRow
      PROVE  LET new == [row EXCEPT !.recipient = unnamed(@), !.decidedBy = unnamed(@)] IN
             /\ new \in Requests!LetterRow
             /\ new.status = row.status /\ new.note = row.note /\ new.dated = row.dated
  <2>1. ASSUME NEW x \in Correspondents \cup {NoRow}, NEW y \in Correspondents \cup {NoRow}
        PROVE  LET new == [row EXCEPT !.recipient = x, !.decidedBy = y] IN
               /\ new \in Requests!LetterRow
               /\ new.status = row.status /\ new.note = row.note /\ new.dated = row.dated
    BY DEF Requests!LetterRow
  <2>2. /\ row.recipient \in Correspondents \cup {NoRow}
        /\ row.decidedBy \in Correspondents \cup {NoRow}
    BY DEF Requests!LetterRow
  <2>3. /\ unnamed(row.recipient) \in Correspondents \cup {NoRow}
        /\ unnamed(row.decidedBy) \in Correspondents \cup {NoRow}
    BY <2>2
  <2> HIDE DEF unnamed
  <2> QED BY <2>1, <2>3
<1>3. \A q \in Letters : request[q] # NoRow => request[q] \in Requests!LetterRow
  BY DEF RequestsInv, RequestsShape
<1>4. NoRow \notin Requests!LetterRow
  BY DEF RequestsInv, RequestsShape
<1>5. \A q \in Letters : request[q] = NoRow => told[q] = <<>>
  BY DEF RequestsInv, AnswerTold
<1> HIDE DEF unnamed
<1>6. ASSUME NEW q \in Letters, request[q] = NoRow \/ gone(q)
      PROVE  request'[q] = NoRow /\ told'[q] = <<>>
  BY <1>1, <1>5, <1>6
<1>7. ASSUME NEW q \in Letters, ~(request[q] = NoRow \/ gone(q))
      PROVE  /\ request[q] # NoRow /\ request'[q] \in Requests!LetterRow
             /\ request'[q].status = request[q].status
             /\ request'[q].note = request[q].note
             /\ request'[q].dated = request[q].dated
             /\ told'[q] = told[q] /\ attached'[q] = attached[q]
  <2>1. /\ request[q] \in Requests!LetterRow /\ ~gone(q)
        /\ request'[q] = [request[q] EXCEPT !.recipient = unnamed(@), !.decidedBy = unnamed(@)]
        /\ told'[q] = told[q] /\ attached'[q] = attached[q]
    BY <1>1, <1>3, <1>7
  <2> HIDE DEF gone
  <2> QED BY <2>1, <1>2, <1>7
<1> HIDE DEF gone
<1>8. DOMAIN request' = Letters
  BY <1>1
<1> QED BY <1>1, <1>4, <1>6, <1>7

LEMMA RequestAccountKeeps ==
    ASSUME RequestsInv, NEW p \in Correspondents, Requests!AccountDeleted(p)
    PROVE  RequestsInv'
<1> USE DEF RequestsInv
<1>1. /\ users' = [users EXCEPT ![p] = NoRow] /\ UNCHANGED <<work, crossed>>
      /\ DOMAIN attached' = Letters /\ DOMAIN told' = Letters
  BY DEF Requests!AccountDeleted
<1>0. /\ request' \in [Letters -> Requests!LetterRow \cup {NoRow}]
      /\ \A q \in Letters :
            \/ request'[q] = NoRow /\ told'[q] = <<>>
            \/ /\ request[q] # NoRow /\ request'[q] # NoRow
               /\ request'[q].status = request[q].status
               /\ request'[q].note = request[q].note
               /\ request'[q].dated = request[q].dated
               /\ told'[q] = told[q] /\ attached'[q] = attached[q]
  BY RequestAccountFacts
<1>2. RequestsShape'
  BY <1>0, <1>1 DEF RequestsShape, Requests!UsersTypeOK
<1>3. ReadWhileOpen'
  BY <1>1 DEF ReadWhileOpen
<1>4. AnswerTold'
  <2>1. ASSUME NEW q \in Letters, request'[q] # NoRow, q \notin crossed'
        PROVE  /\ told'[q] = IF request'[q].status \in {"resolved", "declined"}
                             THEN <<[status |-> request'[q].status, note |-> request'[q].note]>>
                             ELSE <<>>
               /\ request'[q].dated <=> request'[q].status \in {"resolved", "declined"}
    <3>1. /\ request[q] # NoRow /\ q \notin crossed
          /\ request'[q].status = request[q].status
          /\ request'[q].note = request[q].note
          /\ request'[q].dated = request[q].dated
          /\ told'[q] = told[q]
      BY <1>0, <1>1, <2>1
    <3> QED BY <3>1 DEF AnswerTold
  <2>2. ASSUME NEW q \in Letters, request'[q] = NoRow PROVE told'[q] = <<>>
    BY <1>0, <2>2
  <2> QED BY <2>1, <2>2 DEF AnswerTold
<1> QED BY <1>2, <1>3, <1>4

LEMMA RequestsNext ==
    ASSUME RequestsInv, [Requests!Next]_<<users, Requests!requestVars>>
    PROVE  RequestsInv'
<1>1. CASE UNCHANGED <<users, Requests!requestVars>>
  BY <1>1 DEF Requests!requestVars, RequestsInv, RequestsShape, ReadWhileOpen, AnswerTold,
     Requests!UsersTypeOK
<1> QED BY <1>1, RequestLoadKeeps, SubmitKeeps, MoveKeeps, FileKeeps, RequestAccountKeeps
    DEF Requests!Next

\* On the desk, while it is the part that runs.
LEMMA RequestsRuns ==
    /\ Init /\ part = "requests" => Requests!UsersTypeOK /\ Requests!Init
    /\ [Next]_vars /\ part = "requests" => part' = "requests" /\ [Requests!Next]_<<users, Requests!requestVars>>
<1>1. Init /\ part = "requests" => Requests!UsersTypeOK /\ Requests!Init
  BY DEF Init
<1>2. ASSUME Next, part = "requests" PROVE part' = "requests" /\ Requests!Next
  BY <1>2 DEF Next
<1>3. ASSUME UNCHANGED vars, part = "requests"
      PROVE  part' = "requests" /\ UNCHANGED <<users, Requests!requestVars>>
  BY <1>3 DEF vars, requestOwn, Requests!requestVars
<1> QED BY <1>1, <1>2, <1>3

LEMMA RequestsHold == Spec => [](part = "requests" => RequestsInv)
<1>1. Init => (part = "requests" => RequestsInv)
  BY RequestsRuns, RequestsInit, RowsAssumption
<1>2. (part = "requests" => RequestsInv) /\ [Next]_vars => (part = "requests" => RequestsInv)'
  <2> SUFFICES ASSUME part = "requests" => RequestsInv, [Next]_vars, part' = "requests"
               PROVE  RequestsInv'
    OBVIOUS
  <2>1. part = "requests"
    BY DEF Next, vars
  <2> QED BY <2>1, RequestsRuns, RequestsNext, RowsAssumption
<1> QED BY <1>1, <1>2, PTL DEF Spec

\* The sender of a request that no two handlers raced over has been told exactly the answer
\* on the record, and the recipient's badge counts what still waits (requests/service.py).
THEOREM SenderIsToldTheAnswer == Spec => []ToldIsTheAnswer
<1>1. RequestsInv => Requests!ToldIsTheAnswer
  <2> SUFFICES ASSUME RequestsInv, NEW q \in Letters, request[q] # NoRow, q \notin crossed
               PROVE  LET row == request[q] IN
                      /\ told[q] = IF row.status \in Requests!DECIDED_STATUSES
                                   THEN <<[status |-> row.status, note |-> row.note]>>
                                   ELSE <<>>
                      /\ row.dated <=> row.status \in Requests!DECIDED_STATUSES
                      /\ row.recipient # NoRow =>
                            (q \in Requests!Waiting(row.recipient)
                               <=> told[q] = <<>> /\ row.status # "withdrawn")
    BY DEF Requests!ToldIsTheAnswer
  <2>1. request[q].status \in Requests!Status
    BY DEF RequestsInv, RequestsShape, Requests!LetterRow
  <2>2. /\ told[q] = IF request[q].status \in {"resolved", "declined"}
                     THEN <<[status |-> request[q].status, note |-> request[q].note]>>
                     ELSE <<>>
        /\ request[q].dated <=> request[q].status \in {"resolved", "declined"}
    BY DEF RequestsInv, AnswerTold
  <2>3. q \in Requests!Waiting(request[q].recipient)
            <=> request[q].status \in {"submitted", "under_review"}
    BY DEF Requests!Waiting
  <2>4. told[q] = <<>> <=> request[q].status \notin {"resolved", "declined"}
    <3>1. \A x : <<x>> # <<>>
      OBVIOUS
    <3> QED BY <2>2, <3>1
  <2> QED BY <2>1, <2>2, <2>3, <2>4 DEF Requests!DECIDED_STATUSES, Requests!Status
<1>2. (part = "requests" => RequestsInv) => ToldIsTheAnswer
  BY <1>1 DEF ToldIsTheAnswer
<1> QED BY <1>2, RequestsHold, PTL

\* Once it is answered or withdrawn, a request keeps its status, its reason and its files,
\* unless a handler that read it before commits after (requests/service.py).
THEOREM AnswerStays == Spec => AnswerIsFinal
<1>1. ASSUME RequestsInv, [Requests!Next]_<<users, Requests!requestVars>>,
             NEW q \in Letters, request[q] # NoRow, request'[q] # NoRow, q \notin crossed',
             request[q].status \in Requests!TERMINAL_STATUSES
      PROVE  /\ request'[q].status = request[q].status
             /\ request'[q].note = request[q].note
             /\ attached'[q] = attached[q]
  <2>0. request[q].status \notin {"submitted", "under_review"}
    BY <1>1, TerminalStatuses
  <2>1. CASE UNCHANGED <<request, attached>>
    BY <2>1
  <2>2. CASE \E w \in Workers : Requests!SubmitCommit(w)
    <3>1. attached' = attached /\ request'[q] = request[q]
      BY <1>1, <2>2 DEF Requests!SubmitCommit, RequestsInv, RequestsShape
    <3> QED BY <3>1
  <2>3. CASE \E w \in Workers : Requests!MoveCommit(w)
    <3>1. PICK k, row : k \in Letters /\ \E w, t : MoveDid(w, k, t, row)
      BY <1>1, <2>3, MoveFacts
    <3>3. /\ request' = [request EXCEPT ![k] = row]
          /\ k \notin crossed' => request[k].status \in {"submitted", "under_review"}
          /\ attached' = attached
      BY <3>1 DEF MoveDid
    <3>2. k # q
      BY <1>1, <2>0, <3>3
    <3> QED BY <1>1, <3>3, <3>2 DEF RequestsInv, RequestsShape
  <2>4. CASE \E w \in Workers : Requests!FileCommit(w)
    <3>1. PICK w \in Workers : Requests!FileCommit(w)
      BY <2>4
    <3>2. request' = request /\ work[w].seen \in {"submitted", "under_review"}
      BY <1>1, <3>1 DEF Requests!FileCommit, RequestsInv, ReadWhileOpen
    <3>3. work[w].of # q
      BY <1>1, <2>0, <3>1, <3>2 DEF Requests!FileCommit
    <3>4. attached'[q] = attached[q]
      BY <1>1, <3>1, <3>3 DEF Requests!FileCommit, RequestsInv, RequestsShape
    <3> QED BY <3>2, <3>4
  <2>5. CASE \E p \in Correspondents : Requests!AccountDeleted(p)
    BY <1>1, <2>5, RequestAccountFacts
  <2>6. ASSUME NEW w \in Workers,
               \/ \E p, r \in Correspondents : Requests!SubmitLoad(w, p, r)
               \/ \E k \in Letters, p \in Correspondents, s \in Requests!Status,
                     n \in Notes \cup {NoRow} : Requests!MoveLoad(w, k, p, s, n)
               \/ \E k \in Letters, p \in Correspondents, f \in Files :
                     Requests!AttachLoad(w, k, p, f) \/ Requests!RemoveLoad(w, k, p, f)
               \/ Requests!Rollback(w)
        PROVE  UNCHANGED <<request, attached>>
    BY <2>6 DEF Requests!SubmitLoad, Requests!MoveLoad, Requests!AttachLoad,
       Requests!RemoveLoad, Requests!Rollback
  <2>7. CASE UNCHANGED <<users, Requests!requestVars>>
    BY <2>1, <2>7 DEF Requests!requestVars
  <2>8. CASE Requests!Next
    BY <2>1, <2>2, <2>3, <2>4, <2>5, <2>6, <2>8 DEF Requests!Next
  <2> QED BY <1>1, <2>7, <2>8
<1>2. (part = "requests" => RequestsInv) /\ [Next]_vars
        => [part = "requests" => Requests!KeepsAnswers]_vars
  BY <1>1, RequestsRuns DEF Requests!KeepsAnswers
<1> QED BY <1>2, RequestsHold, PTL DEF Spec, AnswerIsFinal

-----------------------------------------------------------------------------
(* The notice board *)

BoardShape ==
    /\ NoRow \notin Board!NoticeRow
    /\ Board!UsersTypeOK
    /\ notice \in [Notices -> Board!NoticeRow \cup {NoRow}]
    /\ DOMAIN text = Notices /\ DOMAIN documents = Notices
    /\ opened \in [Notices -> SUBSET Readers]
    /\ work \in [Workers -> Board!Work]

IsDraft(n) == notice[n] # NoRow /\ notice[n].status = "draft"

\* A handler's notice has been written, and was at a stage its policy lets through.
BoardWork ==
    \A w \in Workers :
        LET t == work[w] IN
        /\ t # Board!Idle => t.of \in written
        /\ t.op \in {"edit", "publish"} => t.seen = "draft"
        /\ t.op = "withdraw" => t.seen = "published"
        /\ t.op = "delete" => t.seen \in {"draft", "withdrawn"}
        \* A draft is read by its author alone.
        /\ t.op = "read" /\ IsDraft(t.of) =>
              t.by = notice[t.of].by \/ ~Board!Exists(t.by)

BoardRows ==
    \A n \in Notices :
        /\ notice[n] # NoRow => n \in written
        /\ n \notin written => opened[n] = {}
        /\ IsDraft(n) => opened[n] \subseteq {notice[n].by}
        /\ notice[n] # NoRow /\ n \notin crossed /\ notice[n].status # "draft"
              => notice[n].dated

BoardInv == BoardShape /\ BoardWork /\ BoardRows

LEMMA BoardInit ==
    ASSUME NoRow \notin Board!NoticeRow, Board!UsersTypeOK, Board!Init
    PROVE  BoardInv
<1>1. BoardShape
  BY DEF Board!Init, BoardShape, Board!Work
<1>2. \A w \in Workers : work[w] = Board!Idle /\ work[w].op = "idle"
  BY DEF Board!Init, Board!Idle
<1>3. BoardWork
  BY <1>2 DEF BoardWork
<1>4. BoardRows
  BY DEF Board!Init, BoardRows, IsDraft
<1> QED BY <1>1, <1>3, <1>4 DEF BoardInv

\* A handler that looks, or gives up.
LEMMA BoardLookKeeps ==
    ASSUME BoardInv, UNCHANGED <<users, notice, text, documents, opened, written, crossed>>,
           NEW w \in Workers, NEW t \in Board!Work, work' = [work EXCEPT ![w] = t],
           t # Board!Idle => t.of \in written,
           t.op \in {"edit", "publish"} => t.seen = "draft",
           t.op = "withdraw" => t.seen = "published",
           t.op = "delete" => t.seen \in {"draft", "withdrawn"},
           t.op = "read" /\ IsDraft(t.of) => t.by = notice[t.of].by
    PROVE  BoardInv'
<1> USE DEF BoardInv
<1>1. BoardShape'
  BY DEF BoardShape, Board!UsersTypeOK
<1>2. BoardRows'
  BY DEF BoardRows, IsDraft
<1>3. BoardWork'
  <2>1. \A v \in Workers : work'[v] = IF v = w THEN t ELSE work[v]
    BY DEF BoardShape
  <2>2. \A n, p : /\ IsDraft(n)' = IsDraft(n) /\ notice'[n] = notice[n]
                  /\ Board!Exists(p)' = Board!Exists(p)
    BY DEF IsDraft, Board!Exists
  <2> QED BY <2>1, <2>2 DEF BoardWork, Board!Idle
<1> QED BY <1>1, <1>2, <1>3

LEMMA BoardLoadKeeps ==
    ASSUME BoardInv, NEW w \in Workers, NEW n \in Notices, NEW p \in Readers,
           \/ Board!EditLoad(w, n, p) \/ Board!PublishLoad(w, n, p)
           \/ Board!WithdrawLoad(w, n, p) \/ Board!DeleteLoad(w, n, p)
           \/ Board!ReadLoad(w, n, p)
           \/ \E d \in Documents : Board!AttachLoad(w, n, p, d) \/ Board!RemoveLoad(w, n, p, d)
    PROVE  BoardInv'
<1> USE DEF BoardInv
<1>1. /\ UNCHANGED <<users, notice, text, documents, opened, written, crossed>>
      /\ Board!Visible(n, p) /\ notice[n] # NoRow
  BY DEF Board!EditLoad, Board!PublishLoad, Board!WithdrawLoad, Board!DeleteLoad,
     Board!ReadLoad, Board!AttachLoad, Board!RemoveLoad, Board!RowsUnchanged, Board!Visible
<1>2. n \in written /\ notice[n].status \in Board!AnnouncementStatus
  BY <1>1 DEF BoardRows, BoardShape, Board!NoticeRow
<1>3. CASE \/ Board!EditLoad(w, n, p) \/ Board!PublishLoad(w, n, p)
           \/ Board!WithdrawLoad(w, n, p) \/ Board!DeleteLoad(w, n, p)
  <2>0. PICK op \in {"edit", "publish", "withdraw", "delete"} : \E t :
            /\ t = [op |-> op, of |-> n, seen |-> notice[n].status]
            /\ work' = [work EXCEPT ![w] = t]
            /\ op \in {"edit", "publish"} => notice[n].status = "draft"
            /\ op = "withdraw" => notice[n].status = "published"
            /\ op = "delete" => notice[n].status \in {"draft", "withdrawn"}
    BY <1>3 DEF Board!EditLoad, Board!PublishLoad, Board!WithdrawLoad, Board!DeleteLoad,
       Board!Begin, Board!MayEdit, Board!MayPublish, Board!MayWithdraw, Board!MayDelete
  <2>1. PICK t :
            /\ t = [op |-> op, of |-> n, seen |-> notice[n].status]
            /\ work' = [work EXCEPT ![w] = t]
            /\ op \in {"edit", "publish"} => notice[n].status = "draft"
            /\ op = "withdraw" => notice[n].status = "published"
            /\ op = "delete" => notice[n].status \in {"draft", "withdrawn"}
    BY <2>0
  <2>2. t \in Board!Work /\ t.op = op /\ t.of = n /\ t.seen = notice[n].status
    BY <1>2, <2>1 DEF Board!Work
  <2> QED BY <1>1, <1>2, <2>1, <2>2, BoardLookKeeps
<1>4. CASE Board!ReadLoad(w, n, p)
  <2>1. PICK t : /\ t = [op |-> "read", of |-> n, by |-> p]
                 /\ work' = [work EXCEPT ![w] = t]
    BY <1>4 DEF Board!ReadLoad, Board!Begin
  <2>2. t \in Board!Work /\ t.op = "read" /\ t.of = n /\ t.by = p
    BY <2>1 DEF Board!Work
  <2>3. IsDraft(n) => p = notice[n].by
    BY <1>1 DEF IsDraft, Board!Visible, Board!Addressed
  <2> QED BY <1>1, <1>2, <2>1, <2>2, <2>3, BoardLookKeeps
<1>5. CASE \E d \in Documents : Board!AttachLoad(w, n, p, d) \/ Board!RemoveLoad(w, n, p, d)
  <2>0. PICK op \in {"attach", "remove"}, d \in Documents :
            work' = [work EXCEPT ![w] = [op |-> op, of |-> n, document |-> d]]
    BY <1>5 DEF Board!AttachLoad, Board!RemoveLoad, Board!Begin
  <2>1. PICK t : t = [op |-> op, of |-> n, document |-> d] /\ work' = [work EXCEPT ![w] = t]
    BY <2>0
  <2>2. t \in Board!Work /\ t.op = op /\ t.of = n
    BY <2>1 DEF Board!Work
  <2> QED BY <1>1, <1>2, <2>1, <2>2, BoardLookKeeps
<1> QED BY <1>3, <1>4, <1>5

LEMMA BoardRollbackKeeps ==
    ASSUME BoardInv, NEW w \in Workers, Board!Rollback(w)
    PROVE  BoardInv'
<1>1. /\ UNCHANGED <<users, notice, text, documents, opened, written, crossed>>
      /\ work' = [work EXCEPT ![w] = Board!Idle]
  BY DEF Board!Rollback, Board!End, Board!RowsUnchanged
<1>2. Board!Idle \in Board!Work /\ Board!Idle.op = "idle"
  BY DEF Board!Work, Board!Idle
<1> QED BY <1>1, <1>2, BoardLookKeeps

LEMMA BoardCreateKeeps ==
    ASSUME BoardInv, NEW p \in Readers, NEW n \in Notices, Board!Create(p, n)
    PROVE  BoardInv'
<1> USE DEF BoardInv
<1>1. PICK row : /\ row = [audience |-> Board!Reach(p).audience,
                           department |-> Board!Reach(p).department, by |-> p,
                           byRole |-> users[p].role, status |-> "draft", dated |-> FALSE]
                 /\ notice' = [notice EXCEPT ![n] = row]
                 /\ n \notin written /\ written' = written \cup {n}
                 /\ UNCHANGED <<users, text, documents, opened, work, crossed>>
  BY DEF Board!Create
<1>2. row \in Board!NoticeRow /\ row.status = "draft" /\ row.by = p
  <2>1. users[p] \in Board!UserRow
    BY DEF Board!Create, Board!May, Board!SignedIn, Board!Exists, BoardShape,
       Board!UsersTypeOK
  <2>2. /\ Board!Reach(p).audience \in {"institution", "department"}
        /\ Board!Reach(p).department \in Departments \cup {NoRow}
    BY <2>1 DEF Board!Reach, Board!UserRow
  <2> QED BY <1>1, <2>1, <2>2 DEF Board!NoticeRow, Board!UserRow, Board!AnnouncementStatus
<1>3. /\ \A m \in Notices : notice'[m] = IF m = n THEN row ELSE notice[m]
      /\ row # NoRow
  BY <1>1, <1>2 DEF BoardShape
<1>4. BoardShape'
  BY <1>1, <1>2 DEF BoardShape, Board!UsersTypeOK
<1>5. BoardRows'
  BY <1>1, <1>2, <1>3 DEF BoardRows, IsDraft
<1>6. BoardWork'
  <2>1. \A w \in Workers : work[w].op = "read" =>
            work[w].of \in Notices /\ work[w].of # n
    BY <1>1 DEF BoardShape, BoardWork, Board!Work, Board!Idle
  <2>2. \A m \in Notices \ {n} : notice'[m] = notice[m] /\ IsDraft(m)' = IsDraft(m)
    BY <1>3 DEF IsDraft
  <2>3. \A q : Board!Exists(q)' = Board!Exists(q)
    BY <1>1 DEF Board!Exists
  <2> QED BY <1>1, <2>1, <2>2, <2>3 DEF BoardWork
<1> QED BY <1>4, <1>5, <1>6

\* A handler that ends, whatever it wrote: those under way are as they were.
LEMMA BoardEndKeeps ==
    ASSUME BoardInv, NEW w \in Workers, Board!End(w), BoardShape',
           \A n \in Notices : IsDraft(n)' => IsDraft(n) /\ notice'[n].by = notice[n].by,
           written' = written, users' = users
    PROVE  BoardWork'
<1> USE DEF BoardInv
<1>1. \A v \in Workers : work'[v] = IF v = w THEN Board!Idle ELSE work[v]
  BY DEF Board!End, BoardShape
<1>2. \A p : Board!Exists(p)' = Board!Exists(p)
  BY DEF Board!Exists
<1>3. \A v \in Workers : work[v].op = "read" => work[v].of \in Notices
  BY DEF BoardShape, Board!Work, Board!Idle
<1> QED BY <1>1, <1>2, <1>3 DEF BoardWork, Board!Idle

LEMMA BoardHolds ==
    ASSUME BoardInv, NEW w \in Workers, work[w] # Board!Idle, notice[work[w].of] # NoRow
    PROVE  /\ work[w].of \in Notices /\ work[w].of \in written
           /\ notice[work[w].of] \in Board!NoticeRow
BY DEF BoardInv, BoardShape, BoardWork, Board!Work, Board!Idle

\* What edits, documents and receipts have in common: the rows stay.
LEMMA BoardTextKeeps ==
    ASSUME BoardInv, NEW w \in Workers,
           Board!EditCommit(w) \/ Board!DocumentCommit(w)
    PROVE  BoardInv'
<1> USE DEF BoardInv
<1>1. /\ UNCHANGED <<users, notice, opened, written>> /\ Board!End(w)
      /\ crossed \subseteq crossed'
  BY DEF Board!EditCommit, Board!DocumentCommit, Board!Overtaken
<1>2. DOMAIN text' = Notices /\ DOMAIN documents' = Notices
  BY DEF Board!EditCommit, Board!DocumentCommit, BoardShape
<1>3. work' \in [Workers -> Board!Work]
  BY <1>1 DEF Board!End, BoardShape, Board!Work
<1>4. BoardShape'
  BY <1>1, <1>2, <1>3 DEF BoardShape, Board!UsersTypeOK
<1>5. BoardRows'
  BY <1>1 DEF BoardRows, IsDraft
<1>6. BoardWork'
  BY <1>1, <1>4, BoardEndKeeps DEF IsDraft
<1> QED BY <1>4, <1>5, <1>6

\* A notice that goes up or is taken down.
BoardStatusDid(w, n, row) ==
    /\ n \in Notices /\ n \in written /\ notice[n] \in Board!NoticeRow
    /\ row \in Board!NoticeRow /\ row.by = notice[n].by
    /\ row.status \in {"published", "withdrawn"}
    /\ notice' = [notice EXCEPT ![n] = row]
    /\ n \notin crossed' => n \notin crossed /\ row.dated
    /\ crossed \subseteq crossed'
    /\ UNCHANGED <<users, text, documents, opened, written>> /\ Board!End(w)

LEMMA BoardStatusFacts ==
    ASSUME BoardInv, NEW w \in Workers,
           Board!PublishCommit(w) \/ Board!WithdrawCommit(w)
    PROVE  \E n, row : BoardStatusDid(w, n, row)
<1> USE DEF BoardInv
<1>0. work[w].op \in {"publish", "withdraw"} /\ notice[work[w].of] # NoRow
  BY DEF Board!PublishCommit, Board!WithdrawCommit, Board!Holds
<1>1. work[w] # Board!Idle
  BY <1>0 DEF Board!Idle
<1>2. PICK n : n = work[w].of
  OBVIOUS
<1>3. /\ n \in Notices /\ n \in written /\ notice[n] \in Board!NoticeRow
  BY <1>0, <1>1, <1>2, BoardHolds
<1>4. /\ notice[n].status # work[w].seen => n \in crossed'
      /\ crossed \subseteq crossed'
      /\ UNCHANGED <<users, text, documents, opened, written>> /\ Board!End(w)
  BY <1>2 DEF Board!PublishCommit, Board!WithdrawCommit, Board!Overtaken
<1>5. CASE Board!PublishCommit(w)
  <2>1. PICK row : row = [notice[n] EXCEPT !.status = "published", !.dated = TRUE]
    OBVIOUS
  <2>2. /\ row \in Board!NoticeRow /\ row.by = notice[n].by
        /\ row.status = "published" /\ row.dated
    BY <1>3, <2>1 DEF Board!NoticeRow, Board!AnnouncementStatus
  <2>3. notice' = [notice EXCEPT ![n] = row]
    BY <1>2, <1>3, <1>5, <2>1 DEF Board!PublishCommit, BoardShape
  <2> QED BY <1>3, <1>4, <2>2, <2>3 DEF BoardStatusDid
<1>6. CASE Board!WithdrawCommit(w)
  <2>1. PICK row : row = [notice[n] EXCEPT !.status = "withdrawn"]
    OBVIOUS
  <2>2. /\ row \in Board!NoticeRow /\ row.by = notice[n].by
        /\ row.status = "withdrawn" /\ row.dated = notice[n].dated
    BY <1>3, <2>1 DEF Board!NoticeRow, Board!AnnouncementStatus
  <2>3. notice' = [notice EXCEPT ![n] = row]
    BY <1>2, <1>3, <1>6, <2>1 DEF Board!WithdrawCommit, BoardShape
  <2>4. work[w].seen = "published"
    BY <1>6 DEF Board!WithdrawCommit, Board!Holds, BoardWork
  <2>5. n \notin crossed' => notice[n].dated
    BY <1>3, <1>4, <2>4 DEF BoardRows, BoardShape
  <2> QED BY <1>3, <1>4, <2>2, <2>3, <2>5 DEF BoardStatusDid
<1> QED BY <1>5, <1>6

LEMMA BoardStatusKeeps ==
    ASSUME BoardInv, NEW w \in Workers,
           Board!PublishCommit(w) \/ Board!WithdrawCommit(w)
    PROVE  BoardInv'
<1> USE DEF BoardInv
<1>1. PICK n, row : BoardStatusDid(w, n, row)
  BY BoardStatusFacts
<1>2. \A m \in Notices : notice'[m] = IF m = n THEN row ELSE notice[m]
  BY <1>1 DEF BoardStatusDid, BoardShape
<1>3. BoardShape'
  BY <1>1 DEF BoardStatusDid, BoardShape, Board!UsersTypeOK, Board!End, Board!Work
<1>4. \A m \in Notices : /\ IsDraft(m)' => IsDraft(m) /\ m # n
                         /\ m # n => notice'[m] = notice[m]
  BY <1>1, <1>2 DEF BoardStatusDid, IsDraft
<1>5. BoardRows'
  BY <1>1, <1>2, <1>4 DEF BoardStatusDid, BoardRows, IsDraft
<1>6. BoardWork'
  BY <1>1, <1>3, <1>4, BoardEndKeeps DEF BoardStatusDid
<1> QED BY <1>3, <1>5, <1>6

LEMMA BoardDeleteKeeps ==
    ASSUME BoardInv, NEW w \in Workers, Board!DeleteCommit(w)
    PROVE  BoardInv'
<1> USE DEF BoardInv
<1>1. PICK n : n = work[w].of
  OBVIOUS
<1>2. n \in Notices /\ n \in written
  BY <1>1, BoardHolds DEF Board!DeleteCommit, Board!Holds, Board!Idle
<1>3. /\ notice' = [notice EXCEPT ![n] = NoRow]
      /\ documents' = [documents EXCEPT ![n] = {}]
      /\ opened' = [opened EXCEPT ![n] = {}]
      /\ crossed \subseteq crossed' /\ Board!End(w)
      /\ UNCHANGED <<users, text, written>>
  BY <1>1 DEF Board!DeleteCommit, Board!Overtaken
<1>4. \A m \in Notices : /\ notice'[m] = IF m = n THEN NoRow ELSE notice[m]
                         /\ opened'[m] = IF m = n THEN {} ELSE opened[m]
  BY <1>3 DEF BoardShape
<1>5. BoardShape'
  BY <1>3 DEF BoardShape, Board!UsersTypeOK, Board!End, Board!Work
<1>6. BoardRows'
  BY <1>2, <1>3, <1>4 DEF BoardRows, IsDraft
<1>7. BoardWork'
  BY <1>3, <1>4, <1>5, BoardEndKeeps DEF IsDraft
<1> QED BY <1>5, <1>6, <1>7

LEMMA BoardReadKeeps ==
    ASSUME BoardInv, NEW w \in Workers, Board!ReadCommit(w)
    PROVE  BoardInv'
<1> USE DEF BoardInv
<1>1. PICK n, p : n = work[w].of /\ p = work[w].by
  OBVIOUS
<1>2. work[w].op = "read" /\ notice[n] # NoRow /\ Board!Exists(p)
  BY <1>1 DEF Board!ReadCommit, Board!Holds
<1>3. n \in Notices /\ n \in written /\ (IsDraft(n) => p = notice[n].by) /\ p \in Readers
  <2>1. work[w] # Board!Idle
    BY <1>2 DEF Board!Idle
  <2>2. p \in Readers
    BY <1>1, <1>2, <2>1 DEF BoardShape, Board!Work
  <2> QED BY <1>1, <1>2, <2>1, <2>2, BoardHolds DEF BoardWork
<1>4. /\ opened' = [opened EXCEPT ![n] = @ \cup {p}] /\ Board!End(w)
      /\ UNCHANGED <<users, notice, text, documents, written, crossed>>
  BY <1>1 DEF Board!ReadCommit
<1>5. \A m \in Notices : opened'[m] = IF m = n THEN opened[n] \cup {p} ELSE opened[m]
  BY <1>4 DEF BoardShape
<1>6. BoardShape'
  BY <1>3, <1>4 DEF BoardShape, Board!UsersTypeOK, Board!End, Board!Work
<1>7. BoardRows'
  BY <1>3, <1>4, <1>5 DEF BoardRows, IsDraft
<1>8. BoardWork'
  BY <1>4, <1>6, BoardEndKeeps DEF IsDraft
<1> QED BY <1>6, <1>7, <1>8

LEMMA BoardAccountKeeps ==
    ASSUME BoardInv, NEW p \in Readers, Board!AccountDeleted(p)
    PROVE  BoardInv'
<1> USE DEF BoardInv
<1>1. /\ users' = [users EXCEPT ![p] = NoRow] /\ Board!Exists(p)
      /\ UNCHANGED <<text, documents, written, work, crossed>>
      /\ \A m \in Notices : opened'[m] = opened[m] \ {p}
  BY DEF Board!AccountDeleted
<1>2. \A m \in Notices :
        notice'[m] = IF notice[m] # NoRow /\ notice[m].by = p
                     THEN [notice[m] EXCEPT !.by = NoRow] ELSE notice[m]
  BY DEF Board!AccountDeleted
<1>3. \A m \in Notices : notice'[m] # NoRow => notice[m] \in Board!NoticeRow
  BY <1>2 DEF BoardShape
<1>4. \A m \in Notices :
        /\ (notice'[m] = NoRow) <=> (notice[m] = NoRow)
        /\ notice[m] # NoRow =>
              /\ notice'[m] \in Board!NoticeRow
              /\ notice'[m].status = notice[m].status /\ notice'[m].dated = notice[m].dated
              /\ notice'[m].by = IF notice[m].by = p THEN NoRow ELSE notice[m].by
  <2> SUFFICES ASSUME NEW m \in Notices, notice[m] # NoRow
               PROVE  /\ notice'[m] \in Board!NoticeRow
                      /\ notice'[m].status = notice[m].status
                      /\ notice'[m].dated = notice[m].dated
                      /\ notice'[m].by = IF notice[m].by = p THEN NoRow ELSE notice[m].by
    BY <1>2 DEF BoardShape
  <2>1. notice[m] \in Board!NoticeRow
    BY DEF BoardShape
  <2>2. CASE notice[m].by = p
    BY <1>2, <2>1, <2>2 DEF Board!NoticeRow
  <2>3. CASE notice[m].by # p
    BY <1>2, <2>1, <2>3
  <2> QED BY <2>2, <2>3
<1>5. BoardShape'
  <2>1. DOMAIN notice' = Notices /\ DOMAIN opened' = Notices
        /\ notice' = [m \in Notices |-> notice'[m]] /\ opened' = [m \in Notices |-> opened'[m]]
    BY DEF Board!AccountDeleted
  <2>2. notice' \in [Notices -> Board!NoticeRow \cup {NoRow}]
    BY <1>4, <2>1
  <2>3. opened' \in [Notices -> SUBSET Readers]
    BY <1>1, <2>1 DEF BoardShape
  <2> QED BY <1>1, <2>2, <2>3 DEF BoardShape, Board!UsersTypeOK
<1>6. \A m \in Notices : IsDraft(m)' = IsDraft(m)
  BY <1>4 DEF IsDraft
<1>7. BoardRows'
  BY <1>1, <1>4, <1>6 DEF BoardRows, IsDraft
<1>8. \A q \in Readers : Board!Exists(q)' => Board!Exists(q) /\ q # p
  BY <1>1 DEF Board!Exists, BoardShape, Board!UsersTypeOK
<1>9. BoardWork'
  <2>1. \A v \in Workers : work[v].op = "read" => work[v].of \in Notices /\ work[v].by \in Readers
    BY DEF BoardShape, Board!Work, Board!Idle
  <2>2. \A v \in Workers : work[v].op = "read" /\ IsDraft(work[v].of)' =>
            work[v].by = notice'[work[v].of].by \/ ~Board!Exists(work[v].by)'
    <3> SUFFICES ASSUME NEW v \in Workers, work[v].op = "read", IsDraft(work[v].of)'
                 PROVE  work[v].by = notice'[work[v].of].by \/ ~Board!Exists(work[v].by)'
      OBVIOUS
    <3>1. PICK m \in Notices, q \in Readers : m = work[v].of /\ q = work[v].by
      BY <2>1
    <3>2. work' = work /\ IsDraft(m)' = IsDraft(m)
      BY <1>1, <1>6
    <3>3. IsDraft(m)
      BY <3>1, <3>2 DEF IsDraft
    <3>4. q = notice[m].by \/ ~Board!Exists(q)
      BY <3>1, <3>3 DEF BoardWork, IsDraft
    <3>5. q = notice'[m].by \/ ~Board!Exists(q)'
      BY <1>4, <1>8, <3>3, <3>4 DEF IsDraft
    <3> QED BY <3>1, <3>2, <3>5 DEF Board!Exists
  <2> QED BY <1>1, <2>2 DEF BoardWork
<1> QED BY <1>5, <1>7, <1>9

LEMMA BoardNext ==
    ASSUME BoardInv, [Board!Next]_<<users, Board!boardVars>>
    PROVE  BoardInv'
<1>1. CASE UNCHANGED <<users, Board!boardVars>>
  BY <1>1 DEF Board!boardVars, BoardInv, BoardShape, BoardWork, BoardRows, IsDraft,
     Board!UsersTypeOK, Board!Exists
<1>2. CASE Board!Next
  BY <1>2, BoardAccountKeeps, BoardCreateKeeps, BoardLoadKeeps, BoardTextKeeps,
     BoardStatusKeeps, BoardDeleteKeeps, BoardReadKeeps, BoardRollbackKeeps DEF Board!Next
<1> QED BY <1>1, <1>2

\* On the desk, while it is the part that runs.
LEMMA BoardRuns ==
    /\ Init /\ part = "board" => Board!UsersTypeOK /\ Board!Init
    /\ [Next]_vars /\ part = "board" => part' = "board" /\ [Board!Next]_<<users, Board!boardVars>>
<1>1. Init /\ part = "board" => Board!UsersTypeOK /\ Board!Init
  BY DEF Init
<1>2. ASSUME Next, part = "board" PROVE part' = "board" /\ Board!Next
  BY <1>2 DEF Next
<1>3. ASSUME UNCHANGED vars, part = "board"
      PROVE  part' = "board" /\ UNCHANGED <<users, Board!boardVars>>
  BY <1>3 DEF vars, boardOwn, Board!boardVars
<1> QED BY <1>1, <1>2, <1>3

LEMMA BoardHold == Spec => [](part = "board" => BoardInv)
<1>1. Init => (part = "board" => BoardInv)
  BY BoardRuns, BoardInit, RowsAssumption
<1>2. (part = "board" => BoardInv) /\ [Next]_vars => (part = "board" => BoardInv)'
  <2> SUFFICES ASSUME part = "board" => BoardInv, [Next]_vars, part' = "board"
               PROVE  BoardInv'
    OBVIOUS
  <2>1. part = "board"
    BY DEF Next, vars
  <2> QED BY <2>1, BoardRuns, BoardNext, RowsAssumption
<1> QED BY <1>1, <1>2, PTL DEF Spec

\* A notice that is or was up: who writes to it without having overtaken another handler.
LEMMA BoardKeepsWhatWasSaid ==
    ASSUME BoardInv, [Board!Next]_<<users, Board!boardVars>>
    PROVE  Board!KeepsWhatWasSaid
<1> USE DEF BoardInv
<1>0. BoardInv'
  BY BoardNext
<1> SUFFICES ASSUME NEW n \in Notices,
                    notice[n] # NoRow, notice[n].status # "draft", n \notin crossed'
             PROVE  IF notice'[n] = NoRow THEN notice[n].status = "withdrawn"
                    ELSE /\ text'[n] = text[n] /\ documents'[n] = documents[n]
                         /\ notice'[n].status \in {notice[n].status, "withdrawn"}
                         /\ notice'[n].dated
  BY DEF Board!KeepsWhatWasSaid
<1>1. ASSUME notice'[n] = notice[n], n \notin crossed,
             text'[n] = text[n], documents'[n] = documents[n]
      PROVE  IF notice'[n] = NoRow THEN notice[n].status = "withdrawn"
             ELSE /\ text'[n] = text[n] /\ documents'[n] = documents[n]
                  /\ notice'[n].status \in {notice[n].status, "withdrawn"}
                  /\ notice'[n].dated
  BY <1>1 DEF BoardRows
<1>2. CASE UNCHANGED <<users, Board!boardVars>>
  BY <1>1, <1>2 DEF Board!boardVars
<1>3. ASSUME NEW p \in Readers, Board!AccountDeleted(p)
      PROVE  IF notice'[n] = NoRow THEN notice[n].status = "withdrawn"
             ELSE /\ text'[n] = text[n] /\ documents'[n] = documents[n]
                  /\ notice'[n].status \in {notice[n].status, "withdrawn"}
                  /\ notice'[n].dated
  <2>1. notice[n] \in Board!NoticeRow
    BY DEF BoardShape
  <2>2. /\ UNCHANGED <<text, documents, crossed>>
        /\ notice'[n] = IF notice[n].by = p THEN [notice[n] EXCEPT !.by = NoRow]
                        ELSE notice[n]
    BY <1>3 DEF Board!AccountDeleted
  <2>3. [notice[n] EXCEPT !.by = NoRow] \in Board!NoticeRow
    BY <2>1 DEF Board!NoticeRow
  <2>4. notice'[n] # NoRow /\ notice'[n].status = notice[n].status
        /\ notice'[n].dated = notice[n].dated
    <3>1. CASE notice[n].by = p
      BY <2>1, <2>2, <2>3, <3>1 DEF BoardShape, Board!NoticeRow
    <3>2. CASE notice[n].by # p
      BY <2>2, <3>2
    <3> QED BY <3>1, <3>2
  <2> QED BY <2>2, <2>4 DEF BoardRows
<1>4. ASSUME NEW p \in Readers, NEW m \in Notices, Board!Create(p, m)
      PROVE  n # m /\ notice'[n] = notice[n] /\ UNCHANGED <<text, documents, crossed>>
  BY <1>4 DEF Board!Create, BoardRows, BoardShape
<1>5. ASSUME NEW w \in Workers, Board!EditCommit(w)
      PROVE  UNCHANGED <<notice, documents>> /\ text'[n] = text[n] /\ n \notin crossed
  <2>1. work[w].seen = "draft"
    BY <1>5 DEF Board!EditCommit, Board!Holds, BoardWork
  <2>2. work[w].of # n /\ n \notin crossed
    BY <1>5, <2>1 DEF Board!EditCommit, Board!Overtaken
  <2> QED BY <1>5, <2>2 DEF Board!EditCommit, BoardShape
<1>6. ASSUME NEW w \in Workers, Board!DocumentCommit(w)
      PROVE  UNCHANGED <<notice, text>> /\ documents'[n] = documents[n] /\ n \notin crossed
  <2>1. work[w].of # n /\ n \notin crossed
    BY <1>6 DEF Board!DocumentCommit
  <2> QED BY <1>6, <2>1 DEF Board!DocumentCommit, BoardShape
<1>7. ASSUME NEW w \in Workers, Board!DeleteCommit(w)
      PROVE  n \notin crossed /\ UNCHANGED text
             /\ IF work[w].of = n THEN notice'[n] = NoRow /\ notice[n].status = "withdrawn"
                ELSE notice'[n] = notice[n] /\ documents'[n] = documents[n]
  <2>1. work[w].seen \in {"draft", "withdrawn"}
    BY <1>7 DEF Board!DeleteCommit, Board!Holds, BoardWork
  <2>2. n \notin crossed /\ (work[w].of = n => notice[n].status = work[w].seen)
    BY <1>7 DEF Board!DeleteCommit, Board!Overtaken
  <2> QED BY <1>7, <2>1, <2>2 DEF Board!DeleteCommit, BoardShape
<1>8. ASSUME NEW w \in Workers, Board!PublishCommit(w)
      PROVE  n \notin crossed /\ UNCHANGED <<text, documents>> /\ notice'[n] = notice[n]
  <2>1. work[w].seen = "draft"
    BY <1>8 DEF Board!PublishCommit, Board!Holds, BoardWork
  <2>2. work[w].of # n /\ n \notin crossed
    BY <1>8, <2>1 DEF Board!PublishCommit, Board!Overtaken
  <2> QED BY <1>8, <2>2 DEF Board!PublishCommit, BoardShape
<1>9. ASSUME NEW w \in Workers, Board!WithdrawCommit(w)
      PROVE  IF notice'[n] = NoRow THEN notice[n].status = "withdrawn"
             ELSE /\ text'[n] = text[n] /\ documents'[n] = documents[n]
                  /\ notice'[n].status \in {notice[n].status, "withdrawn"}
                  /\ notice'[n].dated
  <2>1. UNCHANGED <<text, documents>> /\ n \notin crossed
    BY <1>9 DEF Board!WithdrawCommit, Board!Overtaken
  <2>2. notice[n] \in Board!NoticeRow
    BY DEF BoardShape
  <2>3. CASE work[w].of = n
    <3>1. notice'[n] = [notice[n] EXCEPT !.status = "withdrawn"]
      BY <1>9, <2>3 DEF Board!WithdrawCommit, BoardShape
    <3>2. notice'[n].status = "withdrawn" /\ notice'[n].dated = notice[n].dated
          /\ notice'[n] \in Board!NoticeRow
      BY <2>2, <3>1 DEF Board!NoticeRow, Board!AnnouncementStatus
    <3> QED BY <2>1, <3>2 DEF BoardRows, BoardShape
  <2>4. CASE work[w].of # n
    <3>1. notice'[n] = notice[n]
      BY <1>9, <2>4 DEF Board!WithdrawCommit, BoardShape
    <3> QED BY <1>1, <2>1, <3>1
  <2> QED BY <2>3, <2>4
<1>10. ASSUME NEW w \in Workers, Board!ReadCommit(w)
       PROVE  UNCHANGED <<notice, text, documents, crossed>>
  BY <1>10 DEF Board!ReadCommit
<1>11. ASSUME NEW w \in Workers,
              \/ Board!Rollback(w)
              \/ \E m \in Notices, p \in Readers :
                    \/ Board!EditLoad(w, m, p) \/ Board!PublishLoad(w, m, p)
                    \/ Board!WithdrawLoad(w, m, p) \/ Board!DeleteLoad(w, m, p)
                    \/ Board!ReadLoad(w, m, p)
                    \/ \E d \in Documents :
                          Board!AttachLoad(w, m, p, d) \/ Board!RemoveLoad(w, m, p, d)
       PROVE  UNCHANGED <<notice, text, documents, crossed>>
  BY <1>11 DEF Board!Rollback, Board!EditLoad, Board!PublishLoad, Board!WithdrawLoad,
     Board!DeleteLoad, Board!ReadLoad, Board!AttachLoad, Board!RemoveLoad,
     Board!RowsUnchanged
<1> QED
  BY <1>1, <1>2, <1>3, <1>4, <1>5, <1>6, <1>7, <1>8, <1>9, <1>10, <1>11 DEF Board!Next

\* Nobody but its author holds a receipt for a draft, and publishing adds none.
LEMMA BoardGoesUpFresh ==
    ASSUME BoardInv, [Board!Next]_<<users, Board!boardVars>>
    PROVE  Board!GoesUpFresh
<1> USE DEF BoardInv
<1> SUFFICES ASSUME NEW n \in Notices, IsDraft(n),
                    notice'[n] # NoRow, notice'[n].status = "published"
             PROVE  \A p \in Readers :
                        Board!Exists(p) /\ Board!Addressed(notice'[n], p)
                           /\ p # notice[n].by => n \in Board!Unread(p)'
  BY DEF Board!GoesUpFresh, IsDraft
<1>1. UNCHANGED <<users, opened>>
  <2>1. CASE \E p \in Readers : Board!AccountDeleted(p)
    <3>1. PICK p \in Readers : Board!AccountDeleted(p)
      BY <2>1
    <3>2. notice'[n] = IF notice[n].by = p THEN [notice[n] EXCEPT !.by = NoRow]
                       ELSE notice[n]
      BY <3>1 DEF Board!AccountDeleted, IsDraft
    <3>3. notice[n] \in Board!NoticeRow
      BY DEF BoardShape, IsDraft
    <3> QED BY <3>2, <3>3 DEF Board!NoticeRow, IsDraft
  <2>2. ASSUME notice'[n] = notice[n] PROVE FALSE
    BY <2>2 DEF IsDraft
  <2>3. ASSUME NEW p \in Readers, NEW m \in Notices, Board!Create(p, m) PROVE FALSE
    <3>1. m # n
      BY <2>3 DEF Board!Create, BoardRows, IsDraft
    <3> QED BY <2>2, <2>3, <3>1 DEF Board!Create, BoardShape
  <2>4. ASSUME NEW w \in Workers, Board!DeleteCommit(w) PROVE FALSE
    BY <2>2, <2>4 DEF Board!DeleteCommit, BoardShape
  <2>5. ASSUME NEW w \in Workers, Board!PublishCommit(w) \/ Board!WithdrawCommit(w)
        PROVE  UNCHANGED <<users, opened>>
    BY <2>5 DEF Board!PublishCommit, Board!WithdrawCommit
  <2>6. ASSUME NEW w \in Workers,
               \/ Board!Rollback(w) \/ Board!EditCommit(w) \/ Board!DocumentCommit(w)
               \/ Board!ReadCommit(w)
               \/ \E m \in Notices, p \in Readers :
                     \/ Board!EditLoad(w, m, p) \/ Board!PublishLoad(w, m, p)
                     \/ Board!WithdrawLoad(w, m, p) \/ Board!DeleteLoad(w, m, p)
                     \/ Board!ReadLoad(w, m, p)
                     \/ \E d \in Documents :
                           Board!AttachLoad(w, m, p, d) \/ Board!RemoveLoad(w, m, p, d)
        PROVE  UNCHANGED notice
    BY <2>6 DEF Board!Rollback, Board!EditCommit, Board!DocumentCommit, Board!ReadCommit,
       Board!EditLoad, Board!PublishLoad, Board!WithdrawLoad, Board!DeleteLoad,
       Board!ReadLoad, Board!AttachLoad, Board!RemoveLoad, Board!RowsUnchanged
  <2> QED BY <2>1, <2>2, <2>3, <2>4, <2>5, <2>6 DEF Board!Next, Board!boardVars
<1>2. TAKE p \in Readers
<1>3. HAVE Board!Exists(p) /\ Board!Addressed(notice'[n], p) /\ p # notice[n].by
<1>4. p \notin opened'[n]
  BY <1>1, <1>3 DEF BoardRows
<1>5. Board!Visible(n, p)'
  BY <1>1, <1>3 DEF Board!Visible, Board!Addressed, Board!InstitutionWide
<1> QED BY <1>4, <1>5 DEF Board!Unread

\* What has been on the board stays as it was read, and a notice goes up unread for all
\* it is addressed to but its author, whatever the handlers overlap
\* (announcements/service.py).
THEOREM BoardSaysToItsReaders == Spec => SaidToItsReaders
<1>1. (part = "board" => BoardInv) /\ [Next]_vars
        => [part = "board" => Board!KeepsWhatWasSaid /\ Board!GoesUpFresh]_vars
  BY BoardRuns, BoardKeepsWhatWasSaid, BoardGoesUpFresh, RowsAssumption
<1> QED BY <1>1, BoardHold, PTL DEF Spec, SaidToItsReaders

-----------------------------------------------------------------------------
(* The register of publications *)

RegisterShape ==
    /\ NoRow \notin Register!PubRow /\ NoRow \notin Register!ReviewRow
    /\ pub \in [Works -> Register!PubRow \cup {NoRow}]
    /\ review \in [Reviews -> Register!ReviewRow \cup {NoRow}]
    /\ work \in [Workers -> Register!Work]

RegisterRows ==
    /\ \A k \in Works : pub[k] # NoRow => k \in used
    /\ \A r \in Reviews : review[r] # NoRow => \A k \in review[r].of : pub[k] # NoRow

\* A merge is on a row that was not merged, and what is still at the key of the record that
\* is to go is the work it has put by: no key is given out twice.
RegisterTask(t) ==
    /\ t # Register!Idle => review[t.on] # NoRow
    /\ t.op \in {"settle", "merge"} => t.seen # "merged"
    /\ t.op = "settle" => t.target # "merged"
    /\ t.op = "merge" => /\ t.winner # t.loser /\ t.loser \in used
                         /\ pub[t.loser] # NoRow => pub[t.loser].from = t.lost.from

Snapshot(r, o) ==
    /\ review[r] # NoRow /\ review[r].status = "merged"
    /\ review[r].snapshot # NoRow /\ review[r].snapshot.from = o
Kept(o) ==
    \/ \E k \in Works : pub[k] # NoRow /\ pub[k].from = o
    \/ \E r \in Reviews : Snapshot(r, o)

RegisterInv ==
    /\ RegisterShape
    /\ RegisterRows
    /\ \A w \in Workers : RegisterTask(work[w])
    /\ \A o \in used \ (removed \cup crossed) : Kept(o)

\* What every step that writes to the rows does.
RegisterWrites ==
    /\ pub' \in [Works -> Register!PubRow \cup {NoRow}]
    /\ review' \in [Reviews -> Register!ReviewRow \cup {NoRow}]
    /\ RegisterRows'
    /\ used \subseteq used' /\ removed \subseteq removed' /\ crossed \subseteq crossed'
    /\ \A r \in Reviews : review[r] # NoRow => review'[r] # NoRow
    /\ \A k \in used : k \in Works /\ pub'[k] # NoRow =>
            pub[k] # NoRow /\ pub'[k].from = pub[k].from
    /\ \A k \in Works : \A o :
            pub[k] # NoRow /\ pub[k].from = o => o \in removed' \/ Kept(o)'
    /\ \A r \in Reviews : \A o : Snapshot(r, o) => o \in crossed' \/ Kept(o)'
    /\ \A o \in used' \ used : o \in removed' \/ Kept(o)'

LEMMA RegisterWritesKeep ==
    ASSUME RegisterInv, RegisterWrites,
           work' = work \/ \E w \in Workers : Register!End(w)
    PROVE  RegisterInv'
<1> USE DEF RegisterInv
<1>1. Register!Idle \in Register!Work /\ Register!Idle.op = "idle"
  BY DEF Register!Idle, Register!Work
<1>2. \A v \in Workers : work'[v] \in {work[v], Register!Idle}
  BY DEF Register!End, RegisterShape
<1>3. work' \in [Workers -> Register!Work]
  BY <1>1 DEF Register!End, RegisterShape
<1>4. RegisterShape'
  BY <1>3 DEF RegisterShape, RegisterWrites
<1>5. ASSUME NEW w \in Workers PROVE RegisterTask(work[w])'
  <2>1. CASE work'[w] = Register!Idle
    BY <1>1, <2>1 DEF RegisterTask, Register!Idle
  <2>2. CASE work'[w] = work[w] /\ work[w] # Register!Idle
    <3>1. PICK t \in Register!Work : t = work[w]
      BY DEF RegisterShape
    <3>2. RegisterTask(t) /\ t # Register!Idle
      BY <2>2, <3>1
    <3>3. t.on \in Reviews /\ (t.op = "merge" => t.loser \in Works)
      BY <3>2 DEF Register!Work, Register!Idle
    <3>4. RegisterTask(t)'
      BY <3>2, <3>3 DEF RegisterTask, RegisterWrites
    <3> QED BY <2>2, <3>1, <3>4
  <2> QED BY <1>2, <2>1, <2>2
<1>6. ASSUME NEW o \in used' \ (removed' \cup crossed') PROVE Kept(o)'
  <2>1. CASE o \in used
    <3>1. Kept(o)
      BY <1>6, <2>1 DEF RegisterWrites
    <3> QED BY <1>6, <3>1 DEF Kept, RegisterWrites
  <2>2. CASE o \notin used
    BY <1>6, <2>2 DEF RegisterWrites
  <2> QED BY <2>1, <2>2
<1> QED BY <1>4, <1>5, <1>6 DEF RegisterWrites

\* A handler that looks, or gives up.
LEMMA RegisterLookKeeps ==
    ASSUME RegisterInv, UNCHANGED <<pub, review, used, removed, crossed>>,
           NEW w \in Workers, NEW t \in Register!Work, work' = [work EXCEPT ![w] = t],
           RegisterTask(t)
    PROVE  RegisterInv'
<1> USE DEF RegisterInv
<1>1. RegisterShape' /\ RegisterRows'
  BY DEF RegisterShape, RegisterRows
<1>2. \A v \in Workers : work'[v] = IF v = w THEN t ELSE work[v]
  BY DEF RegisterShape
<1>3. \A v \in Workers : RegisterTask(work[v])'
  BY <1>2 DEF RegisterTask
<1>4. \A o : Kept(o)' = Kept(o)
  BY DEF Kept, Snapshot
<1> QED BY <1>1, <1>3, <1>4

LEMMA RegisterInit ==
    ASSUME NoRow \notin Register!PubRow, NoRow \notin Register!ReviewRow, Register!Init
    PROVE  RegisterInv
<1>1. RegisterShape
  BY DEF Register!Init, RegisterShape, Register!Work
<1>2. \A w \in Workers : work[w] = Register!Idle /\ work[w].op = "idle"
  BY DEF Register!Init, Register!Idle
<1> QED BY <1>1, <1>2 DEF Register!Init, RegisterInv, RegisterRows, RegisterTask

LEMMA RegisterLoadKeeps ==
    ASSUME RegisterInv, NEW w \in Workers, NEW p \in Scholars, NEW r \in Reviews,
           \/ \E s \in {"separate", "ignored"} : Register!SettleLoad(w, p, r, s)
           \/ \E k \in Works : Register!MergeLoad(w, p, r, k)
           \/ Register!UndoLoad(w, p, r)
    PROVE  RegisterInv'
<1> USE DEF RegisterInv
<1>1. /\ UNCHANGED <<pub, review, used, removed, crossed>>
      /\ review[r] # NoRow
  BY DEF Register!SettleLoad, Register!MergeLoad, Register!UndoLoad, Register!Rows
<1>2. review[r] \in Register!ReviewRow
  BY <1>1 DEF RegisterShape
<1>3. ASSUME NEW s \in {"separate", "ignored"}, Register!SettleLoad(w, p, r, s)
      PROVE  RegisterInv'
  <2>1. PICK t : /\ t = [op |-> "settle", on |-> r, seen |-> review[r].status, target |-> s]
                 /\ work' = [work EXCEPT ![w] = t]
    BY <1>3 DEF Register!SettleLoad, Register!Begin
  <2>2. t \in Register!Work
    BY <1>2, <2>1 DEF Register!Work, Register!ReviewRow
  <2>3. review[r].status # "merged"
    BY <1>3 DEF Register!SettleLoad, Register!TRANSITIONS
  <2>4. RegisterTask(t)
    BY <1>1, <2>1, <2>3 DEF RegisterTask
  <2> QED BY <1>1, <2>1, <2>2, <2>4, RegisterLookKeeps
<1>4. ASSUME NEW k \in Works, Register!MergeLoad(w, p, r, k)
      PROVE  RegisterInv'
  <2>1. PICK loser \in review[r].of \ {k} :
            Register!Begin(w, [op |-> "merge", on |-> r, seen |-> review[r].status,
                               winner |-> k, loser |-> loser, lost |-> pub[loser],
                               inherits |-> pub[k].doi = NoRow /\ pub[loser].doi # NoRow])
    BY <1>4 DEF Register!MergeLoad
  <2>2. PICK inherits : inherits = (pub[k].doi = NoRow /\ pub[loser].doi # NoRow)
    OBVIOUS
  <2>7. PICK t : t = [op |-> "merge", on |-> r, seen |-> review[r].status, winner |-> k,
                      loser |-> loser, lost |-> pub[loser], inherits |-> inherits]
    OBVIOUS
  <2>8. inherits \in BOOLEAN /\ work' = [work EXCEPT ![w] = t]
    BY <2>1, <2>2, <2>7 DEF Register!Begin
  <2>3. loser \in Works /\ pub[loser] # NoRow /\ pub[loser] \in Register!PubRow
    BY <1>1, <1>2 DEF RegisterShape, RegisterRows, Register!ReviewRow
  <2>4. t \in Register!Work
    BY <1>2, <2>7, <2>8, <2>3 DEF Register!Work, Register!ReviewRow
  <2>5. review[r].status # "merged"
    BY <1>4 DEF Register!MergeLoad, Register!TRANSITIONS
  <2>6. RegisterTask(t)
    BY <1>1, <2>7, <2>3, <2>5 DEF RegisterTask, RegisterRows
  <2> QED BY <1>1, <2>8, <2>4, <2>6, RegisterLookKeeps
<1>5. CASE Register!UndoLoad(w, p, r)
  <2>1. PICK t : /\ t = [op |-> "undo", on |-> r, into |-> review[r].into,
                         lost |-> review[r].snapshot]
                 /\ work' = [work EXCEPT ![w] = t]
    BY <1>5 DEF Register!UndoLoad, Register!Begin
  <2>2. t \in Register!Work
    BY <1>2, <1>5, <2>1 DEF Register!UndoLoad, Register!Work, Register!ReviewRow
  <2>3. RegisterTask(t)
    BY <1>1, <2>1 DEF RegisterTask
  <2> QED BY <1>1, <2>1, <2>2, <2>3, RegisterLookKeeps
<1> QED BY <1>3, <1>4, <1>5

LEMMA RegisterRollbackKeeps ==
    ASSUME RegisterInv, NEW w \in Workers, Register!Rollback(w)
    PROVE  RegisterInv'
<1>1. /\ UNCHANGED <<pub, review, used, removed, crossed>>
      /\ work' = [work EXCEPT ![w] = Register!Idle]
  BY DEF Register!Rollback, Register!End
<1>2. Register!Idle \in Register!Work /\ RegisterTask(Register!Idle)
  BY DEF Register!Work, Register!Idle, RegisterTask
<1> QED BY <1>1, <1>2, RegisterLookKeeps

LEMMA RegisterCreateWrites ==
    ASSUME RegisterInv, NEW p \in Scholars, NEW k \in Works, NEW title \in Titles,
           NEW doi \in Dois \cup {NoRow}, NEW names \in SUBSET Register!Authors,
           NEW links \in SUBSET Projects,
           Register!CreatePublication(p, k, title, doi, names, links)
    PROVE  RegisterWrites /\ work' = work
<1> USE DEF RegisterInv
<1>1. PICK row : /\ row = [by |-> p, title |-> title, doi |-> doi, authors |-> names,
                           links |-> links, from |-> k]
                 /\ pub' = [pub EXCEPT ![k] = row]
                 /\ k \notin used /\ used' = used \cup {k}
                 /\ UNCHANGED <<work, review, removed, crossed>>
  BY DEF Register!CreatePublication
<1>2. row \in Register!PubRow /\ row # NoRow /\ row.from = k
  BY <1>1 DEF Register!PubRow, RegisterShape
<1>3. pub[k] = NoRow /\ \A j \in Works : pub'[j] = IF j = k THEN row ELSE pub[j]
  BY <1>1 DEF RegisterShape, RegisterRows
<1>4. /\ pub' \in [Works -> Register!PubRow \cup {NoRow}]
      /\ review' \in [Reviews -> Register!ReviewRow \cup {NoRow}]
  BY <1>1, <1>2 DEF RegisterShape
<1>5. RegisterRows'
  <2>1. \A r \in Reviews : review[r] # NoRow => \A j \in review[r].of : j \in Works
    BY DEF RegisterShape, Register!ReviewRow
  <2> QED BY <1>1, <1>2, <1>3, <2>1 DEF RegisterRows
<1>6. \A o : Kept(o) => Kept(o)'
  BY <1>1, <1>2, <1>3 DEF Kept, Snapshot
<1>7. Kept(k)'
  BY <1>2, <1>3 DEF Kept
<1> QED BY <1>1, <1>3, <1>4, <1>5, <1>6, <1>7 DEF RegisterWrites, Kept

LEMMA RegisterUpdateWrites ==
    ASSUME RegisterInv, NEW p \in Scholars, NEW k \in Works, NEW title \in Titles,
           NEW doi \in Dois \cup {NoRow}, NEW names \in SUBSET Register!Authors,
           NEW links \in SUBSET Projects,
           Register!UpdatePublication(p, k, title, doi, names, links)
    PROVE  RegisterWrites /\ work' = work
<1> USE DEF RegisterInv
<1>1. PICK row : /\ row = [pub[k] EXCEPT !.title = title, !.doi = doi, !.authors = names,
                                         !.links = links]
                 /\ pub' = [pub EXCEPT ![k] = row] /\ pub[k] # NoRow
                 /\ UNCHANGED <<work, review, used, removed>>
                 /\ crossed \subseteq crossed'
  BY DEF Register!UpdatePublication, Register!Disturb, Register!Stored
<1>2. row \in Register!PubRow /\ row # NoRow /\ row.from = pub[k].from
  <2>1. pub[k] \in Register!PubRow
    BY <1>1 DEF RegisterShape
  <2> QED BY <1>1, <2>1 DEF Register!PubRow, RegisterShape
<1>3. \A j \in Works : pub'[j] = IF j = k THEN row ELSE pub[j]
  BY <1>1 DEF RegisterShape
<1>4. /\ pub' \in [Works -> Register!PubRow \cup {NoRow}]
      /\ review' \in [Reviews -> Register!ReviewRow \cup {NoRow}]
  BY <1>1, <1>2 DEF RegisterShape
<1>5. RegisterRows'
  <2>1. \A r \in Reviews : review[r] # NoRow => \A j \in review[r].of : j \in Works
    BY DEF RegisterShape, Register!ReviewRow
  <2> QED BY <1>1, <1>2, <1>3, <2>1 DEF RegisterRows
<1>6. \A o : Kept(o) => Kept(o)'
  BY <1>1, <1>2, <1>3 DEF Kept, Snapshot
<1> QED BY <1>1, <1>2, <1>3, <1>4, <1>5, <1>6 DEF RegisterWrites, Kept

\* What the review rows are when publications go.
LEMMA ForgottenFacts ==
    ASSUME RegisterInv, NEW gone, NEW after, after = Register!Forgotten(gone)
    PROVE  /\ after \in [Reviews -> Register!ReviewRow \cup {NoRow}]
           /\ \A r \in Reviews :
                 /\ review[r] = NoRow => after[r] = NoRow
                 /\ review[r] # NoRow =>
                       /\ after[r] # NoRow
                       /\ after[r].of = review[r].of \ gone
                       /\ after[r].status = review[r].status
                       /\ after[r].snapshot = review[r].snapshot
<1> USE DEF RegisterInv
<1>1. /\ DOMAIN after = Reviews
      /\ after = [r \in Reviews |-> after[r]]
      /\ \A r \in Reviews :
            after[r] = IF review[r] = NoRow THEN NoRow
                       ELSE [review[r] EXCEPT !.of = @ \ gone,
                                              !.into = IF @ \in gone THEN NoRow ELSE @]
  BY DEF Register!Forgotten
<1>2. ASSUME NEW r \in Reviews, review[r] # NoRow
      PROVE  /\ after[r] \in Register!ReviewRow
             /\ after[r].of = review[r].of \ gone
             /\ after[r].status = review[r].status
             /\ after[r].snapshot = review[r].snapshot
  <2>1. review[r] \in Register!ReviewRow
    BY <1>2 DEF RegisterShape
  <2>2. PICK into : into = IF review[r].into \in gone THEN NoRow ELSE review[r].into
    OBVIOUS
  <2>3. after[r] = [review[r] EXCEPT !.of = @ \ gone, !.into = into]
    BY <1>1, <1>2, <2>2
  <2>4. into \in Works \cup {NoRow} /\ review[r].of \ gone \in SUBSET Works
    BY <2>1, <2>2 DEF Register!ReviewRow
  <2> QED BY <2>1, <2>3, <2>4 DEF Register!ReviewRow
<1> QED BY <1>1, <1>2 DEF RegisterShape

LEMMA RegisterDeleteWrites ==
    ASSUME RegisterInv, NEW p \in Scholars, NEW k \in Works, Register!DeletePublication(p, k)
    PROVE  RegisterWrites /\ work' = work
<1> USE DEF RegisterInv
<1>1. /\ pub' = [pub EXCEPT ![k] = NoRow]
      /\ review' = Register!Forgotten({k})
      /\ removed' = removed \cup {pub[k].from}
      /\ UNCHANGED <<work, used>> /\ crossed \subseteq crossed'
  BY DEF Register!DeletePublication, Register!Disturb
<1>2. \A j \in Works : pub'[j] = IF j = k THEN NoRow ELSE pub[j]
  BY <1>1 DEF RegisterShape
<1>3. PICK after : after = Register!Forgotten({k})
  OBVIOUS
<1>4. /\ review' = after
      /\ after \in [Reviews -> Register!ReviewRow \cup {NoRow}]
      /\ \A r \in Reviews :
            /\ review[r] = NoRow => after[r] = NoRow
            /\ review[r] # NoRow =>
                  /\ after[r] # NoRow
                  /\ after[r].of = review[r].of \ {k}
                  /\ after[r].status = review[r].status
                  /\ after[r].snapshot = review[r].snapshot
  BY <1>1, <1>3, ForgottenFacts
<1>5. pub' \in [Works -> Register!PubRow \cup {NoRow}]
  BY <1>1 DEF RegisterShape
<1>6. RegisterRows'
  <2>1. \A r \in Reviews : review[r] # NoRow => \A j \in review[r].of : j \in Works
    BY DEF RegisterShape, Register!ReviewRow
  <2> QED BY <1>1, <1>2, <1>4, <2>1 DEF RegisterRows
<1>7. \A r \in Reviews : \A o : Snapshot(r, o) => Snapshot(r, o)'
  BY <1>4 DEF Snapshot
<1>8. \A j \in Works : \A o : pub[j] # NoRow /\ pub[j].from = o => o \in removed' \/ Kept(o)'
  BY <1>1, <1>2 DEF Kept
<1>9. \A o : Kept(o) => o \in removed' \/ Kept(o)'
  BY <1>7, <1>8 DEF Kept
<1> QED BY <1>1, <1>2, <1>4, <1>5, <1>6, <1>7, <1>8 DEF RegisterWrites, Kept

LEMMA RegisterScanWrites ==
    ASSUME RegisterInv, NEW p \in Scholars, Register!Scan(p)
    PROVE  RegisterWrites /\ work' = work
<1> USE DEF RegisterInv
<1>0. PICK rows \in SUBSET (Reviews \ Register!Rows) :
          \E f \in [rows -> {pair \in Register!Candidates : ~Register!Known(pair)}] :
              review' = [r \in Reviews |-> IF r \in rows THEN Register!Suspected(f[r])
                                           ELSE review[r]]
  BY DEF Register!Scan
<1>1. PICK f \in [rows -> {pair \in Register!Candidates : ~Register!Known(pair)}] :
              review' = [r \in Reviews |-> IF r \in rows THEN Register!Suspected(f[r])
                                           ELSE review[r]]
  BY <1>0
<1>2. UNCHANGED <<work, pub, used, removed, crossed>>
  BY DEF Register!Scan
<1>3. \A r \in rows : review[r] = NoRow
  BY DEF Register!Rows
<1>4. ASSUME NEW r \in rows
      PROVE  /\ review'[r] \in Register!ReviewRow
             /\ \A k \in review'[r].of : pub[k] # NoRow
  <2>1. f[r] \in Register!Candidates
    OBVIOUS
  <2>2. f[r] \subseteq Works /\ \A k \in f[r] : pub[k] # NoRow
    BY <2>1 DEF Register!Candidates, Register!Stored
  <2>3. review'[r] = [of |-> f[r], status |-> "suspected", into |-> NoRow,
                      snapshot |-> NoRow]
    BY <1>1 DEF Register!Suspected
  <2> QED BY <2>2, <2>3 DEF Register!ReviewRow, Register!DuplicateStatus
<1>5. \A r \in Reviews \ rows : review'[r] = review[r]
  BY <1>1
<1>6. review' \in [Reviews -> Register!ReviewRow \cup {NoRow}]
  <2>1. \A r \in Reviews : review'[r] \in Register!ReviewRow \cup {NoRow}
    BY <1>4, <1>5 DEF RegisterShape
  <2>2. review' = [r \in Reviews |-> review'[r]]
    BY <1>1
  <2> QED BY <2>1, <2>2
<1>7. RegisterRows'
  BY <1>2, <1>4, <1>5 DEF RegisterRows
<1>8. \A r \in Reviews : \A o : Snapshot(r, o) => Snapshot(r, o)'
  BY <1>3, <1>5 DEF Snapshot
<1>9. \A r \in Reviews : review[r] # NoRow => review'[r] # NoRow
  BY <1>3, <1>5
<1> QED BY <1>2, <1>6, <1>7, <1>8, <1>9 DEF RegisterWrites, Kept, RegisterShape

LEMMA RegisterAccountWrites ==
    ASSUME RegisterInv, NEW p \in Scholars, Register!AccountDeleted(p)
    PROVE  RegisterWrites /\ work' = work
<1> USE DEF RegisterInv
<1>1. PICK gone : gone = {k \in Register!Stored : pub[k].by = p}
  OBVIOUS
<1>2. /\ pub' = [k \in Works |->
                    IF k \notin Register!Stored \/ k \in gone THEN NoRow
                    ELSE [pub[k] EXCEPT !.authors = @ \ {p}]]
      /\ review' = Register!Forgotten(gone)
      /\ removed' = removed \cup {pub[k].from : k \in gone}
      /\ UNCHANGED <<work, used>> /\ crossed \subseteq crossed'
  BY <1>1 DEF Register!AccountDeleted, Register!Disturb
<1>3. PICK after : after = Register!Forgotten(gone)
  OBVIOUS
<1>4. /\ review' = after
      /\ after \in [Reviews -> Register!ReviewRow \cup {NoRow}]
      /\ \A r \in Reviews :
            /\ review[r] = NoRow => after[r] = NoRow
            /\ review[r] # NoRow =>
                  /\ after[r] # NoRow
                  /\ after[r].of = review[r].of \ gone
                  /\ after[r].status = review[r].status
                  /\ after[r].snapshot = review[r].snapshot
  BY <1>2, <1>3, ForgottenFacts
<1>5. \A k \in Works :
        /\ pub'[k] # NoRow => pub[k] # NoRow
        /\ pub[k] # NoRow /\ k \notin gone =>
              pub'[k] \in Register!PubRow /\ pub'[k].from = pub[k].from
        /\ pub[k] = NoRow \/ k \in gone => pub'[k] = NoRow
  <2> SUFFICES ASSUME NEW k \in Works, pub[k] # NoRow, k \notin gone
               PROVE  pub'[k] \in Register!PubRow /\ pub'[k].from = pub[k].from
    BY <1>2 DEF Register!Stored
  <2>1. pub[k] \in Register!PubRow
    BY DEF RegisterShape
  <2>2. pub'[k] = [pub[k] EXCEPT !.authors = @ \ {p}]
    BY <1>2 DEF Register!Stored
  <2> QED BY <2>1, <2>2 DEF Register!PubRow
<1>6. pub' \in [Works -> Register!PubRow \cup {NoRow}]
  <2>1. pub' = [k \in Works |-> pub'[k]]
    BY <1>2
  <2>2. \A k \in Works : pub'[k] \in Register!PubRow \cup {NoRow}
    BY <1>5
  <2> QED BY <2>1, <2>2
<1>7. RegisterRows'
  <2>1. \A r \in Reviews : review[r] # NoRow => \A j \in review[r].of : j \in Works
    BY DEF RegisterShape, Register!ReviewRow
  <2> QED BY <1>2, <1>4, <1>5, <2>1 DEF RegisterRows, RegisterShape
<1>8. \A r \in Reviews : \A o : Snapshot(r, o) => Snapshot(r, o)'
  BY <1>4 DEF Snapshot
<1>9. \A j \in Works : \A o : pub[j] # NoRow /\ pub[j].from = o => o \in removed' \/ Kept(o)'
  BY <1>2, <1>5 DEF Kept, RegisterShape
<1> QED BY <1>2, <1>4, <1>5, <1>6, <1>7, <1>8, <1>9 DEF RegisterWrites, Kept, RegisterShape

LEMMA RegisterInHand ==
    ASSUME RegisterInv, NEW w \in Workers, work[w].op \in {"settle", "merge", "undo"}
    PROVE  /\ work[w] # Register!Idle
           /\ work[w] \in Register!Work /\ work[w].on \in Reviews
           /\ review[work[w].on] \in Register!ReviewRow /\ review[work[w].on] # NoRow
<1> USE DEF RegisterInv
<1>1. work[w] # Register!Idle
  BY DEF Register!Idle
<1>2. work[w] \in Register!Work /\ work[w].on \in Reviews /\ review[work[w].on] # NoRow
  BY <1>1 DEF RegisterShape, RegisterTask, Register!Work
<1> QED BY <1>1, <1>2 DEF RegisterShape

LEMMA RegisterSettleWrites ==
    ASSUME RegisterInv, NEW w \in Workers, Register!SettleCommit(w)
    PROVE  RegisterWrites /\ Register!End(w)
<1> USE DEF RegisterInv
<1>1. PICK t : t = work[w]
  OBVIOUS
<1>2. /\ t.op = "settle" /\ RegisterTask(t)
      /\ review' = [review EXCEPT ![t.on].status = t.target]
      /\ crossed' = crossed \cup Register!Overtaken(t)
      /\ Register!End(w) /\ UNCHANGED <<users, pub, used, removed>>
  BY <1>1 DEF Register!SettleCommit
<1>3. /\ t # Register!Idle /\ t \in Register!Work /\ t.on \in Reviews
      /\ review[t.on] \in Register!ReviewRow /\ review[t.on] # NoRow
  BY <1>1, <1>2, RegisterInHand
<1>4. t.target \in Register!DuplicateStatus /\ t.seen # "merged"
  BY <1>2, <1>3 DEF Register!Work, Register!Idle, Register!DuplicateStatus, RegisterTask
<1>5. PICK row : /\ row = [review[t.on] EXCEPT !.status = t.target]
                 /\ review' = [review EXCEPT ![t.on] = row]
  BY <1>2, <1>3 DEF RegisterShape
<1>6. row \in Register!ReviewRow /\ row # NoRow /\ row.of = review[t.on].of
  BY <1>3, <1>4, <1>5 DEF Register!ReviewRow, RegisterShape
<1>7. \A r \in Reviews : review'[r] = IF r = t.on THEN row ELSE review[r]
  BY <1>5 DEF RegisterShape
<1>8. review' \in [Reviews -> Register!ReviewRow \cup {NoRow}]
  BY <1>5, <1>6 DEF RegisterShape
<1>9. RegisterRows'
  BY <1>2, <1>3, <1>6, <1>7 DEF RegisterRows
<1>10. ASSUME NEW r \in Reviews, NEW o, Snapshot(r, o) PROVE o \in crossed' \/ Kept(o)'
  <2>1. CASE r = t.on
    <3>1. Register!Overtaken(t) = Register!WorksOf(review[t.on])
      BY <1>2, <1>4, <1>10, <2>1 DEF Register!Overtaken, Snapshot
    <3>2. o \in Register!WorksOf(review[t.on])
      BY <1>10, <2>1 DEF Register!WorksOf, Snapshot
    <3> QED BY <1>2, <3>1, <3>2
  <2>2. CASE r # t.on
    BY <1>7, <1>10, <2>2 DEF Kept, Snapshot
  <2> QED BY <2>1, <2>2
<1>11. \A r \in Reviews : review[r] # NoRow => review'[r] # NoRow
  BY <1>6, <1>7
<1> QED BY <1>2, <1>8, <1>9, <1>10, <1>11 DEF RegisterWrites, Kept, RegisterShape

\* The loser's work is in the snapshot, under whatever key it was entered.
LEMMA RegisterMergeWrites ==
    ASSUME RegisterInv, NEW w \in Workers, Register!MergeCommit(w)
    PROVE  RegisterWrites /\ Register!End(w)
<1> USE DEF RegisterInv
<1>1. PICK t, survivor : t = work[w] /\ survivor = Register!Merged(pub[t.winner], t)
  OBVIOUS
<1>2. /\ t.op = "merge" /\ RegisterTask(t) /\ pub[t.winner] # NoRow
      /\ pub' = [pub EXCEPT ![t.winner] = survivor, ![t.loser] = NoRow]
      /\ review' = [Register!Forgotten({t.loser}) EXCEPT
                       ![t.on] = Register!PutAway(review[t.on], t)]
      /\ crossed' = crossed \cup Register!Overtaken(t)
      /\ Register!End(w) /\ UNCHANGED <<used, removed>>
  BY <1>1 DEF Register!MergeCommit
<1>3. /\ t # Register!Idle /\ t \in Register!Work /\ t.on \in Reviews
      /\ review[t.on] \in Register!ReviewRow /\ review[t.on] # NoRow
  BY <1>1, <1>2, RegisterInHand
<1>4. /\ t.winner \in Works /\ t.loser \in Works /\ t.lost \in Register!PubRow
      /\ t.winner # t.loser /\ t.loser \in used /\ t.seen # "merged"
      /\ t.inherits \in BOOLEAN
      /\ pub[t.loser] # NoRow => pub[t.loser].from = t.lost.from
  BY <1>2, <1>3 DEF Register!Work, Register!Idle, RegisterTask
<1>5. survivor \in Register!PubRow /\ survivor.from = pub[t.winner].from /\ survivor # NoRow
  <2>1. pub[t.winner] \in Register!PubRow
    BY <1>2, <1>4 DEF RegisterShape
  <2>2. PICK doi : doi = IF t.inherits THEN t.lost.doi ELSE pub[t.winner].doi
    OBVIOUS
  <2>3. doi \in Dois \cup {NoRow}
    BY <1>4, <2>1, <2>2 DEF Register!PubRow
  <2>4. survivor = [pub[t.winner] EXCEPT !.authors = @ \cup t.lost.authors,
                                         !.links = @ \cup t.lost.links, !.doi = doi]
    BY <1>1, <2>2 DEF Register!Merged
  <2>5. PICK names, links : /\ names = pub[t.winner].authors \cup t.lost.authors
                              /\ links = pub[t.winner].links \cup t.lost.links
    OBVIOUS
  <2>6. names \in SUBSET Register!Authors /\ links \in SUBSET Projects
    BY <1>4, <2>1, <2>5 DEF Register!PubRow
  <2>7. survivor = [pub[t.winner] EXCEPT !.authors = names, !.links = links, !.doi = doi]
    BY <2>4, <2>5
  <2>8. survivor \in Register!PubRow /\ survivor.from = pub[t.winner].from
    BY <2>1, <2>3, <2>6, <2>7 DEF Register!PubRow
  <2> QED BY <2>8 DEF RegisterShape
<1>6. \A j \in Works : pub'[j] = IF j = t.loser THEN NoRow
                                 ELSE IF j = t.winner THEN survivor ELSE pub[j]
  BY <1>2, <1>4 DEF RegisterShape
<1>7. pub' \in [Works -> Register!PubRow \cup {NoRow}]
  BY <1>2, <1>5 DEF RegisterShape
<1>8. PICK after, row : /\ after = Register!Forgotten({t.loser})
                        /\ row = Register!PutAway(review[t.on], t)
  OBVIOUS
<1>9. /\ row \in Register!ReviewRow /\ row # NoRow /\ row.of = {t.winner}
      /\ row.status = "merged" /\ row.snapshot = t.lost
  <2>1. PICK old \in Register!ReviewRow :
            row = [old EXCEPT !.of = {t.winner}, !.status = "merged", !.into = t.winner,
                              !.snapshot = t.lost]
    BY <1>3, <1>8 DEF Register!PutAway
  <2>2. /\ {t.winner} \in SUBSET Works /\ "merged" \in Register!DuplicateStatus
        /\ t.lost \in Register!PubRow \cup {NoRow}
    BY <1>4 DEF Register!DuplicateStatus
  <2>3. row \in Register!ReviewRow /\ row.of = {t.winner} /\ row.status = "merged"
        /\ row.snapshot = t.lost
    BY <1>4, <2>1, <2>2 DEF Register!ReviewRow
  <2> QED BY <2>3 DEF RegisterShape
<1>10. /\ after \in [Reviews -> Register!ReviewRow \cup {NoRow}]
       /\ \A r \in Reviews :
             /\ review[r] = NoRow => after[r] = NoRow
             /\ review[r] # NoRow =>
                   /\ after[r] # NoRow
                   /\ after[r].of = review[r].of \ {t.loser}
                   /\ after[r].status = review[r].status
                   /\ after[r].snapshot = review[r].snapshot
  BY <1>8, ForgottenFacts
<1>11. /\ review' = [after EXCEPT ![t.on] = row]
       /\ \A r \in Reviews : review'[r] = IF r = t.on THEN row ELSE after[r]
  BY <1>2, <1>8, <1>10
<1>12. review' \in [Reviews -> Register!ReviewRow \cup {NoRow}]
  BY <1>9, <1>10, <1>11
<1>13. RegisterRows'
  <2>1. \A r \in Reviews : review[r] # NoRow => \A j \in review[r].of : j \in Works
    BY DEF RegisterShape, Register!ReviewRow
  <2>2. t.winner \in used
    BY <1>2, <1>4 DEF RegisterRows
  <2>3. \A k \in Works : pub'[k] # NoRow => k \in used'
    BY <1>2, <1>6, <2>2 DEF RegisterRows
  <2>4. ASSUME NEW r \in Reviews, review'[r] # NoRow, NEW k \in review'[r].of
        PROVE  pub'[k] # NoRow
    <3>1. CASE r = t.on
      BY <1>4, <1>5, <1>6, <1>9, <1>11, <2>4, <3>1
    <3>2. CASE r # t.on
      <4>1. review[r] # NoRow /\ k \in review[r].of /\ k # t.loser
        BY <1>10, <1>11, <2>4, <3>2
      <4>2. k \in Works /\ pub[k] # NoRow
        BY <2>1, <4>1 DEF RegisterRows
      <4> QED BY <1>5, <1>6, <4>1, <4>2
    <3> QED BY <3>1, <3>2
  <2> QED BY <2>3, <2>4 DEF RegisterRows
<1>14. Snapshot(t.on, t.lost.from)'
  <2>1. t.lost # NoRow
    BY <1>4 DEF RegisterShape
  <2>2. review'[t.on] = row
    BY <1>3, <1>11
  <2>3. PICK o, on : o = t.lost.from /\ on = t.on
    OBVIOUS
  <2>4. Snapshot(on, o)'
    BY <1>9, <2>1, <2>2, <2>3 DEF Snapshot
  <2> QED BY <2>3, <2>4
<1>15. ASSUME NEW r \in Reviews, NEW o, Snapshot(r, o) PROVE o \in crossed' \/ Kept(o)'
  <2>1. CASE r = t.on
    <3>1. Register!WorksOf(review[t.on]) \subseteq Register!Overtaken(t)
      BY <1>2, <1>4, <1>15, <2>1 DEF Register!Overtaken, Snapshot
    <3>2. o \in Register!WorksOf(review[t.on])
      BY <1>15, <2>1 DEF Register!WorksOf, Snapshot
    <3> QED BY <1>2, <3>1, <3>2
  <2>2. CASE r # t.on
    BY <1>10, <1>11, <1>15, <2>2 DEF Kept, Snapshot
  <2> QED BY <2>1, <2>2
<1>16. ASSUME NEW k \in Works, NEW o, pub[k] # NoRow, pub[k].from = o PROVE Kept(o)'
  <2>1. CASE k = t.loser
    BY <1>3, <1>4, <1>14, <1>16, <2>1 DEF Kept
  <2>2. CASE k # t.loser
    BY <1>5, <1>6, <1>16, <2>2 DEF Kept
  <2> QED BY <2>1, <2>2
<1>17. \A r \in Reviews : review[r] # NoRow => review'[r] # NoRow
  BY <1>9, <1>10, <1>11
<1>18. \A k \in Works : pub'[k] # NoRow => pub[k] # NoRow /\ pub'[k].from = pub[k].from
  BY <1>2, <1>5, <1>6
<1> QED BY <1>2, <1>7, <1>12, <1>13, <1>15, <1>16, <1>17, <1>18 DEF RegisterWrites

LEMMA RegisterUndoWrites ==
    ASSUME RegisterInv, NEW w \in Workers, NEW k \in Works, Register!UndoCommit(w, k)
    PROVE  RegisterWrites /\ Register!End(w)
<1> USE DEF RegisterInv
<1>1. PICK t, given : t = work[w] /\ given = Register!GivenBack(t)
  OBVIOUS
<1>2. /\ t.op = "undo" /\ RegisterTask(t)
      /\ k \notin used /\ used' = used \cup {k}
      /\ pub' = [given EXCEPT ![k] = t.lost]
      /\ review' = [review EXCEPT ![t.on] =
            Register!Suspected(IF t.into \in Register!Stored THEN {t.into, k} ELSE {k})]
      /\ removed' = removed \cup {k}
      /\ crossed' = crossed \cup Register!Overtaken(t)
      /\ Register!End(w)
  BY <1>1 DEF Register!UndoCommit
<1>3. /\ t # Register!Idle /\ t \in Register!Work /\ t.on \in Reviews
      /\ review[t.on] \in Register!ReviewRow /\ review[t.on] # NoRow
  BY <1>1, <1>2, RegisterInHand
<1>4. t.lost \in Register!PubRow /\ t.lost # NoRow
  BY <1>2, <1>3 DEF Register!Work, Register!Idle, RegisterShape
<1>5. \A j \in Works :
        /\ pub[j] = NoRow => given[j] = NoRow
        /\ pub[j] # NoRow => given[j] \in Register!PubRow /\ given[j].from = pub[j].from
  <2> SUFFICES ASSUME NEW j \in Works
               PROVE  /\ pub[j] = NoRow => given[j] = NoRow
                      /\ pub[j] # NoRow => /\ given[j] \in Register!PubRow
                                           /\ given[j].from = pub[j].from
    OBVIOUS
  <2>1. pub[j] \in Register!PubRow \/ pub[j] = NoRow
    BY DEF RegisterShape
  <2>2. given[j] = pub[j] \/ (pub[j] # NoRow /\ given[j] = [pub[j] EXCEPT !.doi = NoRow])
    BY <1>1 DEF Register!GivenBack
  <2> QED BY <2>1, <2>2 DEF Register!PubRow
<1>6. DOMAIN given = Works /\ given = [j \in Works |-> given[j]]
  BY <1>1 DEF Register!GivenBack
<1>7. pub[k] = NoRow /\ \A j \in Works : pub'[j] = IF j = k THEN t.lost ELSE given[j]
  BY <1>2, <1>6 DEF RegisterRows
<1>8. pub' \in [Works -> Register!PubRow \cup {NoRow}]
  <2>1. given \in [Works -> Register!PubRow \cup {NoRow}]
    BY <1>5, <1>6 DEF RegisterShape
  <2> QED BY <1>2, <1>4, <2>1
<1>9. PICK of, row : /\ of = IF t.into \in Register!Stored THEN {t.into, k} ELSE {k}
                     /\ row = Register!Suspected(of)
  OBVIOUS
<1>10. /\ of \subseteq Works /\ \A j \in of : j = k \/ pub[j] # NoRow
       /\ row \in Register!ReviewRow /\ row # NoRow /\ row.of = of
  <2>1. of \subseteq Works /\ \A j \in of : j = k \/ pub[j] # NoRow
    BY <1>9 DEF Register!Stored
  <2>2. row = [of |-> of, status |-> "suspected", into |-> NoRow, snapshot |-> NoRow]
    BY <1>9 DEF Register!Suspected
  <2> QED BY <2>1, <2>2 DEF Register!ReviewRow, Register!DuplicateStatus, RegisterShape
<1>11. /\ review' = [review EXCEPT ![t.on] = row]
       /\ \A r \in Reviews : review'[r] = IF r = t.on THEN row ELSE review[r]
  BY <1>2, <1>9 DEF RegisterShape
<1>12. review' \in [Reviews -> Register!ReviewRow \cup {NoRow}]
  BY <1>10, <1>11 DEF RegisterShape
<1>13. \A j \in Works : pub[j] # NoRow \/ j = k => pub'[j] # NoRow
  BY <1>4, <1>5, <1>7 DEF RegisterShape
<1>14. RegisterRows'
  <2>1. \A r \in Reviews : review[r] # NoRow => \A j \in review[r].of : j \in Works
    BY DEF RegisterShape, Register!ReviewRow
  <2>2. \A j \in Works : pub'[j] # NoRow => j \in used'
    BY <1>2, <1>5, <1>7 DEF RegisterRows
  <2>3. \A r \in Reviews : review'[r] # NoRow => \A j \in review'[r].of : pub'[j] # NoRow
    BY <1>10, <1>11, <1>13, <2>1 DEF RegisterRows
  <2> QED BY <2>2, <2>3 DEF RegisterRows
<1>15. ASSUME NEW j \in Works, NEW o, pub[j] # NoRow, pub[j].from = o PROVE Kept(o)'
  <2>1. j # k
    BY <1>7, <1>15
  <2> QED BY <1>5, <1>7, <1>13, <1>15, <2>1 DEF Kept
<1>16. ASSUME NEW o, o = t.lost.from PROVE Kept(o)'
  BY <1>4, <1>7, <1>16 DEF Kept
<1>17. ASSUME NEW r \in Reviews, NEW o, Snapshot(r, o) PROVE o \in crossed' \/ Kept(o)'
  <2>1. CASE r = t.on /\ review[r].snapshot = t.lost
    BY <1>16, <1>17, <2>1 DEF Snapshot
  <2>2. CASE r = t.on /\ review[r].snapshot # t.lost
    <3>1. Register!WorksOf(review[t.on]) \subseteq Register!Overtaken(t)
      BY <1>2, <2>2 DEF Register!Overtaken
    <3>2. o \in Register!WorksOf(review[t.on])
      BY <1>17, <2>2 DEF Register!WorksOf, Snapshot
    <3> QED BY <1>2, <3>1, <3>2
  <2>3. CASE r # t.on
    BY <1>11, <1>17, <2>3 DEF Kept, Snapshot
  <2> QED BY <2>1, <2>2, <2>3
<1>18. \A r \in Reviews : review[r] # NoRow => review'[r] # NoRow
  BY <1>10, <1>11
<1>19. \A j \in used : j \in Works /\ pub'[j] # NoRow =>
          pub[j] # NoRow /\ pub'[j].from = pub[j].from
  BY <1>2, <1>5, <1>7
<1> QED BY <1>2, <1>8, <1>12, <1>14, <1>15, <1>17, <1>18, <1>19 DEF RegisterWrites

LEMMA RegisterNext ==
    ASSUME RegisterInv, [Register!Next]_<<users, Register!registerVars>>
    PROVE  RegisterInv'
<1>1. CASE UNCHANGED <<users, Register!registerVars>>
  BY <1>1 DEF Register!registerVars, RegisterInv, RegisterShape, RegisterRows, RegisterTask,
     Kept, Snapshot
<1>2. CASE Register!Next
  BY <1>2, RegisterWritesKeep, RegisterCreateWrites, RegisterUpdateWrites,
     RegisterDeleteWrites, RegisterScanWrites, RegisterAccountWrites, RegisterLoadKeeps,
     RegisterSettleWrites, RegisterMergeWrites, RegisterUndoWrites, RegisterRollbackKeeps
     DEF Register!Next
<1> QED BY <1>1, <1>2

\* On the desk, while it is the part that runs.
LEMMA RegisterRuns ==
    /\ Init /\ part = "register" => Register!UsersTypeOK /\ Register!Init
    /\ [Next]_vars /\ part = "register" => part' = "register" /\ [Register!Next]_<<users, Register!registerVars>>
<1>1. Init /\ part = "register" => Register!UsersTypeOK /\ Register!Init
  BY DEF Init
<1>2. ASSUME Next, part = "register" PROVE part' = "register" /\ Register!Next
  BY <1>2 DEF Next
<1>3. ASSUME UNCHANGED vars, part = "register"
      PROVE  part' = "register" /\ UNCHANGED <<users, Register!registerVars>>
  BY <1>3 DEF vars, registerOwn, Register!registerVars
<1> QED BY <1>1, <1>2, <1>3

LEMMA RegisterHold == Spec => [](part = "register" => RegisterInv)
<1>1. Init => (part = "register" => RegisterInv)
  BY RegisterRuns, RegisterInit, RowsAssumption
<1>2. (part = "register" => RegisterInv) /\ [Next]_vars => (part = "register" => RegisterInv)'
  <2> SUFFICES ASSUME part = "register" => RegisterInv, [Next]_vars, part' = "register"
               PROVE  RegisterInv'
    OBVIOUS
  <2>1. part = "register"
    BY DEF Next, vars
  <2> QED BY <2>1, RegisterRuns, RegisterNext, RowsAssumption
<1> QED BY <1>1, <1>2, PTL DEF Spec

\* However edits, scans, merges, their undoing and closed accounts overlap, a publication
\* nobody deleted is in the register or in the snapshot of a merge that can be undone, unless
\* two handlers were on it at once (publications/service.py, deduplication/service.py).
THEOREM MergesLoseNoWork == Spec => []NoWorkIsLost
<1>1. (part = "register" => RegisterInv) => NoWorkIsLost
  BY DEF NoWorkIsLost, RegisterInv, Kept, Snapshot, Register!NoWorkIsLost, Register!Stored,
     Register!Rows
<1> QED BY <1>1, RegisterHold, PTL

-----------------------------------------------------------------------------
(* Profiles, their verification and imports *)

\* An import in hand; what a refused work makes it read again may be anything.
InHand ==
    [op : {"import"}, by : Profiled, seen : Imports!VerificationStatus \cup {NoRow},
     todo : SUBSET Papers, pending : BOOLEAN, applied : BOOLEAN, imported : BOOLEAN]
ImportsWork == Imports!Work \cup InHand

ImportsShape ==
    /\ NoRow \notin Imports!UserRow
    /\ Imports!UsersTypeOK
    /\ profile \in [Profiled -> Imports!VerificationStatus \cup {NoRow}]
    /\ unseen \in [Profiled -> SUBSET Imports!Claims]
    /\ work \in [Workers -> ImportsWork]

\* Nobody moves under a verification they have read; fields wait only when some were ticked.
ImportsTask(t) ==
    /\ t.op = "save" =>
          /\ Imports!Exists(t.by)
          /\ t.moves /\ ~Imports!IsAdmin(t.by) => t.seen # "verified"
    /\ t.op = "import" => Imports!Exists(t.by) /\ (t.pending => t.applied)

HasImported(p) ==
    \E w \in Workers : work[w].op = "import" /\ work[w].by = p /\ work[w].imported

\* What nobody has looked at came with an import that will still answer for it.
AnsweredFor(p) ==
    Imports!Exists(p) /\ ~Imports!IsAdmin(p) /\ profile[p] = "verified" /\ unseen[p] # {}
        => HasImported(p)

ImportsInv ==
    /\ ImportsShape
    /\ \A w \in Workers : ImportsTask(work[w])
    /\ \A p \in Profiled \ crossed : AnsweredFor(p)

LEMMA ImportsInit ==
    ASSUME NoRow \notin Imports!UserRow, Imports!UsersTypeOK, Imports!Init
    PROVE  ImportsInv
<1>1. ImportsShape
  BY DEF Imports!Init, ImportsShape, ImportsWork, Imports!Work
<1>2. \A w \in Workers : work[w] = Imports!Idle /\ work[w].op = "idle"
  BY DEF Imports!Init, Imports!Idle
<1> QED BY <1>1, <1>2 DEF Imports!Init, ImportsInv, ImportsTask, AnsweredFor

\* A handler goes on from what it has in hand, or ends: those of the others stay.
ImportsTakes(w, t) ==
    /\ work' = [work EXCEPT ![w] = t]
    /\ t \in ImportsWork
    /\ ImportsTask(t)

\* Neither a role nor whether somebody has an account changes.
SamePeople ==
    /\ Imports!UsersTypeOK'
    /\ \A p \in Profiled :
           /\ Imports!Exists(p)' = Imports!Exists(p)
           /\ Imports!Exists(p) => Imports!IsAdmin(p)' = Imports!IsAdmin(p)

LEMMA ImportsTasksStay ==
    ASSUME ImportsInv, NEW w \in Workers, NEW t, ImportsTakes(w, t), SamePeople
    PROVE  /\ work' \in [Workers -> ImportsWork]
           /\ \A v \in Workers : ImportsTask(work[v])'
           /\ \A v \in Workers : work'[v] = IF v = w THEN t ELSE work[v]
<1> USE DEF ImportsInv
<1>1. /\ work' \in [Workers -> ImportsWork]
      /\ \A v \in Workers : work'[v] = IF v = w THEN t ELSE work[v]
  BY DEF ImportsTakes, ImportsShape
<1>2. ASSUME NEW u \in ImportsWork, ImportsTask(u) PROVE ImportsTask(u)'
  <2>1. u.op \in {"save", "import"} => u.by \in Profiled
    BY <1>2 DEF ImportsWork, InHand, Imports!Work, Imports!Idle
  <2> QED BY <1>2, <2>1 DEF ImportsTask, SamePeople
<1>3. ASSUME NEW v \in Workers PROVE ImportsTask(work[v])'
  <2>1. PICK u \in ImportsWork : u = IF v = w THEN t ELSE work[v]
    BY DEF ImportsTakes, ImportsShape
  <2>2. ImportsTask(u)'
    BY <1>2, <2>1 DEF ImportsTakes
  <2> QED BY <1>1, <2>1, <2>2
<1> QED BY <1>1, <1>3

LEMMA ImportsSamePeople ==
    ASSUME ImportsInv, users' = users
    PROVE  SamePeople
BY DEF SamePeople, ImportsInv, ImportsShape, Imports!UsersTypeOK, Imports!Exists,
   Imports!IsAdmin

\* A handler that looks, passes a work over or is refused one: nothing is written, and
\* nothing that was imported is forgotten.
LEMMA ImportsLookKeeps ==
    ASSUME ImportsInv, UNCHANGED <<users, profile, unseen>>, crossed \subseteq crossed',
           NEW w \in Workers, NEW t, ImportsTakes(w, t),
           work[w].op = "import" /\ work[w].imported =>
              \/ work[w].by \in crossed'
              \/ t.op = "import" /\ t.by = work[w].by /\ t.imported
    PROVE  ImportsInv'
<1> USE DEF ImportsInv
<1>1. SamePeople
  BY ImportsSamePeople
<1>2. /\ work' \in [Workers -> ImportsWork]
      /\ \A v \in Workers : ImportsTask(work[v])'
      /\ \A v \in Workers : work'[v] = IF v = w THEN t ELSE work[v]
  BY <1>1, ImportsTasksStay
<1>3. ImportsShape'
  BY <1>2 DEF ImportsShape, Imports!UsersTypeOK
<1>4. ASSUME NEW p \in Profiled \ crossed' PROVE AnsweredFor(p)'
  <2>1. HasImported(p) => HasImported(p)'
    BY <1>2, <1>4 DEF HasImported
  <2>2. AnsweredFor(p)
    BY <1>4
  <2> QED BY <2>1, <2>2 DEF AnsweredFor, Imports!Exists, Imports!IsAdmin
<1> QED BY <1>2, <1>3, <1>4

LEMMA ImportsIdle ==
    Imports!Idle \in ImportsWork /\ Imports!Idle.op = "idle" /\ ImportsTask(Imports!Idle)
BY DEF ImportsWork, Imports!Work, Imports!Idle, ImportsTask

LEMMA ImportsLoadKeeps ==
    ASSUME ImportsInv, NEW w \in Workers, NEW p \in Profiled,
           \/ \E d \in Branches : Imports!SaveLoad(w, p, d)
           \/ \E r \in Profiled, d \in {"verified", "rejected"} : Imports!VerifyLoad(w, r, p, d)
           \/ \E wanted \in BOOLEAN, found \in SUBSET Papers :
                 Imports!ImportLoad(w, p, wanted, found)
    PROVE  ImportsInv'
<1> USE DEF ImportsInv
<1>1. /\ UNCHANGED <<users, profile, unseen, crossed>> /\ work[w].op = "idle"
      /\ profile[p] \in Imports!VerificationStatus \cup {NoRow}
      /\ unseen[p] \in SUBSET Imports!Claims
  BY DEF Imports!SaveLoad, Imports!VerifyLoad, Imports!ImportLoad, Imports!RowsUnchanged,
     Imports!Begin, Imports!Idle, ImportsShape
<1>2. ASSUME NEW d \in Branches, Imports!SaveLoad(w, p, d) PROVE ImportsInv'
  <2>1. PICK moving \in BOOLEAN : moving = (d # users[p].department)
    OBVIOUS
  <2>2. PICK t : t = [op |-> "save", by |-> p, seen |-> profile[p], moves |-> moving, to |-> d]
    OBVIOUS
  <2>3. work' = [work EXCEPT ![w] = t]
    BY <1>2, <2>1, <2>2 DEF Imports!SaveLoad, Imports!Begin
  <2>4. t \in Imports!Work
    BY <1>1, <2>2 DEF Imports!Work
  <2>5. Imports!Exists(p) /\ (moving /\ ~Imports!IsAdmin(p) => profile[p] # "verified")
    BY <1>2, <2>1 DEF Imports!SaveLoad, Imports!SignedIn, Imports!DepartmentLocked
  <2>6. ImportsTask(t)
    BY <2>2, <2>5 DEF ImportsTask
  <2> QED BY <1>1, <2>3, <2>4, <2>6, ImportsLookKeeps DEF ImportsTakes, ImportsWork
<1>3. ASSUME NEW r \in Profiled, NEW d \in {"verified", "rejected"},
             Imports!VerifyLoad(w, r, p, d)
      PROVE  ImportsInv'
  <2>1. PICK t : /\ t = [op |-> "verify", of |-> p, looked |-> unseen[p], decision |-> d]
                 /\ work' = [work EXCEPT ![w] = t]
    BY <1>3 DEF Imports!VerifyLoad, Imports!Begin
  <2>2. t \in Imports!Work /\ ImportsTask(t)
    BY <1>1, <2>1 DEF Imports!Work, ImportsTask
  <2> QED BY <1>1, <2>1, <2>2, ImportsLookKeeps DEF ImportsTakes, ImportsWork
<1>4. ASSUME NEW wanted \in BOOLEAN, NEW found \in SUBSET Papers,
             Imports!ImportLoad(w, p, wanted, found)
      PROVE  ImportsInv'
  <2>1. PICK t : /\ t = [op |-> "import", by |-> p, seen |-> profile[p], todo |-> found,
                         pending |-> wanted, applied |-> wanted, imported |-> FALSE]
                 /\ work' = [work EXCEPT ![w] = t]
    BY <1>4 DEF Imports!ImportLoad, Imports!Begin
  <2>2. Imports!Exists(p) /\ profile[p] \in Imports!VerificationStatus
    BY <1>1, <1>4 DEF Imports!ImportLoad, Imports!SignedIn
  <2>3. t \in Imports!Work /\ ImportsTask(t)
    BY <2>1, <2>2 DEF Imports!Work, ImportsTask
  <2> QED BY <1>1, <2>1, <2>3, ImportsLookKeeps DEF ImportsTakes, ImportsWork
<1> QED BY <1>2, <1>3, <1>4

LEMMA ImportsInHand ==
    ASSUME ImportsInv, NEW w \in Workers, work[w].op = "import"
    PROVE  /\ work[w] \in InHand /\ Imports!Exists(work[w].by)
           /\ work[w].pending => work[w].applied
<1>1. work[w] \in InHand
  BY DEF ImportsInv, ImportsShape, ImportsWork, InHand, Imports!Work, Imports!Idle
<1> QED BY <1>1 DEF ImportsInv, ImportsTask

\* The next state of what an import has in hand.
GoesOn(w, u, t) ==
    /\ u = work[w] /\ work' = [work EXCEPT ![w] = t]
    /\ t \in InHand /\ t.by = u.by /\ t.applied = u.applied
    /\ t.pending => u.pending
    /\ u.imported => t.imported

LEMMA ImportsGoOn ==
    ASSUME ImportsInv, NEW w \in Workers, NEW k \in Papers,
           Imports!PassOver(w, k) \/ Imports!Enter(w, k) \/ Imports!Refuse(w, k)
    PROVE  \E u, t : GoesOn(w, u, t) /\ (Imports!Enter(w, k) => t.imported)
<1> USE DEF ImportsInv
<1>1. PICK u : u = work[w]
  OBVIOUS
<1>2. u \in InHand
  BY <1>1, ImportsInHand DEF Imports!PassOver, Imports!Enter, Imports!Refuse,
     Imports!Importing
<1>3. profile[u.by] \in Imports!VerificationStatus \cup {NoRow}
  BY <1>2 DEF InHand, ImportsShape
<1>4. CASE Imports!PassOver(w, k)
  <2>1. PICK t : t = [u EXCEPT !.todo = @ \ {k}]
    OBVIOUS
  <2>2. work' = [work EXCEPT ![w] = t]
    BY <1>1, <1>4, <2>1 DEF Imports!PassOver, ImportsShape
  <2>3. t \in InHand /\ t.by = u.by /\ t.applied = u.applied /\ t.pending = u.pending
        /\ t.imported = u.imported
    BY <1>2, <2>1 DEF InHand
  <2>4. ~Imports!Enter(w, k)
    BY <1>4 DEF Imports!PassOver, Imports!Enter
  <2> QED BY <1>1, <2>2, <2>3, <2>4 DEF GoesOn
<1>5. CASE Imports!Enter(w, k)
  <2>1. PICK t : t = [u EXCEPT !.todo = @ \ {k}, !.pending = FALSE, !.imported = TRUE]
    OBVIOUS
  <2>2. work' = [work EXCEPT ![w] = t]
    BY <1>1, <1>5, <2>1 DEF Imports!Enter
  <2>3. t \in InHand /\ t.by = u.by /\ t.applied = u.applied /\ ~t.pending /\ t.imported
    BY <1>2, <2>1 DEF InHand
  <2> QED BY <1>1, <2>2, <2>3 DEF GoesOn
<1>6. CASE Imports!Refuse(w, k) /\ ~Imports!Enter(w, k)
  <2>1. PICK t : t = [u EXCEPT !.todo = @ \ {k}, !.pending = FALSE, !.seen = profile[u.by]]
    OBVIOUS
  <2>2. work' = [work EXCEPT ![w] = t]
    BY <1>1, <1>6, <2>1 DEF Imports!Refuse
  <2>3. t \in InHand /\ t.by = u.by /\ t.applied = u.applied /\ ~t.pending
        /\ t.imported = u.imported
    BY <1>2, <1>3, <2>1 DEF InHand
  <2> QED BY <1>1, <1>6, <2>2, <2>3 DEF GoesOn
<1> QED BY <1>4, <1>5, <1>6

LEMMA ImportsPassKeeps ==
    ASSUME ImportsInv, NEW w \in Workers, NEW k \in Papers,
           Imports!PassOver(w, k) \/ Imports!Refuse(w, k)
    PROVE  ImportsInv'
<1> USE DEF ImportsInv
<1>1. /\ UNCHANGED <<users, profile, unseen, crossed>> /\ work[w].op = "import"
  BY DEF Imports!PassOver, Imports!Refuse, Imports!RowsUnchanged, Imports!Importing
<1>2. PICK u, t : GoesOn(w, u, t)
  BY ImportsGoOn
<1>3. Imports!Exists(u.by) /\ (u.pending => u.applied)
  BY <1>1, <1>2, ImportsInHand DEF GoesOn
<1>4. t.op = "import" /\ ImportsTakes(w, t)
  BY <1>2, <1>3 DEF GoesOn, ImportsTakes, ImportsTask, ImportsWork, InHand
<1> QED BY <1>1, <1>2, <1>4, ImportsLookKeeps DEF GoesOn

LEMMA ImportsEnterKeeps ==
    ASSUME ImportsInv, NEW w \in Workers, NEW k \in Papers, Imports!Enter(w, k)
    PROVE  ImportsInv'
<1> USE DEF ImportsInv
<1>1. PICK u, t : GoesOn(w, u, t) /\ t.imported
  BY ImportsGoOn
<1>2. u \in InHand /\ Imports!Exists(u.by) /\ (u.pending => u.applied)
  BY <1>1, ImportsInHand DEF GoesOn, Imports!Enter, Imports!Importing
<1>3. ImportsTakes(w, t)
  BY <1>1, <1>2 DEF GoesOn, ImportsTakes, ImportsTask, ImportsWork, InHand
<1>4. /\ UNCHANGED <<users, profile, crossed>>
      /\ unseen' = [unseen EXCEPT ![u.by] = @ \cup Imports!Brings(u, {k})]
  BY <1>1 DEF Imports!Enter, GoesOn
<1>5. SamePeople
  BY <1>4, ImportsSamePeople
<1>6. /\ work' \in [Workers -> ImportsWork]
      /\ \A v \in Workers : ImportsTask(work[v])'
      /\ \A v \in Workers : work'[v] = IF v = w THEN t ELSE work[v]
  BY <1>3, <1>5, ImportsTasksStay
<1>7. ImportsShape'
  <2>1. Imports!Brings(u, {k}) \subseteq Imports!Claims
    BY DEF Imports!Brings, Imports!Claims
  <2>2. unseen' \in [Profiled -> SUBSET Imports!Claims]
    BY <1>2, <1>4, <2>1 DEF ImportsShape, InHand
  <2> QED BY <1>4, <1>6, <2>2 DEF ImportsShape, Imports!UsersTypeOK
<1>8. ASSUME NEW p \in Profiled \ crossed' PROVE AnsweredFor(p)'
  <2>1. CASE p = u.by
    <3>1. HasImported(p)'
      BY <1>1, <1>2, <1>6, <2>1 DEF HasImported, GoesOn, InHand
    <3> QED BY <3>1 DEF AnsweredFor
  <2>2. CASE p # u.by
    <3>1. unseen'[p] = unseen[p]
      BY <1>4, <2>2 DEF ImportsShape
    <3>2. HasImported(p) => HasImported(p)'
      BY <1>1, <1>6, <2>2 DEF HasImported, GoesOn
    <3> QED BY <1>4, <1>8, <3>1, <3>2 DEF AnsweredFor, Imports!Exists, Imports!IsAdmin
  <2> QED BY <2>1, <2>2
<1> QED BY <1>6, <1>7, <1>8

LEMMA ImportsBreakKeeps ==
    ASSUME ImportsInv, NEW w \in Workers, Imports!Break(w)
    PROVE  ImportsInv'
<1>1. /\ UNCHANGED <<users, profile, unseen>> /\ crossed \subseteq crossed'
      /\ work' = [work EXCEPT ![w] = Imports!Idle]
      /\ work[w].op = "import" /\ work[w].imported => work[w].by \in crossed'
  BY DEF Imports!Break, Imports!End, Imports!RowsUnchanged, Imports!Overtaken,
     Imports!Importing
<1>2. ImportsTakes(w, Imports!Idle)
  BY <1>1, ImportsIdle DEF ImportsTakes
<1> QED BY <1>1, <1>2, ImportsLookKeeps

\* Whoever ends without having imported leaves the others' imports answering.
LEMMA ImportsEnds ==
    ASSUME ImportsInv, NEW w \in Workers, Imports!End(w), SamePeople
    PROVE  /\ work' \in [Workers -> ImportsWork]
           /\ \A v \in Workers : ImportsTask(work[v])'
           /\ \A p : ~(work[w].op = "import" /\ work[w].by = p /\ work[w].imported) =>
                 (HasImported(p) => HasImported(p)')
<1>1. ImportsTakes(w, Imports!Idle)
  BY ImportsIdle DEF ImportsTakes, Imports!End
<1>2. /\ work' \in [Workers -> ImportsWork]
      /\ \A v \in Workers : ImportsTask(work[v])'
      /\ \A v \in Workers : work'[v] = IF v = w THEN Imports!Idle ELSE work[v]
  BY <1>1, ImportsTasksStay
<1> QED BY <1>2 DEF HasImported

LEMMA ImportsVerifyKeeps ==
    ASSUME ImportsInv, NEW w \in Workers, Imports!VerifyCommit(w)
    PROVE  ImportsInv'
<1> USE DEF ImportsInv
<1>1. PICK u : u = work[w]
  OBVIOUS
<1>2. /\ u.op = "verify" /\ Imports!End(w) /\ users' = users
      /\ profile' = [profile EXCEPT ![u.of] = u.decision]
      /\ unseen' = [unseen EXCEPT ![u.of] = @ \ u.looked]
      /\ crossed \subseteq crossed'
      /\ unseen[u.of] # u.looked => u.of \in crossed'
  BY <1>1 DEF Imports!VerifyCommit, Imports!Overtaken
<1>3. u.of \in Profiled /\ u.decision \in {"verified", "rejected"}
  BY <1>1, <1>2 DEF ImportsShape, ImportsWork, InHand, Imports!Work, Imports!Idle
<1>4. SamePeople
  BY <1>2, ImportsSamePeople
<1>5. /\ work' \in [Workers -> ImportsWork]
      /\ \A v \in Workers : ImportsTask(work[v])'
      /\ \A p : HasImported(p) => HasImported(p)'
  BY <1>1, <1>2, <1>4, ImportsEnds
<1>6. ImportsShape'
  BY <1>2, <1>3, <1>5 DEF ImportsShape, Imports!UsersTypeOK, Imports!VerificationStatus
<1>7. ASSUME NEW p \in Profiled \ crossed' PROVE AnsweredFor(p)'
  <2>1. CASE p = u.of
    BY <1>2, <1>3, <1>7, <2>1 DEF AnsweredFor, ImportsShape
  <2>2. CASE p # u.of
    <3>1. profile'[p] = profile[p] /\ unseen'[p] = unseen[p]
      BY <1>2, <2>2 DEF ImportsShape
    <3> QED BY <1>2, <1>5, <1>7, <3>1 DEF AnsweredFor, Imports!Exists, Imports!IsAdmin
  <2> QED BY <2>1, <2>2
<1> QED BY <1>5, <1>6, <1>7

LEMMA ImportsCommitKeeps ==
    ASSUME ImportsInv, NEW w \in Workers, Imports!ImportCommit(w)
    PROVE  ImportsInv'
<1> USE DEF ImportsInv
<1>1. PICK u : u = work[w]
  OBVIOUS
<1>2. /\ u.op = "import" /\ Imports!End(w) /\ users' = users
      /\ profile' = [profile EXCEPT ![u.by] = IF Imports!Unearned(u) THEN "pending" ELSE @]
      /\ unseen' = [unseen EXCEPT ![u.by] = @ \cup Imports!Brings(u, {})]
      /\ crossed \subseteq crossed'
      /\ profile[u.by] # u.seen => u.by \in crossed'
  BY <1>1 DEF Imports!ImportCommit, Imports!Overtaken, Imports!Importing
<1>3. u \in InHand /\ Imports!Exists(u.by) /\ (u.pending => u.applied)
  BY <1>1, <1>2, ImportsInHand
<1>4. SamePeople
  BY <1>2, ImportsSamePeople
<1>5. /\ work' \in [Workers -> ImportsWork]
      /\ \A v \in Workers : ImportsTask(work[v])'
      /\ \A p : p # u.by \/ ~u.imported => (HasImported(p) => HasImported(p)')
  BY <1>1, <1>2, <1>4, ImportsEnds
<1>6. ImportsShape'
  <2>1. Imports!Brings(u, {}) \subseteq Imports!Claims
    BY DEF Imports!Brings, Imports!Claims
  <2> QED BY <1>2, <1>3, <1>5, <2>1 DEF ImportsShape, Imports!UsersTypeOK, InHand,
          Imports!VerificationStatus
<1>7. ASSUME NEW p \in Profiled \ crossed' PROVE AnsweredFor(p)'
  <2>1. CASE p = u.by
    <3> SUFFICES ASSUME ~Imports!IsAdmin(p)', profile'[p] = "verified", unseen'[p] # {}
                 PROVE  HasImported(p)'
      BY DEF AnsweredFor
    <3>1. profile[p] = u.seen /\ ~Imports!IsAdmin(p)
      BY <1>2, <1>7, <2>1 DEF Imports!IsAdmin
    <3>2. ~Imports!Unearned(u) /\ u.seen = "verified"
      BY <1>2, <1>3, <2>1, <3>1 DEF ImportsShape, InHand
    <3>3. ~u.applied /\ ~u.imported /\ ~u.pending
      BY <1>3, <2>1, <3>1, <3>2 DEF Imports!Unearned
    <3>4. Imports!Brings(u, {}) = {}
      BY <3>3 DEF Imports!Brings
    <3>5. unseen'[p] = unseen[p]
      BY <1>2, <2>1, <3>4 DEF ImportsShape
    <3>6. HasImported(p)
      BY <1>2, <1>3, <1>7, <2>1, <3>1, <3>2, <3>5 DEF AnsweredFor
    <3> QED BY <1>5, <3>3, <3>6
  <2>2. CASE p # u.by
    <3>1. profile'[p] = profile[p] /\ unseen'[p] = unseen[p]
      BY <1>2, <2>2 DEF ImportsShape
    <3> QED BY <1>2, <1>5, <1>7, <2>2, <3>1 DEF AnsweredFor, Imports!Exists, Imports!IsAdmin
  <2> QED BY <2>1, <2>2
<1> QED BY <1>5, <1>6, <1>7

LEMMA ImportsSaveKeeps ==
    ASSUME ImportsInv, NEW w \in Workers, Imports!SaveCommit(w)
    PROVE  ImportsInv'
<1> USE DEF ImportsInv
<1>1. PICK u, status, moved, department :
          /\ u = work[w] /\ status = Imports!Submitted(u.by, u.seen)
          /\ moved = (u.moves /\ users[u.by].department # u.to)
          /\ department = IF u.moves THEN u.to ELSE users[u.by].department
  OBVIOUS
<1>2. /\ u.op = "save" /\ Imports!End(w)
      /\ profile' = [profile EXCEPT ![u.by] = IF status = u.seen THEN @ ELSE status]
      /\ unseen' = [unseen EXCEPT ![u.by] = IF moved THEN @ \cup {"department"} ELSE @]
      /\ crossed \subseteq crossed'
      /\ profile[u.by] # u.seen => u.by \in crossed'
  BY <1>1 DEF Imports!SaveCommit, Imports!Overtaken
<1>3. /\ u.by \in Profiled /\ u.to \in Branches
      /\ Imports!Exists(u.by) /\ (u.moves /\ ~Imports!IsAdmin(u.by) => u.seen # "verified")
  <2>1. u \in Imports!Work /\ ImportsTask(u)
    BY <1>1, <1>2 DEF ImportsShape, ImportsWork, InHand
  <2> QED BY <1>2, <2>1 DEF Imports!Work, Imports!Idle, ImportsTask
<1>4. /\ users[u.by] \in Imports!UserRow
      /\ users' = [users EXCEPT ![u.by] = [users[u.by] EXCEPT !.department = department]]
  <2>1. users' = [users EXCEPT ![u.by].department = IF u.moves THEN u.to ELSE @]
    BY <1>1 DEF Imports!SaveCommit
  <2> QED BY <1>1, <1>3, <2>1 DEF ImportsShape, Imports!UsersTypeOK, Imports!Exists
<1>5. SamePeople
  <2>1. department \in Branches \cup {NoRow}
    BY <1>1, <1>3, <1>4 DEF Imports!UserRow
  <2>2. PICK row : row = [users[u.by] EXCEPT !.department = department]
    OBVIOUS
  <2>3. row \in Imports!UserRow /\ row.role = users[u.by].role /\ row # NoRow
    BY <1>4, <2>1, <2>2 DEF Imports!UserRow, ImportsShape
  <2>4. \A p \in Profiled : users'[p] = IF p = u.by THEN row ELSE users[p]
    BY <1>4, <2>2 DEF ImportsShape, Imports!UsersTypeOK
  <2>5. Imports!UsersTypeOK'
    BY <1>4, <2>2, <2>3 DEF ImportsShape, Imports!UsersTypeOK
  <2> QED BY <1>3, <2>3, <2>4, <2>5 DEF SamePeople, Imports!Exists, Imports!IsAdmin
<1>6. /\ work' \in [Workers -> ImportsWork]
      /\ \A v \in Workers : ImportsTask(work[v])'
      /\ \A p : HasImported(p) => HasImported(p)'
  BY <1>1, <1>2, <1>5, ImportsEnds
<1>7. ImportsShape'
  <2>1. status \in Imports!VerificationStatus
    BY <1>1 DEF Imports!Submitted, Imports!VerificationStatus
  <2>2. profile' \in [Profiled -> Imports!VerificationStatus \cup {NoRow}]
    BY <1>2, <2>1 DEF ImportsShape
  <2>3. unseen' \in [Profiled -> SUBSET Imports!Claims]
    BY <1>2, <1>3 DEF ImportsShape, Imports!Claims
  <2> QED BY <1>5, <1>6, <2>2, <2>3 DEF ImportsShape, SamePeople
<1>8. ASSUME NEW p \in Profiled \ crossed' PROVE AnsweredFor(p)'
  <2>1. /\ Imports!Exists(p)' = Imports!Exists(p)
        /\ Imports!Exists(p) => Imports!IsAdmin(p)' = Imports!IsAdmin(p)
    BY <1>5, <1>8 DEF SamePeople
  <2>2. CASE p = u.by
    <3> SUFFICES ASSUME ~Imports!IsAdmin(p), profile'[p] = "verified", unseen'[p] # {}
                 PROVE  HasImported(p)'
      BY <1>3, <2>1, <2>2 DEF AnsweredFor
    <3>1. profile[p] = u.seen
      BY <1>2, <1>8, <2>2
    <3>2. profile'[p] = status
      BY <1>2, <1>3, <2>2, <3>1 DEF ImportsShape
    <3>3. u.seen = "verified"
      BY <1>1, <2>2, <3>2 DEF Imports!Submitted
    <3>4. ~moved
      BY <1>1, <1>3, <2>2, <3>3
    <3>5. unseen'[p] = unseen[p]
      BY <1>2, <2>2, <3>4 DEF ImportsShape
    <3> QED BY <1>3, <1>6, <1>8, <1>2, <2>2, <3>1, <3>3, <3>5 DEF AnsweredFor
  <2>3. CASE p # u.by
    <3>1. profile'[p] = profile[p] /\ unseen'[p] = unseen[p]
      BY <1>2, <2>3 DEF ImportsShape
    <3> QED BY <1>2, <1>6, <1>8, <2>1, <3>1 DEF AnsweredFor
  <2> QED BY <2>2, <2>3
<1> QED BY <1>6, <1>7, <1>8

LEMMA ImportsNext ==
    ASSUME ImportsInv, [Imports!Next]_<<users, Imports!importVars>>
    PROVE  ImportsInv'
<1>1. CASE UNCHANGED <<users, Imports!importVars>>
  BY <1>1 DEF Imports!importVars, ImportsInv, ImportsShape, ImportsTask, AnsweredFor,
     HasImported, Imports!UsersTypeOK, Imports!Exists, Imports!IsAdmin
<1>2. CASE Imports!Next
  BY <1>2, ImportsLoadKeeps, ImportsPassKeeps, ImportsEnterKeeps, ImportsBreakKeeps,
     ImportsVerifyKeeps, ImportsCommitKeeps, ImportsSaveKeeps DEF Imports!Next
<1> QED BY <1>1, <1>2

\* On the desk, while it is the part that runs.
LEMMA ImportsRuns ==
    /\ Init /\ part = "imports" => Imports!UsersTypeOK /\ Imports!Init
    /\ [Next]_vars /\ part = "imports" => part' = "imports" /\ [Imports!Next]_<<users, Imports!importVars>>
<1>1. Init /\ part = "imports" => Imports!UsersTypeOK /\ Imports!Init
  BY DEF Init
<1>2. ASSUME Next, part = "imports" PROVE part' = "imports" /\ Imports!Next
  BY <1>2 DEF Next
<1>3. ASSUME UNCHANGED vars, part = "imports"
      PROVE  part' = "imports" /\ UNCHANGED <<users, Imports!importVars>>
  BY <1>3 DEF vars, importOwn, Imports!importVars
<1> QED BY <1>1, <1>2, <1>3

LEMMA ImportsHold == Spec => [](part = "imports" => ImportsInv)
<1>1. Init => (part = "imports" => ImportsInv)
  BY ImportsRuns, ImportsInit, RowsAssumption
<1>2. (part = "imports" => ImportsInv) /\ [Next]_vars => (part = "imports" => ImportsInv)'
  <2> SUFFICES ASSUME part = "imports" => ImportsInv, [Next]_vars, part' = "imports"
               PROVE  ImportsInv'
    OBVIOUS
  <2>1. part = "imports"
    BY DEF Next, vars
  <2> QED BY <2>1, ImportsRuns, ImportsNext, RowsAssumption
<1> QED BY <1>1, <1>2, PTL DEF Spec

\* A verified researcher's record holds nothing, from outside or of their own, that no
\* reviewer has seen, unless handlers overtook one another on it or an import of theirs is
\* running or broke off (profiles/service.py, researchers/service.py, imports/service.py).
THEOREM VerifiedRecordsAreReviewed ==
    Spec => [](part = "imports" => Imports!VerifiedIsReviewed)
<1>1. (part = "imports" => ImportsInv) => (part = "imports" => Imports!VerifiedIsReviewed)
  BY DEF ImportsInv, AnsweredFor, HasImported, Imports!VerifiedIsReviewed, Imports!Running,
     Imports!Importing
<1> QED BY <1>1, ImportsHold, PTL

-----------------------------------------------------------------------------
(* Reminders *)

\* What a pass found, it found on one day.
NoticeLike(n) == n = [to |-> n.to, about |-> n.about, lead |-> n.lead, on |-> n.on]
PassShape(t) ==
    t # Reminders!Resting =>
        /\ t.on \in Nat /\ t.on <= today
        /\ \A n \in t.found : NoticeLike(n) /\ n.on = t.on

\* Notice n reminds of what o is owed.
Reminds(n, o) == n.to = o.to /\ n.about = <<"deadline", o.item>> /\ n.lead = o.lead

\* A pass that has read the deadlines today has found all that is owed today.
FoundAll(t) ==
    (t # Reminders!Resting /\ t.step = "deadlines" /\ t.read /\ t.on = today) =>
        \A o \in owed : \E n \in t.found : Reminds(n, o)

\* What is owed is due.
OwedIsDue ==
    \A o \in owed : \E lead \in LEAD_DAYS : \E s \in saved :
        /\ item[s[2]].open /\ item[s[2]].deadline = today + lead
        /\ o = [to |-> s[1], item |-> s[2], lead |-> lead]

RemindersInv ==
    /\ today \in Nat
    /\ DOMAIN item = Items /\ saved \subseteq Savers \X Items
    /\ DOMAIN pass = Workers
    /\ \A s \in Workers : PassShape(pass[s]) /\ FoundAll(pass[s])
    /\ \A n \in notified : NoticeLike(n)
    /\ OwedIsDue
    /\ Reminders!RemindedOnTheDay
    /\ Reminders!ToldOnce

LEMMA DueOnFacts ==
    ASSUME NEW on, NEW o
    PROVE  o \in Reminders!DueOn(on) <=>
              \E lead \in LEAD_DAYS : \E s \in Reminders!DueIn(on, lead) :
                  o = [to |-> s[1], item |-> s[2], lead |-> lead]
<1>1. o \in Reminders!DueOn(on) <=>
         \E lead \in LEAD_DAYS :
             o \in {[to |-> s[1], item |-> s[2], lead |-> lead] :
                       s \in Reminders!DueIn(on, lead)}
  BY Zenon DEF Reminders!DueOn
<1> QED BY <1>1

LEMMA DeadlinesFoundFacts ==
    ASSUME NEW n
    PROVE  n \in Reminders!DeadlinesFound <=>
              \E lead \in LEAD_DAYS : \E s \in Reminders!DueIn(today, lead) :
                  n = [to |-> s[1], about |-> <<"deadline", s[2]>>, lead |-> lead,
                       on |-> today]
<1>1. n \in Reminders!DeadlinesFound <=>
         \E lead \in LEAD_DAYS :
             n \in {Reminders!Reminder(s[1], "deadline", s[2], lead) :
                       s \in Reminders!DueIn(today, lead)}
  BY Zenon DEF Reminders!DeadlinesFound
<1> QED BY <1>1 DEF Reminders!Reminder

LEMMA FoundToday ==
    ASSUME NEW step, NEW n \in Reminders!Found(step)
    PROVE  NoticeLike(n) /\ n.on = today
<1>1. \A p, kind, x, lead :
        LET r == Reminders!Reminder(p, kind, x, lead) IN NoticeLike(r) /\ r.on = today
  BY DEF Reminders!Reminder, NoticeLike
<1>2. \E p, kind, x, lead : n = Reminders!Reminder(p, kind, x, lead)
  <2>1. CASE n \in Reminders!DeadlinesFound
    <3>1. PICK lead \in LEAD_DAYS :
              n \in {Reminders!Reminder(s[1], "deadline", s[2], lead) :
                        s \in Reminders!DueIn(today, lead)}
      BY Zenon, <2>1 DEF Reminders!DeadlinesFound
    <3> QED BY <3>1
  <2>2. CASE n \in Reminders!MilestonesFound
    <3>1. n \in Reminders!MilestonesOverdue
          \/ \E lead \in LEAD_DAYS : n \in Reminders!MilestonesDue(lead)
      BY Zenon, <2>2 DEF Reminders!MilestonesFound
    <3>2. CASE n \in Reminders!MilestonesOverdue
      BY <3>2 DEF Reminders!MilestonesOverdue
    <3>3. CASE \E lead \in LEAD_DAYS : n \in Reminders!MilestonesDue(lead)
      BY <3>3 DEF Reminders!MilestonesDue
    <3> QED BY <3>1, <3>2, <3>3
  <2>3. CASE n \in Reminders!SuggestionsFound
    BY Zenon, <2>3 DEF Reminders!SuggestionsFound
  <2> QED BY <2>1, <2>2, <2>3 DEF Reminders!Found
<1> QED BY <1>1, <1>2

LEMMA RemindersInit ==
    ASSUME Reminders!Init
    PROVE  RemindersInv
BY DEF Reminders!Init, RemindersInv, PassShape, FoundAll, OwedIsDue,
   Reminders!RemindedOnTheDay, Reminders!ToldOnce

\* A pass that starts, looks or ends.
LEMMA PassKeeps ==
    ASSUME RemindersInv, NEW s \in Workers, NEW t, pass' = [pass EXCEPT ![s] = t],
           PassShape(t), FoundAll(t),
           UNCHANGED <<today, item, saved, notified, owed, swept>>
    PROVE  RemindersInv'
<1> USE DEF RemindersInv
<1>1. \A v \in Workers : pass'[v] = IF v = s THEN t ELSE pass[v]
  OBVIOUS
<1>2. \A v \in Workers : PassShape(pass[v])' /\ FoundAll(pass[v])'
  BY <1>1 DEF PassShape, FoundAll
<1>3. OwedIsDue'
  BY DEF OwedIsDue
<1> QED BY <1>2, <1>3 DEF Reminders!RemindedOnTheDay, Reminders!ToldOnce

LEMMA LookKeeps ==
    ASSUME RemindersInv, NEW s \in Workers, NEW step, Reminders!Look(s, step)
    PROVE  RemindersInv'
<1> USE DEF RemindersInv
<1>1. PICK t : /\ t = [step |-> step, read |-> TRUE, on |-> today,
                       found |-> Reminders!Found(step)]
               /\ pass' = [pass EXCEPT ![s] = t]
  BY DEF Reminders!Look
<1>2. UNCHANGED <<today, item, saved, notified, owed, swept>>
  BY DEF Reminders!Look, Reminders!WorldUnchanged
<1>3. PassShape(t)
  BY <1>1, FoundToday DEF PassShape
<1>4. FoundAll(t)
  <2> SUFFICES ASSUME step = "deadlines", NEW o \in owed
               PROVE  \E n \in t.found : Reminds(n, o)
    BY <1>1 DEF FoundAll
  <2>1. t.found = Reminders!DeadlinesFound
    BY <1>1 DEF Reminders!Found
  <2>6. PICK lead \in LEAD_DAYS : \E x \in Reminders!DueIn(today, lead) :
            o = [to |-> x[1], item |-> x[2], lead |-> lead]
    BY DEF OwedIsDue, Reminders!DueIn
  <2>2. PICK x \in Reminders!DueIn(today, lead) :
            o = [to |-> x[1], item |-> x[2], lead |-> lead]
    BY <2>6
  <2>3. PICK n : n = [to |-> x[1], about |-> <<"deadline", x[2]>>, lead |-> lead,
                      on |-> today]
    OBVIOUS
  <2>4. n \in Reminders!DeadlinesFound
    BY <2>2, <2>3, DeadlinesFoundFacts
  <2> QED BY <2>1, <2>2, <2>3, <2>4 DEF Reminds
<1> QED BY <1>1, <1>2, <1>3, <1>4, PassKeeps

LEMMA PassMovesKeeps ==
    ASSUME RemindersInv, NEW s \in Workers,
           Reminders!Start(s) \/ Reminders!Finish(s) \/ Reminders!Fail(s)
    PROVE  RemindersInv'
<1> USE DEF RemindersInv
<1>1. UNCHANGED <<today, item, saved, notified, owed, swept>>
  BY DEF Reminders!Start, Reminders!Finish, Reminders!Fail, Reminders!WorldUnchanged
<1>2. PICK t : /\ \/ t = [step |-> "deadlines", read |-> FALSE, on |-> today, found |-> {}]
                  \/ t = Reminders!Resting
               /\ pass' = [pass EXCEPT ![s] = t]
  BY DEF Reminders!Start, Reminders!Finish, Reminders!Fail
<1>3. PassShape(t) /\ FoundAll(t)
  BY <1>2 DEF PassShape, FoundAll
<1> QED BY <1>1, <1>2, <1>3, PassKeeps

\* The channel tells whom it has not told: every notice found is there afterwards, and none
\* twice.
LEMMA KeptFacts ==
    ASSUME RemindersInv, NEW t, PassShape(t), t # Reminders!Resting,
           NEW after, after = notified \cup Reminders!Unsaid(t.found)
    PROVE  /\ \A n \in after : NoticeLike(n)
           /\ \A n \in t.found : \E m \in after :
                 m.to = n.to /\ m.about = n.about /\ m.lead = n.lead
           /\ \A m, n \in after :
                 m.to = n.to /\ m.about = n.about /\ m.lead = n.lead => m = n
<1> USE DEF RemindersInv
<1>1. \A n \in Reminders!Unsaid(t.found) :
        /\ n \in t.found /\ NoticeLike(n) /\ n.on = t.on
        /\ \A m \in notified :
              ~(m.to = n.to /\ m.about = n.about /\ m.lead = n.lead)
  BY DEF Reminders!Unsaid, Reminders!Key, PassShape
<1>2. ASSUME NEW n \in t.found
      PROVE  \E m \in after : m.to = n.to /\ m.about = n.about /\ m.lead = n.lead
  <2>1. CASE n \in Reminders!Unsaid(t.found)
    BY <2>1
  <2>2. CASE n \notin Reminders!Unsaid(t.found)
    <3>1. PICK m \in notified : m.to = n.to /\ Reminders!Key(m) = Reminders!Key(n)
      BY <2>2 DEF Reminders!Unsaid
    <3>2. m.about = n.about /\ m.lead = n.lead
      BY <3>1 DEF Reminders!Key
    <3> QED BY <3>1, <3>2
  <2> QED BY <2>1, <2>2
<1>3. ASSUME NEW m \in after, NEW n \in after,
             m.to = n.to, m.about = n.about, m.lead = n.lead
      PROVE  m = n
  <2>1. CASE m \in notified /\ n \in notified
    BY <1>3, <2>1 DEF Reminders!ToldOnce
  <2>2. CASE m \in Reminders!Unsaid(t.found) /\ n \in Reminders!Unsaid(t.found)
    BY <1>1, <1>3, <2>2 DEF NoticeLike
  <2> QED BY <1>1, <1>3, <2>1, <2>2
<1> QED BY <1>1, <1>2, <1>3

LEMMA CommitKeeps ==
    ASSUME RemindersInv, NEW s \in Workers,
           Reminders!CommitDeadlines(s) \/ Reminders!CommitMilestones(s)
    PROVE  RemindersInv'
<1> USE DEF RemindersInv
<1>1. PICK t : t = pass[s]
  OBVIOUS
<1>2. PICK after : after = notified \cup Reminders!Unsaid(t.found)
  OBVIOUS
<1>3. PICK u : /\ u.read = FALSE
               /\ u \in {[step |-> "milestones", read |-> FALSE, on |-> today, found |-> {}],
                         [step |-> "suggestions", read |-> FALSE, on |-> today, found |-> {}]}
               /\ pass' = [pass EXCEPT ![s] = u]
  BY DEF Reminders!CommitDeadlines, Reminders!CommitMilestones
<1>4. /\ UNCHANGED <<today, item, saved, owed>> /\ notified' = after
      /\ t # Reminders!Resting
  BY <1>1, <1>2 DEF Reminders!CommitDeadlines, Reminders!CommitMilestones, Reminders!Kept,
     Reminders!WorldUnchanged
<1>10. swept' => swept \/ (t.step = "deadlines" /\ t.read /\ t.on = today)
  BY Zenon, <1>1 DEF Reminders!CommitDeadlines, Reminders!CommitMilestones
<1>5. /\ \A n \in after : NoticeLike(n)
      /\ \A n \in t.found : \E m \in after :
            m.to = n.to /\ m.about = n.about /\ m.lead = n.lead
      /\ \A m, n \in after :
            m.to = n.to /\ m.about = n.about /\ m.lead = n.lead => m = n
  BY <1>1, <1>2, <1>4, KeptFacts
<1>6. \A v \in Workers : PassShape(pass[v])' /\ FoundAll(pass[v])'
  <2>1. PassShape(u) /\ FoundAll(u)
    BY <1>3 DEF PassShape, FoundAll
  <2>2. \A v \in Workers : pass'[v] = IF v = s THEN u ELSE pass[v]
    BY <1>3
  <2> QED BY <1>4, <2>1, <2>2 DEF PassShape, FoundAll
<1>7. OwedIsDue'
  BY <1>4 DEF OwedIsDue
<1>8. ASSUME swept', NEW o \in owed
      PROVE  \E n \in after : Reminds(n, o)
  <2>1. CASE swept
    BY <1>2, <2>1 DEF Reminders!RemindedOnTheDay, Reminds
  <2>2. CASE t.step = "deadlines" /\ t.read /\ t.on = today
    <3>1. PICK n \in t.found : Reminds(n, o)
      BY <1>1, <1>4, <2>2 DEF FoundAll
    <3>2. PICK m \in after : m.to = n.to /\ m.about = n.about /\ m.lead = n.lead
      BY <1>5
    <3> QED BY <3>1, <3>2 DEF Reminds
  <2> QED BY <1>8, <1>10, <2>1, <2>2
<1>9. Reminders!RemindedOnTheDay'
  BY <1>4, <1>8 DEF Reminders!RemindedOnTheDay, Reminds
<1> QED BY <1>3, <1>4, <1>5, <1>6, <1>7, <1>9 DEF Reminders!ToldOnce

\* What is saved, unsaved or changed meanwhile is owed no longer, or still due.
LEMMA WorldKeeps ==
    ASSUME RemindersInv, UNCHANGED <<today, pass, notified, swept>>,
           DOMAIN item' = Items, saved' \subseteq Savers \X Items,
           owed' \subseteq owed,
           \A o \in owed' : \A s \in saved :
               o.to = s[1] /\ o.item = s[2] =>
                   s \in saved' /\ item'[s[2]] = item[s[2]]
    PROVE  RemindersInv'
<1> USE DEF RemindersInv
<1>1. \A v \in Workers : PassShape(pass[v])' /\ FoundAll(pass[v])'
  BY DEF PassShape, FoundAll
<1>2. OwedIsDue'
  <2> SUFFICES ASSUME NEW o \in owed'
               PROVE  \E lead \in LEAD_DAYS : \E s \in saved' :
                         /\ item'[s[2]].open /\ item'[s[2]].deadline = today + lead
                         /\ o = [to |-> s[1], item |-> s[2], lead |-> lead]
    BY DEF OwedIsDue
  <2>1. PICK lead \in LEAD_DAYS : \E s \in saved :
            /\ item[s[2]].open /\ item[s[2]].deadline = today + lead
            /\ o = [to |-> s[1], item |-> s[2], lead |-> lead]
    BY DEF OwedIsDue
  <2>2. PICK s \in saved :
            /\ item[s[2]].open /\ item[s[2]].deadline = today + lead
            /\ o = [to |-> s[1], item |-> s[2], lead |-> lead]
    BY <2>1
  <2>3. s \in saved' /\ item'[s[2]] = item[s[2]]
    BY <2>2
  <2> QED BY <2>2, <2>3
<1> QED BY <1>1, <1>2 DEF Reminders!RemindedOnTheDay, Reminders!ToldOnce

\* At midnight what is owed is counted anew, and no pass has swept the new day.
LEMMA MidnightKeeps ==
    ASSUME RemindersInv, Reminders!Midnight
    PROVE  RemindersInv'
<1> USE DEF RemindersInv
<1>1. /\ UNCHANGED <<item, saved, pass, notified>> /\ today' = today + 1
      /\ ~swept' /\ owed' = Reminders!DueOn(today + 1)
  BY DEF Reminders!Midnight
<1>2. \A v \in Workers : PassShape(pass[v])' /\ FoundAll(pass[v])'
  BY <1>1 DEF PassShape, FoundAll
<1>3. OwedIsDue'
  BY <1>1, DueOnFacts DEF OwedIsDue, Reminders!DueIn
<1> QED BY <1>1, <1>2, <1>3 DEF Reminders!RemindedOnTheDay, Reminders!ToldOnce

LEMMA SavesKeeps ==
    ASSUME RemindersInv, NEW p \in Savers, NEW i \in Items,
           Reminders!Saves(p, i) \/ Reminders!Unsaves(p, i)
    PROVE  RemindersInv'
<1>1. /\ UNCHANGED <<today, item, pass, notified, swept>>
      /\ saved' \subseteq Savers \X Items /\ owed' \subseteq owed
  BY DEF RemindersInv, Reminders!Saves, Reminders!Unsaves
<1>2. ASSUME NEW o \in owed', NEW s \in saved, o.to = s[1], o.item = s[2]
      PROVE  s \in saved'
  <2>1. s = <<s[1], s[2]>>
    BY DEF RemindersInv
  <2> QED BY <1>2, <2>1 DEF Reminders!Saves, Reminders!Unsaves
<1> QED BY <1>1, <1>2, WorldKeeps DEF RemindersInv

LEMMA ItemChangesKeeps ==
    ASSUME RemindersInv, NEW i \in Items, NEW row, Reminders!ItemChanges(i, row)
    PROVE  RemindersInv'
<1>1. /\ UNCHANGED <<today, saved, pass, notified, swept>>
      /\ DOMAIN item' = Items /\ owed' \subseteq owed
      /\ \A o \in owed' : o.item # i
      /\ \A j \in Items : j # i => item'[j] = item[j]
  BY DEF RemindersInv, Reminders!ItemChanges
<1>2. \A s \in saved : s[2] \in Items
  BY DEF RemindersInv
<1> QED BY <1>1, <1>2, WorldKeeps DEF RemindersInv

LEMMA RemindersNext ==
    ASSUME RemindersInv, [Reminders!Next]_(Reminders!reminderVars)
    PROVE  RemindersInv'
<1>1. ASSUME NEW s \in Workers, NEW step \in Reminders!Steps, Reminders!Look(s, step)
      PROVE  RemindersInv'
  BY <1>1, LookKeeps
<1>2. ASSUME NEW s \in Workers,
             \/ Reminders!Start(s) \/ Reminders!Finish(s) \/ Reminders!Fail(s)
             \/ Reminders!CommitDeadlines(s) \/ Reminders!CommitMilestones(s)
      PROVE  RemindersInv'
  BY <1>2, PassMovesKeeps, CommitKeeps
<1>3. ASSUME NEW p \in Savers, NEW i \in Items,
             Reminders!Saves(p, i) \/ Reminders!Unsaves(p, i)
      PROVE  RemindersInv'
  BY <1>3, SavesKeeps
<1>4. ASSUME NEW i \in Items, NEW row, Reminders!ItemChanges(i, row)
      PROVE  RemindersInv'
  BY <1>4, ItemChangesKeeps
<1>5. CASE Reminders!Midnight
  BY <1>5, MidnightKeeps
<1>6. ASSUME UNCHANGED <<today, item, saved, pass, notified, owed, swept>>
      PROVE  RemindersInv'
  BY <1>6, WorldKeeps DEF RemindersInv
<1>7. ASSUME NEW p, \/ Reminders!MarkAllRead(p) \/ \E n \in unread : Reminders!MarkRead(p, n)
      PROVE  UNCHANGED <<today, item, saved, pass, notified, owed, swept>>
  BY <1>7 DEF Reminders!MarkAllRead, Reminders!MarkRead, Reminders!WorldUnchanged
<1>8. ASSUME NEW m, NEW row, Reminders!MilestoneChanges(m, row) \/ Reminders!TeamChanges(row)
      PROVE  UNCHANGED <<today, item, saved, pass, notified, owed, swept>>
  BY <1>8 DEF Reminders!MilestoneChanges, Reminders!TeamChanges
<1>9. CASE UNCHANGED Reminders!reminderVars
  BY <1>6, <1>9 DEF Reminders!reminderVars
<1> QED BY <1>1, <1>2, <1>3, <1>4, <1>5, <1>6, <1>7, <1>8, <1>9 DEF Reminders!Next

\* On the desk, while it is the part that runs.
LEMMA RemindersRuns ==
    /\ Init /\ part = "reminders" => Reminders!Init
    /\ [Next]_vars /\ part = "reminders" => part' = "reminders" /\ [Reminders!Next]_(Reminders!reminderVars)
<1>1. Init /\ part = "reminders" => Reminders!Init
  BY DEF Init
<1>2. ASSUME Next, part = "reminders" PROVE part' = "reminders" /\ Reminders!Next
  BY <1>2 DEF Next
<1>3. ASSUME UNCHANGED vars, part = "reminders"
      PROVE  part' = "reminders" /\ UNCHANGED Reminders!reminderVars
  BY <1>3 DEF vars, reminderOwn, Reminders!reminderVars
<1> QED BY <1>1, <1>2, <1>3

LEMMA RemindersHold == Spec => [](part = "reminders" => RemindersInv)
<1>1. Init => (part = "reminders" => RemindersInv)
  BY RemindersRuns, RemindersInit
<1>2. (part = "reminders" => RemindersInv) /\ [Next]_vars => (part = "reminders" => RemindersInv)'
  <2> SUFFICES ASSUME part = "reminders" => RemindersInv, [Next]_vars, part' = "reminders"
               PROVE  RemindersInv'
    OBVIOUS
  <2>1. part = "reminders"
    BY DEF Next, vars
  <2> QED BY <2>1, RemindersRuns, RemindersNext
<1> QED BY <1>1, <1>2, PTL DEF Spec

\* Who saved an opening or a call that comes due in one of the lead times, and left it so
\* that day, has the reminder once a pass committed its deadlines; and however many passes
\* there are, at once or day after day, nobody is told one thing twice (jobs/reminders.py,
\* notifications/channels.py).
THEOREM RemindedOnceAndOnTheDay == Spec => []RemindedOnceOnTheDay
<1>1. (part = "reminders" => RemindersInv) => RemindedOnceOnTheDay
  BY DEF RemindersInv, Reminders!RemindedOnceOnTheDay, RemindedOnceOnTheDay
<1> QED BY <1>1, RemindersHold, PTL

-----------------------------------------------------------------------------
(* Throttle *)

\* A request that is no longer counted lies a whole window before one that was let through.
DroppedInTime ==
    \A k \in Addresses \ late : \A i \in DOMAIN admitted[k] \ hits[k] :
        \E j \in DOMAIN admitted[k] : admitted[k][i] + Window <= admitted[k][j]

ThrottleInv == Throttle!TypeOK /\ DroppedInTime /\ Throttle!NeverOverBudget

LEMMA ThrottleCounts == \A S : Throttle!Cardinality(S) = Cardinality(S)
BY DEF Throttle!Cardinality, Throttle!IsFiniteSet, Cardinality, IsFiniteSet

LEMMA NoneLetThrough ==
    ASSUME NEW t \in Nat, admitted = [k \in Addresses |-> <<>>], NEW k \in Addresses
    PROVE  /\ DOMAIN admitted[k] = {} /\ admitted[k] \in Seq(0..clock)
           /\ Cardinality({i \in DOMAIN admitted[k] :
                    t <= admitted[k][i] /\ admitted[k][i] < t + Window}) <= MaxRequests
<1>1. DOMAIN admitted[k] = {} /\ admitted[k] \in Seq(0..clock)
  OBVIOUS
<1>2. {i \in DOMAIN admitted[k] : t <= admitted[k][i] /\ admitted[k][i] < t + Window} = {}
  BY <1>1
<1> QED BY <1>1, <1>2, FS_EmptySet, BudgetAssumption

LEMMA ThrottleInit == Throttle!Init => ThrottleInv
<1> SUFFICES ASSUME Throttle!Init PROVE ThrottleInv
  OBVIOUS
<1> USE ThrottleCounts DEF Throttle!Init
<1>0. Cardinality({}) = 0
  BY FS_EmptySet
<1>a. /\ admitted = [k \in Addresses |-> <<>>]
      /\ \A k \in Addresses : DOMAIN admitted[k] = {} /\ admitted[k] \in Seq(0..clock)
  BY NoneLetThrough
<1>1. Throttle!TypeOK
  <2>1. \A k \in Addresses : hits[k] = {} /\ Throttle!Cardinality(hits[k]) <= MaxRequests
    BY <1>0, BudgetAssumption
  <2>2. waiting \in [Workers -> [key : Addresses, now : 0..clock] \cup {Throttle!NotWaiting}]
    OBVIOUS
  <2>3. admitted \in [Addresses -> Seq(0..clock)]
    BY <1>a
  <2> QED BY <1>a, <2>1, <2>2, <2>3, BudgetAssumption DEF Throttle!TypeOK
<1>2. DroppedInTime
  BY <1>a DEF DroppedInTime
<1>3. Throttle!NeverOverBudget
  <2> SUFFICES ASSUME NEW k \in Addresses, NEW t \in 0..MaxTime
               PROVE  Throttle!Cardinality({i \in DOMAIN admitted[k] :
                    t <= admitted[k][i] /\ admitted[k][i] < t + Window}) <= MaxRequests
    BY DEF Throttle!NeverOverBudget
  <2> t \in Nat
    BY BudgetAssumption
  <2> QED BY <1>a, NoneLetThrough
<1> QED BY <1>1, <1>2, <1>3 DEF ThrottleInv

LEMMA ThrottleDecides ==
    ASSUME ThrottleInv, NEW h \in Workers, Throttle!Decide(h)
    PROVE  ThrottleInv'
<1> DEFINE k == waiting[h].key
           now == waiting[h].now
           recent == Throttle!Recent(k, now)
           allowed == Cardinality(recent) < MaxRequests
           number == Len(admitted[k]) + 1
           In(q, t) == {i \in DOMAIN admitted[q] : t <= admitted[q][i] /\ admitted[q][i] < t + Window}
           InThen(q, t) == {i \in DOMAIN admitted'[q] :
                                t <= admitted'[q][i] /\ admitted'[q][i] < t + Window}
<1>0. /\ clock \in 0..MaxTime /\ clock \in Nat /\ clock' = clock
      /\ admitted \in [Addresses -> Seq(0..clock)] /\ hits \in [Addresses -> SUBSET Nat]
      /\ late \subseteq Addresses
      /\ waiting \in [Workers -> [key : Addresses, now : 0..clock] \cup {Throttle!NotWaiting}]
      /\ \A q \in Addresses : hits[q] \subseteq DOMAIN admitted[q]
      /\ \A q \in Addresses : Cardinality(hits[q]) <= MaxRequests
  BY ThrottleCounts, BudgetAssumption DEF ThrottleInv, Throttle!TypeOK, Throttle!Decide
<1>1. waiting[h] \in [key : Addresses, now : 0..clock]
  BY <1>0 DEF Throttle!Decide
<1>2. k \in Addresses /\ now \in 0..clock /\ now \in Nat /\ admitted[k] \in Seq(0..clock)
  BY <1>0, <1>1
<1>3. /\ hits' = [hits EXCEPT ![k] = IF allowed THEN recent \cup {number} ELSE recent]
      /\ admitted' = IF allowed THEN [admitted EXCEPT ![k] = Append(@, now)] ELSE admitted
      /\ late' = IF \E i \in DOMAIN admitted[k] : admitted[k][i] > now THEN late \cup {k} ELSE late
      /\ waiting' = [waiting EXCEPT ![h] = Throttle!NotWaiting]
  BY ThrottleCounts DEF Throttle!Decide
<1>4. /\ recent \subseteq hits[k] /\ hits[k] \subseteq DOMAIN admitted[k]
      /\ DOMAIN admitted[k] = 1..Len(admitted[k]) /\ Len(admitted[k]) \in Nat
      /\ \A i \in DOMAIN admitted[k] : admitted[k][i] \in Nat
      /\ recent = {i \in hits[k] : admitted[k][i] + Window > now}
  BY <1>0, <1>2 DEF Throttle!Recent
<1>5. /\ IsFiniteSet(DOMAIN admitted[k]) /\ IsFiniteSet(hits[k]) /\ IsFiniteSet(recent)
      /\ Cardinality(recent) <= Cardinality(hits[k])
      /\ Cardinality(recent) \in Nat /\ Cardinality(hits[k]) \in Nat
      /\ Cardinality(recent) = Cardinality(hits[k]) => recent = hits[k]
      /\ number \notin recent
      /\ Cardinality(recent \cup {number}) = Cardinality(recent) + 1
      /\ IsFiniteSet(recent \cup {number})
  <2>1. IsFiniteSet(DOMAIN admitted[k])
    BY <1>4, FS_Interval
  <2>2. IsFiniteSet(hits[k]) /\ IsFiniteSet(recent)
    BY <2>1, <1>4, FS_Subset
  <2>3. number \notin recent
    BY <1>4
  <2>4. /\ Cardinality(recent) \in Nat /\ Cardinality(hits[k]) \in Nat
    BY <2>2, FS_CardinalityType
  <2>5. /\ Cardinality(recent) <= Cardinality(hits[k])
        /\ Cardinality(recent) = Cardinality(hits[k]) => recent = hits[k]
    BY <2>2, <1>4, FS_Subset
  <2>6. /\ Cardinality(recent \cup {number}) = Cardinality(recent) + 1
        /\ IsFiniteSet(recent \cup {number})
    BY <2>2, <2>3, FS_AddElement
  <2> QED BY <2>1, <2>2, <2>3, <2>4, <2>5, <2>6
<1>6. CASE allowed
  <2>1. /\ admitted' = [admitted EXCEPT ![k] = Append(@, now)]
        /\ hits' = [hits EXCEPT ![k] = recent \cup {number}]
    BY <1>3, <1>6
  <2>a. /\ admitted'[k] = Append(admitted[k], now) /\ hits'[k] = recent \cup {number}
        /\ \A q \in Addresses : q # k => admitted'[q] = admitted[q] /\ hits'[q] = hits[q]
    BY <2>1, <1>0, <1>2
  <2>b. /\ Append(admitted[k], now) \in Seq(0..clock)
        /\ DOMAIN Append(admitted[k], now) = 1..number
        /\ Append(admitted[k], now)[number] = now
        /\ \A i \in DOMAIN admitted[k] : Append(admitted[k], now)[i] = admitted[k][i]
    BY <1>2
  <2>2. /\ admitted'[k] \in Seq(0..clock)
        /\ DOMAIN admitted'[k] = DOMAIN admitted[k] \cup {number}
        /\ admitted'[k][number] = now /\ number \notin DOMAIN admitted[k]
        /\ \A i \in DOMAIN admitted[k] : admitted'[k][i] = admitted[k][i]
        /\ \A q \in Addresses : q # k => admitted'[q] = admitted[q] /\ hits'[q] = hits[q]
        /\ hits'[k] = recent \cup {number}
    BY <2>a, <2>b, <1>4
  <2>3. Throttle!TypeOK'
    <3>1. admitted' \in [Addresses -> Seq(0..clock)]
      BY <1>0, <1>2, <2>1, <2>2
    <3>2. \A q \in Addresses : hits'[q] \subseteq DOMAIN admitted'[q]
      BY <1>0, <1>4, <2>2
    <3>3. \A q \in Addresses : Cardinality(hits'[q]) <= MaxRequests
      <4>1. Cardinality(hits'[k]) <= MaxRequests
        BY <1>5, <1>6, <2>2, BudgetAssumption
      <4> QED BY <1>0, <4>1, <2>2
    <3>4. hits' \in [Addresses -> SUBSET Nat]
      <4>1. recent \cup {number} \in SUBSET Nat
        BY <1>4
      <4> QED BY <4>1, <2>1, <1>0
    <3> QED BY <1>0, <1>1, <1>2, <1>3, <3>1, <3>2, <3>3, <3>4, ThrottleCounts DEF Throttle!TypeOK
  <2>4. DroppedInTime'
    <3> SUFFICES ASSUME NEW q \in Addresses \ late', NEW i \in DOMAIN admitted'[q] \ hits'[q]
                 PROVE  \E j \in DOMAIN admitted'[q] : admitted'[q][i] + Window <= admitted'[q][j]
      BY DEF DroppedInTime
    <3>1. q \notin late
      BY <1>3
    <3>2. CASE q # k
      BY <2>2, <3>1, <3>2 DEF DroppedInTime, ThrottleInv
    <3>3. CASE q = k /\ i \in hits[k]
      <4>1. admitted[k][i] + Window <= now
        BY <3>3, <1>2, <1>4, <2>2, BudgetAssumption
      <4> QED BY <4>1, <3>3, <2>2, <1>4
    <3>4. CASE q = k /\ i \notin hits[k]
      <4>1. PICK j \in DOMAIN admitted[k] : admitted[k][i] + Window <= admitted[k][j]
        BY <3>1, <3>4, <2>2 DEF DroppedInTime, ThrottleInv
      <4> QED BY <4>1, <3>4, <2>2
    <3> QED BY <3>2, <3>3, <3>4
  <2>5. Throttle!NeverOverBudget'
    <3> SUFFICES ASSUME NEW q \in Addresses \ late', NEW t \in 0..MaxTime
                 PROVE  Cardinality(InThen(q, t)) <= MaxRequests
      BY ThrottleCounts DEF Throttle!NeverOverBudget
    <3>1. q \notin late /\ t \in Nat /\ Cardinality(In(q, t)) <= MaxRequests
      <4>1. q \in Addresses \ late /\ t \in Nat
        BY <1>3, BudgetAssumption
      <4>2. Throttle!Cardinality(In(q, t)) <= MaxRequests
        BY <4>1 DEF ThrottleInv, Throttle!NeverOverBudget
      <4> QED BY <4>1, <4>2, ThrottleCounts
    <3>2. CASE q # k
      BY <3>1, <3>2, <2>2
    <3>3. CASE q = k /\ ~(t <= now /\ now < t + Window)
      <4>1. InThen(q, t) = In(q, t)
        BY <2>2, <3>3
      <4> QED BY <3>1, <4>1
    <3>4. CASE q = k /\ t <= now /\ now < t + Window
      <4>1. \A i \in DOMAIN admitted[k] : admitted[k][i] <= now
        BY <1>2, <1>3, <1>4, <3>4
      <4>2. ASSUME NEW i \in In(k, t) PROVE i \in recent
        <5>1. admitted[k][i] + Window > now /\ i \in DOMAIN admitted[k]
          BY <1>2, <1>4, <3>1, <3>4, BudgetAssumption
        <5>2. i \in hits[k]
          <6> SUFFICES ASSUME i \notin hits[k] PROVE FALSE
            OBVIOUS
          <6>1. PICK j \in DOMAIN admitted[k] : admitted[k][i] + Window <= admitted[k][j]
            BY <5>1, <3>1, <3>4 DEF DroppedInTime, ThrottleInv
          <6>2. /\ admitted[k][j] <= now /\ admitted[k][i] \in Nat /\ admitted[k][j] \in Nat
            BY <6>1, <5>1, <4>1, <1>4
          <6> QED BY <6>1, <6>2, <5>1, <1>2, BudgetAssumption
        <5> QED BY <5>1, <5>2, <1>4
      <4>3. InThen(k, t) \subseteq recent \cup {number}
        BY <2>2, <3>4, <4>2
      <4>4. Cardinality(InThen(k, t)) <= Cardinality(recent) + 1
        BY <4>3, <1>5, FS_Subset
      <4>5. Cardinality(InThen(k, t)) \in Nat
        BY <4>3, <1>5, FS_Subset, FS_CardinalityType
      <4> QED BY <4>4, <4>5, <1>5, <1>6, <3>4, BudgetAssumption
    <3> QED BY <3>2, <3>3, <3>4
  <2> QED BY <2>3, <2>4, <2>5 DEF ThrottleInv
<1>7. CASE ~allowed
  <2>1. hits' = [hits EXCEPT ![k] = recent] /\ admitted' = admitted
    BY <1>3, <1>7
  <2>2. recent = hits[k]
    BY <1>0, <1>2, <1>5, <1>7, BudgetAssumption
  <2>3. \A q \in Addresses : hits'[q] = hits[q]
    BY <2>1, <2>2, <1>2
  <2>4. Throttle!TypeOK'
    BY <1>0, <1>1, <1>2, <1>3, <2>1, <2>3, ThrottleCounts DEF Throttle!TypeOK
  <2>5. late \subseteq late'
    BY <1>3
  <2>6. DroppedInTime'
    BY <2>1, <2>3, <2>5 DEF DroppedInTime, ThrottleInv
  <2>7. Throttle!NeverOverBudget'
    BY <2>1, <2>5 DEF Throttle!NeverOverBudget, ThrottleInv
  <2> QED BY <2>4, <2>6, <2>7 DEF ThrottleInv
<1> QED BY <1>6, <1>7

LEMMA ThrottleNext ==
    ASSUME ThrottleInv, Throttle!Next \/ UNCHANGED <<clock, throttleOwn>>
    PROVE  ThrottleInv'
<1>1. CASE UNCHANGED <<clock, throttleOwn>>
  BY <1>1 DEF throttleOwn, ThrottleInv, Throttle!TypeOK, DroppedInTime, Throttle!NeverOverBudget
<1>2. CASE Throttle!Tick
  <2>1. Throttle!TypeOK'
    <3>1. clock \in Nat /\ clock' = clock + 1 /\ 0..clock \subseteq 0..clock' /\ clock' \in 0..MaxTime
      BY <1>2, BudgetAssumption DEF Throttle!Tick, ThrottleInv, Throttle!TypeOK
    <3>2. admitted' \in [Addresses -> Seq(0..clock')]
      <4>1. \A k \in Addresses : admitted[k] \in Seq(0..clock')
        BY <3>1 DEF ThrottleInv, Throttle!TypeOK
      <4> QED BY <4>1, <1>2 DEF Throttle!Tick, ThrottleInv, Throttle!TypeOK
    <3>3. waiting' \in [Workers -> [key : Addresses, now : 0..clock'] \cup {Throttle!NotWaiting}]
      BY <1>2, <3>1 DEF Throttle!Tick, ThrottleInv, Throttle!TypeOK
    <3> QED BY <1>2, <3>1, <3>2, <3>3 DEF Throttle!Tick, ThrottleInv, Throttle!TypeOK
  <2> QED BY <1>2, <2>1 DEF Throttle!Tick, ThrottleInv, DroppedInTime, Throttle!NeverOverBudget
<1>3. CASE Throttle!Restart
  <2> USE ThrottleCounts
  <2>0. /\ admitted' = [k \in Addresses |-> <<>>] /\ hits' = [k \in Addresses |-> {}]
        /\ \A k \in Addresses : DOMAIN admitted'[k] = {} /\ admitted'[k] \in Seq(0..clock')
        /\ Cardinality({}) = 0
    BY <1>3, FS_EmptySet DEF Throttle!Restart
  <2>1. Throttle!TypeOK'
    BY <1>3, <2>0, BudgetAssumption DEF Throttle!Restart, ThrottleInv, Throttle!TypeOK
  <2>2. DroppedInTime'
    BY <2>0 DEF DroppedInTime
  <2>3. Throttle!NeverOverBudget'
    <3>1. ASSUME NEW k \in Addresses, NEW t
          PROVE  {i \in DOMAIN admitted'[k] :
                    t <= admitted'[k][i] /\ admitted'[k][i] < t + Window} = {}
      BY <2>0
    <3> QED BY <2>0, <3>1, BudgetAssumption DEF Throttle!NeverOverBudget
  <2> QED BY <2>1, <2>2, <2>3 DEF ThrottleInv
<1>4. ASSUME NEW h \in Workers, NEW k \in Addresses, Throttle!Ask(h, k) PROVE ThrottleInv'
  <2>1. waiting' \in [Workers -> [key : Addresses, now : 0..clock] \cup {Throttle!NotWaiting}]
    <3>1. clock \in 0..clock
      BY BudgetAssumption DEF ThrottleInv, Throttle!TypeOK
    <3> QED BY <1>4, <3>1 DEF Throttle!Ask, ThrottleInv, Throttle!TypeOK
  <2> QED BY <1>4, <2>1 DEF Throttle!Ask, ThrottleInv, Throttle!TypeOK, DroppedInTime,
          Throttle!NeverOverBudget
<1> QED BY <1>1, <1>2, <1>3, <1>4, ThrottleDecides DEF Throttle!Next

\* On the desk, while it is the part that runs.
LEMMA ThrottleRuns ==
    /\ Init /\ part = "throttle" => Throttle!Init
    /\ [Next]_vars /\ part = "throttle"
          => part' = "throttle" /\ (Throttle!Next \/ UNCHANGED <<clock, throttleOwn>>)
<1>1. Init /\ part = "throttle" => Throttle!Init
  BY DEF Init
<1>2. ASSUME Next, part = "throttle" PROVE part' = "throttle" /\ Throttle!Next
  BY <1>2 DEF Next
<1>3. ASSUME UNCHANGED vars, part = "throttle"
      PROVE  part' = "throttle" /\ UNCHANGED <<clock, throttleOwn>>
  BY <1>3 DEF vars, throttleOwn
<1> QED BY <1>1, <1>2, <1>3

LEMMA ThrottleHold == Spec => [](part = "throttle" => ThrottleInv)
<1>1. Init => (part = "throttle" => ThrottleInv)
  BY ThrottleRuns, ThrottleInit
<1>2. (part = "throttle" => ThrottleInv) /\ [Next]_vars => (part = "throttle" => ThrottleInv)'
  <2> SUFFICES ASSUME part = "throttle" => ThrottleInv, [Next]_vars, part' = "throttle"
               PROVE  ThrottleInv'
    OBVIOUS
  <2>1. part = "throttle"
    BY DEF Next, vars
  <2> QED BY <2>1, ThrottleRuns, ThrottleNext
<1> QED BY <1>1, <1>2, PTL DEF Spec

\* However the requests of one key fall, and however many threads decide them at once, no
\* stretch as long as the window lets more of them through than the budget, unless a thread
\* that read the clock earlier decided later (core/rate_limit.py: allow).
THEOREM BudgetIsKept == Spec => []NeverOverBudget
<1>1. (part = "throttle" => ThrottleInv) => NeverOverBudget
  BY DEF ThrottleInv, NeverOverBudget
<1> QED BY <1>1, ThrottleHold, PTL

-----------------------------------------------------------------------------
(* Figures *)

FiguresInv ==
    /\ users \in [Observed -> Figures!UserRow]
    /\ standing \in [Observed -> Figures!ProfileStatus \cup {NoRow}]
    /\ authors \subseteq Observed /\ savers \subseteq Observed
    /\ project \in [department : Figures!Anywhere, status : Figures!ProjectStatus,
                    deleted : BOOLEAN, owner : Observed, members : SUBSET Observed]
    /\ pairing \in [sender : Observed, recipient : Observed, accepted : BOOLEAN]

LEMMA FiguresInit ==
    ASSUME Figures!UsersTypeOK, Figures!Init
    PROVE  FiguresInv
<1>1. users \in [Observed -> Figures!UserRow]
  BY DEF Figures!UsersTypeOK, Figures!Init, Figures!Exists
<1>2. standing \in [Observed -> Figures!ProfileStatus \cup {NoRow}]
  BY DEF Figures!Init, Figures!ProfileStatus
<1>3. PICK owner \in Observed, other \in Observed :
          /\ project = [department |-> users[owner].department, status |-> "active",
                        deleted |-> FALSE, owner |-> owner, members |-> Observed \ {owner}]
          /\ authors = {owner}
          /\ pairing = [sender |-> owner, recipient |-> other, accepted |-> FALSE]
  BY DEF Figures!Init
<1>4. users[owner].department \in Figures!Anywhere
  BY <1>1 DEF Figures!UserRow, Figures!Anywhere
<1>5. project \in [department : Figures!Anywhere, status : Figures!ProjectStatus,
                    deleted : BOOLEAN, owner : Observed, members : SUBSET Observed]
  BY <1>3, <1>4 DEF Figures!ProjectStatus
<1>6. pairing \in [sender : Observed, recipient : Observed, accepted : BOOLEAN]
  BY <1>3
<1>7. savers = {}
  BY DEF Figures!Init
<1> QED BY <1>1, <1>2, <1>3, <1>5, <1>6, <1>7 DEF FiguresInv

LEMMA FiguresNext ==
    ASSUME FiguresInv,
           Figures!Next \/ UNCHANGED <<users, standing, authors, project, pairing, savers>>
    PROVE  FiguresInv'
<1> USE DEF FiguresInv
<1>1. ASSUME NEW p \in Observed, Figures!ChangeUser(p) PROVE FiguresInv'
  <2>1. users' \in [Observed -> Figures!UserRow]
    <3>0. users[p] \in Figures!UserRow
      OBVIOUS
    <3>1. ASSUME NEW d \in Figures!Anywhere, users' = [users EXCEPT ![p].department = d]
          PROVE  users' \in [Observed -> Figures!UserRow]
      <4>1. [users[p] EXCEPT !.department = d] \in Figures!UserRow
        BY <3>0 DEF Figures!UserRow, Figures!Anywhere
      <4> QED BY <3>1, <4>1
    <3>2. CASE users' = [users EXCEPT ![p].active = ~@]
      <4>1. [users[p] EXCEPT !.active = ~@] \in Figures!UserRow
        BY <3>0 DEF Figures!UserRow
      <4> QED BY <3>2, <4>1
    <3> QED BY <1>1, <3>1, <3>2 DEF Figures!ChangeUser
  <2> QED BY <1>1, <2>1 DEF Figures!ChangeUser
<1>2. ASSUME NEW p \in Observed, Figures!ChangeProfile(p) PROVE FiguresInv'
  <2>1. standing' \in [Observed -> Figures!ProfileStatus \cup {NoRow}]
    BY <1>2 DEF Figures!ChangeProfile
  <2> QED BY <1>2, <2>1 DEF Figures!ChangeProfile
<1>3. ASSUME Figures!ChangeProject PROVE FiguresInv'
  <2>1. project' \in [department : Figures!Anywhere, status : Figures!ProjectStatus,
                      deleted : BOOLEAN, owner : Observed, members : SUBSET Observed]
    <3>1. CASE \E d \in Figures!Anywhere : project' = [project EXCEPT !.department = d]
      BY <3>1
    <3>2. CASE \E s \in Figures!ProjectStatus : project' = [project EXCEPT !.status = s]
      BY <3>2
    <3>3. CASE project' = [project EXCEPT !.deleted = TRUE]
      BY <3>3
    <3>4. ASSUME NEW p \in Observed,
                 project' = [project EXCEPT !.members = (@ \ {p}) \cup ({p} \ @)]
          PROVE  project' \in [department : Figures!Anywhere, status : Figures!ProjectStatus,
                      deleted : BOOLEAN, owner : Observed, members : SUBSET Observed]
      <4>1. PICK m \in SUBSET Observed : m = (project.members \ {p}) \cup ({p} \ project.members)
        OBVIOUS
      <4>2. project' = [project EXCEPT !.members = m]
        BY <3>4, <4>1
      <4> QED BY <4>2
    <3> QED BY <1>3, <3>1, <3>2, <3>3, <3>4 DEF Figures!ChangeProject
  <2> QED BY <1>3, <2>1 DEF Figures!ChangeProject
<1>4. CASE Figures!ChangeAuthors
  BY <1>4 DEF Figures!ChangeAuthors
<1>5. CASE Figures!Answered
  BY <1>5 DEF Figures!Answered
<1>6. CASE \/ UNCHANGED <<users, standing, authors, project, pairing, savers>>
           \/ Figures!Decided \/ Figures!Midnight
           \/ \E m \in Checkpoints : Figures!ChangeMilestone(m)
  BY <1>6 DEF Figures!Decided, Figures!Midnight, Figures!ChangeMilestone
<1>7. ASSUME NEW p \in Observed, Figures!Save(p) PROVE FiguresInv'
  BY <1>7 DEF Figures!Save
<1> QED BY <1>1, <1>2, <1>3, <1>4, <1>5, <1>6, <1>7 DEF Figures!Next

LEMMA FiguresAgreeing == FiguresInv => Figures!FiguresAgree
<1> SUFFICES ASSUME FiguresInv PROVE Figures!FiguresAgree
  OBVIOUS
<1>0. \A p \in Observed : users[p] # NoRow
  BY RowsAssumption DEF FiguresInv
<1>1. ASSUME NEW d \in Branches
      PROVE  /\ Figures!ActiveProjectsPerDepartment(d) = Figures!ProjectsByStatus(d)["active"]
             /\ Figures!VerificationPendingPerDepartment(d) = Figures!VerificationBacklog(d)
             /\ Figures!PublicationsPerDepartment(d) = Figures!PublicationsByDepartment(d)[d]
             /\ Figures!PublicationsPerDepartment(d) = Figures!Report(d).publications
             /\ Figures!PeoplePerDepartment(d).students = Figures!Report(d).students
             /\ Figures!MilestoneRiskPerDepartment(d).overdue = Figures!Adherence(d).overdue
             /\ Figures!MilestoneRiskPerDepartment(d).at_risk = Figures!Adherence(d).at_risk
  <2>0. d # NoRow /\ \A e : Figures!In(d, e) <=> e = d
    BY RowsAssumption DEF Figures!In
  <2>1. Figures!ActiveProjectsPerDepartment(d) = Figures!ProjectsByStatus(d)["active"]
    <3>1. Figures!ProjectsByStatus(d)["active"]
             = Figures!Count(Figures!ScopedProject(d) /\ project.status = "active")
      BY DEF Figures!ProjectsByStatus, Figures!ProjectStatus
    <3> QED BY <2>0, <3>1 DEF Figures!ActiveProjectsPerDepartment, Figures!Count,
          Figures!ScopedProject
  <2>2. Figures!VerificationPendingPerDepartment(d) = Figures!VerificationBacklog(d)
    <3>1. {p \in Observed : standing[p] = "pending" /\ users[p].active
                                /\ users[p].department = d}
             = {p \in Observed : standing[p] = "pending"
                                 /\ (d = NoRow \/ p \in Figures!ScopedUsers(d))}
      BY <1>0, <2>0 DEF Figures!ScopedUsers, Figures!Exists
    <3> QED BY <3>1 DEF Figures!VerificationPendingPerDepartment, Figures!VerificationBacklog
  <2>3. /\ (\E p \in authors : users[p].department = d) <=> Figures!PublicationWindow(d)
        /\ (\E p \in authors : users[p].department = d) <=>
              {p \in authors : Figures!Exists(p) /\ users[p].department = d} # {}
    BY <1>0, <2>0 DEF Figures!PublicationWindow, Figures!Exists, FiguresInv
  <2>4. Figures!PublicationsPerDepartment(d) = Figures!PublicationsByDepartment(d)[d]
    BY <2>3 DEF Figures!PublicationsPerDepartment, Figures!PublicationsByDepartment,
       Figures!Count
  <2>5. Figures!PublicationsPerDepartment(d) = Figures!Report(d).publications
    BY <2>3 DEF Figures!PublicationsPerDepartment, Figures!Report, Figures!Count
  <2>6. Figures!PeoplePerDepartment(d).students = Figures!Report(d).students
    <3>1. Figures!ScopedUsers(d)
             = {p \in Observed : Figures!Exists(p) /\ users[p].active /\ users[p].department = d}
      BY <2>0 DEF Figures!ScopedUsers
    <3> QED BY <3>1 DEF Figures!PeoplePerDepartment, Figures!Report
  <2>7. ASSUME NEW risk \in {"overdue", "at_risk"}
        PROVE  {m \in Checkpoints : /\ ~project.deleted /\ project.department = d
                                    /\ ~Figures!Settled(m) /\ Figures!Assess(m) = risk}
                = {m \in Checkpoints : Figures!ScopedProject(d) /\ Figures!Assess(m) = risk}
    <3>1. ASSUME NEW m \in Checkpoints, Figures!Settled(m) PROVE Figures!Assess(m) # risk
      BY <3>1 DEF Figures!Assess, Figures!Upstream
    <3> QED BY <2>0, <3>1 DEF Figures!ScopedProject
  <2>8. /\ Figures!MilestoneRiskPerDepartment(d).overdue = Figures!Adherence(d).overdue
        /\ Figures!MilestoneRiskPerDepartment(d).at_risk = Figures!Adherence(d).at_risk
    BY <2>7 DEF Figures!MilestoneRiskPerDepartment, Figures!Adherence
  <2> QED BY <2>1, <2>2, <2>4, <2>5, <2>6, <2>8
<1>2. ASSUME NEW s \in Figures!Anywhere
      PROVE  Figures!Report(s).attributed <= Figures!Report(s).publications
  BY DEF Figures!Report, Figures!Count
<1> QED BY <1>1, <1>2 DEF Figures!FiguresAgree

\* On the desk, while it is the part that runs.
LEMMA FiguresRuns ==
    /\ Init /\ part = "figures" => Figures!UsersTypeOK /\ Figures!Init
    /\ [Next]_vars /\ part = "figures"
          => part' = "figures" /\ (Figures!Next \/ UNCHANGED <<users, figureOwn>>)
<1>1. Init /\ part = "figures" => Figures!UsersTypeOK /\ Figures!Init
  BY DEF Init
<1>2. ASSUME Next, part = "figures" PROVE part' = "figures" /\ Figures!Next
  BY <1>2 DEF Next
<1>3. ASSUME UNCHANGED vars, part = "figures"
      PROVE  part' = "figures" /\ UNCHANGED <<users, figureOwn>>
  BY <1>3 DEF vars, figureOwn
<1> QED BY <1>1, <1>2, <1>3

LEMMA FiguresHold == Spec => [](part = "figures" => FiguresInv)
<1>1. Init => (part = "figures" => FiguresInv)
  BY FiguresRuns, FiguresInit
<1>2. (part = "figures" => FiguresInv) /\ [Next]_vars => (part = "figures" => FiguresInv)'
  <2> SUFFICES ASSUME part = "figures" => FiguresInv, [Next]_vars, part' = "figures"
               PROVE  FiguresInv'
    OBVIOUS
  <2>1. part = "figures"
    BY DEF Next, vars
  <2> QED BY <2>1, FiguresRuns, FiguresNext DEF figureOwn
<1> QED BY <1>1, <1>2, PTL DEF Spec

\* Whatever the other components write, the side-by-side figures of every department are the
\* ones its own coordinator is shown (analytics/insights.py: by_department and the figures of
\* one scope are written twice, as two queries).
THEOREM FiguresSayTheSame == Spec => []FiguresAgree
<1>1. (part = "figures" => FiguresInv) => FiguresAgree
  BY FiguresAgreeing DEF FiguresAgree
<1> QED BY <1>1, FiguresHold, PTL

OfDepartment(d, p) == users[p].department = d
Involved(d) == OfDepartment(d, pairing.sender) \/ OfDepartment(d, pairing.recipient)
Wrote(d) == \E p \in authors : OfDepartment(d, p)
Saved(d) == \E p \in savers : OfDepartment(d, p)

\* Two states in which the same belongs to a department.
SameIn(d) ==
    /\ \A p \in Observed : OfDepartment(d, p)' <=> OfDepartment(d, p)
    /\ \A p \in Observed : OfDepartment(d, p) =>
          /\ users'[p] = users[p] /\ standing'[p] = standing[p]
          /\ p \in discoverable' <=> p \in discoverable
          /\ p \in Figures!Together' <=> p \in Figures!Together
    /\ project'.department = d <=> project.department = d
    /\ project.department = d => UNCHANGED <<project, stage, day>>
    /\ Wrote(d)' <=> Wrote(d)
    /\ Wrote(d) => authors' = authors /\ \A p \in authors : users'[p].department = users[p].department
    /\ Involved(d)' <=> Involved(d)
    /\ Involved(d) => /\ pairing' = pairing
                      /\ users'[pairing.sender].department = users[pairing.sender].department
                      /\ users'[pairing.recipient].department = users[pairing.recipient].department
    /\ Saved(d)' <=> Saved(d)
    /\ Saved(d) => savers' = savers
    /\ opening'.department = d <=> opening.department = d
    /\ opening.department = d => opening' = opening
    /\ booking'.department = d <=> booking.department = d
    /\ booking.department = d => booking' = booking

LEMMA OneOrNone ==
    ASSUME NEW a, NEW b, NEW c \in BOOLEAN, NEW e \in BOOLEAN,
           (IF c THEN {a} ELSE {}) = (IF e THEN {b} ELSE {})
    PROVE  (c <=> e) /\ (c => a = b)
OBVIOUS

LEMMA OfSays ==
    ASSUME FiguresInv, FiguresInv', NEW d \in Branches, Figures!Of(d)' = Figures!Of(d)
    PROVE  SameIn(d)
<1> DEFINE people == {p \in Observed : users[p].department = d}
           sides == {pairing.sender, pairing.recipient}
           peopleThen == {p \in Observed : users'[p].department = d}
           sidesThen == {pairing'.sender, pairing'.recipient}
<1>1. /\ [p \in peopleThen |-> <<users'[p], standing'[p], p \in discoverable'>>]
            = [p \in people |-> <<users[p], standing[p], p \in discoverable>>]
      /\ (IF project'.department = d THEN {<<project', stage', day'>>} ELSE {})
            = (IF project.department = d THEN {<<project, stage, day>>} ELSE {})
      /\ (IF (project'.members \cup {project'.owner}) \cap peopleThen # {}
          THEN Figures!Together' ELSE {})
            = (IF (project.members \cup {project.owner}) \cap people # {}
               THEN Figures!Together ELSE {})
      /\ (IF authors' \cap peopleThen # {}
          THEN {<<authors', [p \in authors' |-> users'[p].department]>>} ELSE {})
            = (IF authors \cap people # {}
               THEN {<<authors, [p \in authors |-> users[p].department]>>} ELSE {})
      /\ (IF sidesThen \cap peopleThen # {}
          THEN {<<pairing', [p \in sidesThen |-> users'[p].department]>>} ELSE {})
            = (IF sides \cap people # {}
               THEN {<<pairing, [p \in sides |-> users[p].department]>>} ELSE {})
      /\ (IF savers' \cap peopleThen # {} THEN savers' ELSE {})
            = (IF savers \cap people # {} THEN savers ELSE {})
      /\ (IF opening'.department = d THEN {opening'} ELSE {})
            = (IF opening.department = d THEN {opening} ELSE {})
      /\ (IF booking'.department = d THEN {booking'} ELSE {})
            = (IF booking.department = d THEN {booking} ELSE {})
  BY DEF Figures!Of
<1>2. people = peopleThen
  <2>1. DOMAIN [p \in peopleThen |-> <<users'[p], standing'[p], p \in discoverable'>>]
          = DOMAIN [p \in people |-> <<users[p], standing[p], p \in discoverable>>]
    BY <1>1
  <2> QED BY <2>1
<1>3. \A p \in people : /\ users'[p] = users[p] /\ standing'[p] = standing[p]
                        /\ p \in discoverable' <=> p \in discoverable
  <2> SUFFICES ASSUME NEW p \in people
               PROVE  /\ users'[p] = users[p] /\ standing'[p] = standing[p]
                      /\ p \in discoverable' <=> p \in discoverable
    OBVIOUS
  <2>1. [q \in peopleThen |-> <<users'[q], standing'[q], q \in discoverable'>>][p]
          = [q \in people |-> <<users[q], standing[q], q \in discoverable>>][p]
    BY <1>1
  <2>2. <<users'[p], standing'[p], p \in discoverable'>>
          = <<users[p], standing[p], p \in discoverable>>
    BY <2>1, <1>2
  <2> QED BY <2>2
<1>4. /\ project'.department = d <=> project.department = d
      /\ project.department = d => UNCHANGED <<project, stage, day>>
  <2>1. (IF project'.department = d THEN {<<project', stage', day'>>} ELSE {})
            = (IF project.department = d THEN {<<project, stage, day>>} ELSE {})
    BY <1>1
  <2>2. /\ project'.department = d <=> project.department = d
        /\ project'.department = d => <<project', stage', day'>> = <<project, stage, day>>
    BY <2>1, OneOrNone
  <2> QED BY <2>2
<1>5. \A p \in people : p \in Figures!Together' <=> p \in Figures!Together
  <2>1. /\ Figures!Together \subseteq project.members \cup {project.owner}
        /\ Figures!Together' \subseteq project'.members \cup {project'.owner}
    BY DEF Figures!Together
  <2> HIDE DEF people, peopleThen
  <2> QED BY <1>1, <1>2, <2>1
<1>6. /\ Wrote(d) <=> authors \cap people # {}
      /\ Wrote(d)' <=> authors' \cap peopleThen # {}
  BY DEF Wrote, OfDepartment, FiguresInv
<1>7. /\ Wrote(d)' <=> Wrote(d)
      /\ Wrote(d) => authors' = authors /\ \A p \in authors : users'[p].department = users[p].department
  <2>1. Wrote(d)' <=> Wrote(d)
    BY <1>1, <1>6
  <2>2. ASSUME Wrote(d) PROVE authors' = authors /\ \A p \in authors : users'[p].department = users[p].department
    <3>1. <<authors', [p \in authors' |-> users'[p].department]>>
             = <<authors, [p \in authors |-> users[p].department]>>
      BY <1>1, <1>6, <2>1, <2>2
    <3>2. /\ authors' = authors
          /\ [p \in authors' |-> users'[p].department] = [p \in authors |-> users[p].department]
      BY <3>1
    <3>3. ASSUME NEW p \in authors PROVE users'[p].department = users[p].department
      <4>1. [q \in authors' |-> users'[q].department][p] = [q \in authors |-> users[q].department][p]
        BY <3>2
      <4> QED BY <3>2, <4>1
    <3> QED BY <3>2, <3>3
  <2> QED BY <2>1, <2>2
<1>8. /\ Involved(d) <=> sides \cap people # {}
      /\ Involved(d)' <=> sidesThen \cap peopleThen # {}
  BY DEF Involved, OfDepartment, FiguresInv
<1>9. /\ Involved(d)' <=> Involved(d)
      /\ Involved(d) => /\ pairing' = pairing
                        /\ \A p \in sides : users'[p].department = users[p].department
  <2>1. Involved(d)' <=> Involved(d)
    BY <1>1, <1>8
  <2>2. ASSUME Involved(d) PROVE pairing' = pairing /\ \A p \in sides : users'[p].department = users[p].department
    <3>1. <<pairing', [p \in sidesThen |-> users'[p].department]>>
             = <<pairing, [p \in sides |-> users[p].department]>>
      <4>1. sidesThen \cap peopleThen # {} /\ sides \cap people # {}
        BY <1>8, <2>1, <2>2
      <4>2. (IF sidesThen \cap peopleThen # {}
             THEN {<<pairing', [p \in sidesThen |-> users'[p].department]>>} ELSE {})
            = (IF sides \cap people # {}
               THEN {<<pairing, [p \in sides |-> users[p].department]>>} ELSE {})
        BY <1>1
      <4> HIDE DEF sides, sidesThen, people, peopleThen
      <4> QED BY <4>1, <4>2
    <3>2. /\ pairing' = pairing
          /\ [p \in sidesThen |-> users'[p].department] = [p \in sides |-> users[p].department]
      BY <3>1
    <3>3. ASSUME NEW p \in sides PROVE users'[p].department = users[p].department
      <4>1. [q \in sidesThen |-> users'[q].department][p] = [q \in sides |-> users[q].department][p]
        BY <3>2
      <4> QED BY <3>2, <4>1
    <3> QED BY <3>2, <3>3
  <2> QED BY <2>1, <2>2
<1>10. /\ Saved(d)' <=> Saved(d)
       /\ Saved(d) => savers' = savers
  <2>1. /\ Saved(d) <=> savers \cap people # {}
        /\ Saved(d)' <=> savers' \cap peopleThen # {}
    BY DEF Saved, OfDepartment, FiguresInv
  <2> HIDE DEF people, peopleThen
  <2> QED BY <1>1, <2>1
<1>11. /\ opening'.department = d <=> opening.department = d
       /\ opening.department = d => opening' = opening
       /\ booking'.department = d <=> booking.department = d
       /\ booking.department = d => booking' = booking
  BY <1>1
<1>12. \A p \in Observed : /\ OfDepartment(d, p) <=> p \in people
                           /\ OfDepartment(d, p)' <=> p \in peopleThen
  BY DEF OfDepartment
<1> HIDE DEF people, peopleThen
<1> QED BY <1>2, <1>3, <1>4, <1>5, <1>7, <1>9, <1>10, <1>11, <1>12 DEF SameIn

\* What every figure of a scope is counted from.
LEMMA SameScope ==
    ASSUME FiguresInv, FiguresInv', NEW d \in Branches, SameIn(d)
    PROVE  /\ Figures!ScopedUsers(d)' = Figures!ScopedUsers(d)
           /\ \A p \in Figures!ScopedUsers(d) :
                 /\ p \in Observed /\ OfDepartment(d, p)
                 /\ users'[p] = users[p] /\ standing'[p] = standing[p]
                 /\ p \in discoverable' <=> p \in discoverable
           /\ Figures!ScopedProject(d)' <=> Figures!ScopedProject(d)
           /\ Figures!ScopedProject(d) => UNCHANGED <<project, stage, day>>
           /\ Figures!PublicationWindow(d)' <=> Figures!PublicationWindow(d)
           /\ Figures!PublicationWindow(d) <=> Wrote(d)
<1>1. d # NoRow
  BY RowsAssumption
<1>2. /\ Figures!ScopedUsers(d)
            = {p \in Observed : users[p] # NoRow /\ users[p].active /\ OfDepartment(d, p)}
      /\ Figures!ScopedUsers(d)'
            = {p \in Observed : users'[p] # NoRow /\ users'[p].active /\ OfDepartment(d, p)'}
  BY <1>1 DEF Figures!ScopedUsers, Figures!Exists, Figures!In, OfDepartment
<1>3. Figures!ScopedUsers(d)' = Figures!ScopedUsers(d)
  BY <1>2 DEF SameIn
<1>4. \A p \in Figures!ScopedUsers(d) :
                 /\ p \in Observed /\ OfDepartment(d, p)
                 /\ users'[p] = users[p] /\ standing'[p] = standing[p]
                 /\ p \in discoverable' <=> p \in discoverable
  BY <1>2 DEF SameIn
<1>5. /\ Figures!ScopedProject(d)' <=> Figures!ScopedProject(d)
      /\ Figures!ScopedProject(d) => UNCHANGED <<project, stage, day>>
  BY <1>1 DEF Figures!ScopedProject, Figures!In, SameIn
<1>6. /\ Figures!PublicationWindow(d) <=> Wrote(d)
      /\ Figures!PublicationWindow(d)' <=> Wrote(d)'
  BY <1>1 DEF Figures!PublicationWindow, Figures!In, Wrote, OfDepartment
<1> QED BY <1>3, <1>4, <1>5, <1>6 DEF SameIn

LEMMA SameAdherence ==
    ASSUME FiguresInv, FiguresInv', NEW d \in Branches, SameIn(d)
    PROVE  /\ Figures!ProjectsByStatus(d)' = Figures!ProjectsByStatus(d)
           /\ Figures!Adherence(d)' = Figures!Adherence(d)
<1>1. /\ Figures!ScopedProject(d)' <=> Figures!ScopedProject(d)
      /\ Figures!ScopedProject(d) => UNCHANGED <<project, stage, day>>
  BY SameScope
<1>2. Figures!ProjectsByStatus(d)' = Figures!ProjectsByStatus(d)
  BY <1>1 DEF Figures!ProjectsByStatus, Figures!Count
<1>3. ASSUME Figures!ScopedProject(d), NEW m
      PROVE  /\ stage' = stage
             /\ Figures!Settled(m)' <=> Figures!Settled(m)
             /\ Figures!Upstream(m)' = Figures!Upstream(m)
  BY <1>1, <1>3 DEF Figures!Settled, Figures!Upstream
<1>4. ASSUME Figures!ScopedProject(d), NEW m PROVE Figures!Assess(m)' = Figures!Assess(m)
  BY <1>3, <1>4 DEF Figures!Assess
<1>5. ASSUME NEW risk
      PROVE  {m \in Checkpoints : Figures!ScopedProject(d)' /\ Figures!Assess(m)' = risk}
               = {m \in Checkpoints : Figures!ScopedProject(d) /\ Figures!Assess(m) = risk}
  BY <1>1, <1>4
<1>6. {m \in Checkpoints : /\ Figures!ScopedProject(d)' /\ Figures!Settled(m)'
                           /\ stage'[m].completed # NoRow}
        = {m \in Checkpoints : /\ Figures!ScopedProject(d) /\ Figures!Settled(m)
                               /\ stage[m].completed # NoRow}
  BY <1>1, <1>3
<1>7. {m \in {m \in Checkpoints : /\ Figures!ScopedProject(d)' /\ Figures!Settled(m)'
                                  /\ stage'[m].completed # NoRow} :
           stage'[m].completed <= stage'[m].due}
        = {m \in {m \in Checkpoints : /\ Figures!ScopedProject(d) /\ Figures!Settled(m)
                                      /\ stage[m].completed # NoRow} :
               stage[m].completed <= stage[m].due}
  BY <1>1, <1>3
<1>8. Figures!Adherence(d)' = Figures!Adherence(d)
  BY <1>5, <1>6, <1>7 DEF Figures!Adherence
<1> QED BY <1>2, <1>8

LEMMA SameBacklog ==
    ASSUME FiguresInv, FiguresInv', NEW d \in Branches, SameIn(d)
    PROVE  Figures!VerificationBacklog(d)' = Figures!VerificationBacklog(d)
<1>1. /\ Figures!ScopedUsers(d)' = Figures!ScopedUsers(d)
      /\ \A p \in Figures!ScopedUsers(d) : standing'[p] = standing[p]
  BY SameScope
<1>2. d # NoRow
  BY RowsAssumption
<1>3. {p \in Observed : standing'[p] = "pending" /\ (d = NoRow \/ p \in Figures!ScopedUsers(d)')}
        = {p \in Observed : standing[p] = "pending" /\ (d = NoRow \/ p \in Figures!ScopedUsers(d))}
  BY <1>1, <1>2
<1> QED BY <1>3 DEF Figures!VerificationBacklog

LEMMA SamePublications ==
    ASSUME FiguresInv, FiguresInv', NEW d \in Branches, SameIn(d)
    PROVE  Figures!PublicationsByDepartment(d)' = Figures!PublicationsByDepartment(d)
<1>1. /\ Figures!PublicationWindow(d)' <=> Figures!PublicationWindow(d)
      /\ Figures!PublicationWindow(d) <=> Wrote(d)
  BY SameScope
<1>2. ASSUME NEW e \in Branches
      PROVE  (Figures!PublicationWindow(d)' /\ \E p \in authors' : users'[p].department = e)
                <=> (Figures!PublicationWindow(d) /\ \E p \in authors : users[p].department = e)
  BY <1>1 DEF SameIn
<1> QED BY <1>2 DEF Figures!PublicationsByDepartment, Figures!Count

LEMMA SameCollaboration ==
    ASSUME FiguresInv, FiguresInv', NEW d \in Branches, SameIn(d)
    PROVE  /\ Figures!CrossDepartment(d)' = Figures!CrossDepartment(d)
           /\ Figures!CollaborationTotals(d)' = Figures!CollaborationTotals(d)
<1>0. d # NoRow
  BY RowsAssumption
<1>1. /\ Involved(d) <=> \/ Figures!In(d, users[pairing.sender].department)
                         \/ Figures!In(d, users[pairing.recipient].department)
      /\ Involved(d)' <=> \/ Figures!In(d, users'[pairing'.sender].department)
                          \/ Figures!In(d, users'[pairing'.recipient].department)
  BY <1>0 DEF Figures!In, Involved, OfDepartment
<1>2. /\ Involved(d)' <=> Involved(d)
      /\ Involved(d) => /\ pairing' = pairing
                        /\ users'[pairing.sender].department = users[pairing.sender].department
                        /\ users'[pairing.recipient].department = users[pairing.recipient].department
  BY DEF SameIn
<1>3. Figures!CrossDepartment(d)' = Figures!CrossDepartment(d)
  BY <1>1, <1>2 DEF Figures!CrossDepartment, Figures!Count
<1>4. /\ Figures!ScopedUsers(d)' = Figures!ScopedUsers(d)
      /\ \A p \in Figures!ScopedUsers(d) : OfDepartment(d, p)
      /\ \A p \in Figures!ScopedUsers(d)' : OfDepartment(d, p)'
  BY <1>0, SameScope DEF SameIn
<1>5. (/\ pairing'.accepted
       /\ \/ d = NoRow \/ pairing'.sender \in Figures!ScopedUsers(d)'
          \/ pairing'.recipient \in Figures!ScopedUsers(d)')
        <=> (/\ pairing.accepted
             /\ \/ d = NoRow \/ pairing.sender \in Figures!ScopedUsers(d)
                \/ pairing.recipient \in Figures!ScopedUsers(d))
  BY <1>0, <1>2, <1>4 DEF Involved
<1>6. Figures!CollaborationTotals(d)' = Figures!CollaborationTotals(d)
  BY <1>5 DEF Figures!CollaborationTotals, Figures!Count
<1> QED BY <1>3, <1>6

LEMMA SamePlaces ==
    ASSUME FiguresInv, FiguresInv', NEW d \in Branches, SameIn(d)
    PROVE  /\ Figures!Funnel(d)' = Figures!Funnel(d)
           /\ Figures!Utilisation(d)' = Figures!Utilisation(d)
<1>0. d # NoRow
  BY RowsAssumption
<1>1. /\ Figures!ScopedOpening(d) <=> opening.department = d
      /\ Figures!ScopedOpening(d)' <=> opening'.department = d
      /\ Figures!ScopedBooking(d) <=> booking.department = d
      /\ Figures!ScopedBooking(d)' <=> booking'.department = d
  BY <1>0 DEF Figures!ScopedOpening, Figures!ScopedBooking, Figures!In
<1>2. /\ Figures!ScopedOpening(d)' <=> Figures!ScopedOpening(d)
      /\ Figures!ScopedOpening(d) => opening' = opening
      /\ Figures!ScopedBooking(d)' <=> Figures!ScopedBooking(d)
      /\ Figures!ScopedBooking(d) => booking' = booking
  BY <1>1 DEF SameIn
<1>3. Figures!Funnel(d)' = Figures!Funnel(d)
  BY <1>2 DEF Figures!Funnel, Figures!Count
<1>4. Figures!Utilisation(d)' = Figures!Utilisation(d)
  BY <1>2 DEF Figures!Utilisation, Figures!Count
<1> QED BY <1>3, <1>4

LEMMA SameInterest ==
    ASSUME FiguresInv, FiguresInv', NEW d \in Branches, SameIn(d)
    PROVE  Figures!FundingInterest(d)' = Figures!FundingInterest(d)
<1>0. d # NoRow
  BY RowsAssumption
<1>1. /\ Figures!ScopedUsers(d)' = Figures!ScopedUsers(d)
      /\ \A p \in Figures!ScopedUsers(d) : OfDepartment(d, p)
      /\ \A p \in Figures!ScopedUsers(d)' : OfDepartment(d, p)'
  BY SameScope DEF SameIn
<1>2. /\ Saved(d)' <=> Saved(d)
      /\ Saved(d) => savers' = savers
      /\ ~Saved(d) => savers \cap Figures!ScopedUsers(d) = {}
      /\ ~Saved(d)' => savers' \cap Figures!ScopedUsers(d)' = {}
  BY <1>1 DEF SameIn, Saved
<1> QED BY <1>0, <1>1, <1>2 DEF Figures!FundingInterest

LEMMA SameReport ==
    ASSUME FiguresInv, FiguresInv', NEW d \in Branches, SameIn(d)
    PROVE  Figures!Report(d)' = Figures!Report(d)
<1>1. /\ Figures!ScopedUsers(d)' = Figures!ScopedUsers(d)
      /\ \A p \in Figures!ScopedUsers(d) : users'[p] = users[p] /\ standing'[p] = standing[p]
      /\ Figures!PublicationWindow(d)' <=> Figures!PublicationWindow(d)
      /\ Figures!PublicationWindow(d) <=> Wrote(d)
  BY SameScope
<1>2. {p \in Figures!ScopedUsers(d)' : standing'[p] # NoRow}
        = {p \in Figures!ScopedUsers(d) : standing[p] # NoRow}
  BY <1>1
<1>3. {p \in {p \in Figures!ScopedUsers(d)' : standing'[p] # NoRow} : standing'[p] = "verified"}
        = {p \in {p \in Figures!ScopedUsers(d) : standing[p] # NoRow} : standing[p] = "verified"}
  BY <1>1
<1>4. {p \in Figures!ScopedUsers(d)' : users'[p].role = "student"}
        = {p \in Figures!ScopedUsers(d) : users[p].role = "student"}
  BY <1>1
<1>5. (Figures!PublicationWindow(d)' /\ \E p \in authors' : users'[p].department # NoRow)
        <=> (Figures!PublicationWindow(d) /\ \E p \in authors : users[p].department # NoRow)
  BY <1>1 DEF SameIn
<1> QED BY <1>1, <1>2, <1>3, <1>4, <1>5 DEF Figures!Report, Figures!Count

LEMMA NoPairs == Figures!Pairs({}) = {}
<1>1. \A S : Figures!Cardinality(S) = Cardinality(S)
  BY DEF Figures!Cardinality, Figures!IsFiniteSet, Cardinality, IsFiniteSet
<1> QED BY <1>1, FS_EmptySet DEF Figures!Pairs

LEMMA SameGraph ==
    ASSUME FiguresInv, FiguresInv', NEW d \in Branches, SameIn(d)
    PROVE  Figures!Graph(d)' = Figures!Graph(d)
<1> DEFINE visible == Figures!VisiblePeople(d)
<1>1. /\ Figures!VisiblePeople(d)' = visible
      /\ \A p \in visible : /\ p \in Observed /\ OfDepartment(d, p) /\ OfDepartment(d, p)'
                            /\ users'[p] = users[p]
                            /\ p \in Figures!Together' <=> p \in Figures!Together
  BY SameScope DEF Figures!VisiblePeople, SameIn
<1>2. [p \in Figures!VisiblePeople(d)' |-> users'[p]] = [p \in visible |-> users[p]]
  BY <1>1
<1>3. authors' \cap visible = authors \cap visible
  <2>1. Wrote(d) => authors' = authors
    BY DEF SameIn
  <2>2. ~Wrote(d) => authors \cap visible = {} /\ authors' \cap visible = {}
    BY <1>1 DEF Wrote, SameIn
  <2> QED BY <2>1, <2>2
<1>4. Figures!Together' \cap visible = Figures!Together \cap visible
  BY <1>1
<1>5. (IF pairing'.accepted
       THEN Figures!Pairs({pairing'.sender, pairing'.recipient} \cap visible) ELSE {})
        = (IF pairing.accepted
           THEN Figures!Pairs({pairing.sender, pairing.recipient} \cap visible) ELSE {})
  <2>1. Involved(d) => pairing' = pairing
    BY DEF SameIn
  <2>2. ~Involved(d) => /\ {pairing.sender, pairing.recipient} \cap visible = {}
                        /\ {pairing'.sender, pairing'.recipient} \cap visible = {}
    BY <1>1 DEF Involved, SameIn
  <2> HIDE DEF visible
  <2> QED BY <2>1, <2>2, NoPairs
<1> QED BY <1>1, <1>2, <1>3, <1>4, <1>5 DEF Figures!Graph

\* Two states in which the same belongs to a department show its coordinator the same.
LEMMA FiguresConfined ==
    ASSUME FiguresInv, FiguresInv'
    PROVE  Figures!ConfinedToDepartment
<1> SUFFICES ASSUME NEW d \in Branches, Figures!Of(d)' = Figures!Of(d),
                    NEW s \in UNION {Figures!Readable(p, d) :
                                        p \in {c \in Observed : Figures!DefaultScope(c, d) = d}}
             PROVE  Figures!FiguresOf(s)' = Figures!FiguresOf(s)
  BY DEF Figures!ConfinedToDepartment
<1>1. s = d
  <2>1. d # NoRow
    BY RowsAssumption
  <2>2. PICK p \in Observed : Figures!DefaultScope(p, d) = d /\ s \in Figures!Readable(p, d)
    OBVIOUS
  <2> QED BY <2>1, <2>2 DEF Figures!Readable, Figures!Refused
<1>2. SameIn(d)
  BY OfSays
<1>3. Figures!FiguresOf(d)' = Figures!FiguresOf(d)
  BY <1>2, SameAdherence, SameBacklog, SamePublications, SameCollaboration, SamePlaces,
     SameInterest, SameReport, SameGraph DEF Figures!FiguresOf
<1> QED BY <1>1, <1>3

\* A coordinator's figures and network move only with what belongs to their department or to
\* its people: nothing that happens in another one shows in them (analytics/insights.py:
\* scope_for and every scoped query, network.py: build_graph).
THEOREM DepartmentsAreConfined == Spec => ConfinedToDepartment
<1>1. (part = "figures" => FiguresInv) /\ (part = "figures" => FiguresInv)' /\ [Next]_vars
        => [part = "figures" => Figures!ConfinedToDepartment]_vars
  <2>1. ASSUME part = "figures" => FiguresInv, (part = "figures" => FiguresInv)',
               [Next]_vars, part = "figures"
        PROVE  Figures!ConfinedToDepartment
    BY <2>1, FiguresRuns, FiguresConfined
  <2> QED BY <2>1
<1> QED BY <1>1, FiguresHold, PTL DEF Spec, ConfinedToDepartment

-----------------------------------------------------------------------------
(* Matching *)

\* A finite set of times has a newest one.
LEMMA NewestIsNewest ==
    ASSUME NEW S, S \subseteq 0..MaxStamp
    PROVE  /\ Matching!Newest(S) \in S \cup {0}
           /\ \A s \in S : s <= Matching!Newest(S)
<1> DEFINE T == {MaxStamp - s : s \in S \cup {0}}
<1>0. S \cup {0} \subseteq Nat
  BY TextsAssumption
<1>1. T \subseteq Nat /\ T # {}
  BY TextsAssumption
<1>2. PICK n \in T : \A m \in T : ~(<<m, n>> \in OpToRel(<, Nat))
  BY <1>1, NatLessThanWellFounded, WFMin
<1>3. \A m \in T : ~(m < n)
  BY <1>1, <1>2 DEF OpToRel
<1>4. PICK s \in S \cup {0} : n = MaxStamp - s
  BY <1>2
<1>5. \A r \in S : r <= s
  <2> SUFFICES ASSUME NEW r \in S PROVE r <= s
    OBVIOUS
  <2>1. MaxStamp - r \in T
    OBVIOUS
  <2>2. r \in Nat /\ s \in Nat
    BY <1>0
  <2>3. ~(MaxStamp - r < n)
    BY <1>3, <2>1
  <2> QED BY <1>4, <2>2, <2>3, TextsAssumption
<1> QED BY <1>4, <1>5 DEF Matching!Newest

IsSave(t) == t.op = "save"
IsEmbed(t) == t.op = "embed"
IsRanking(t) == t.op \in {"ask", "build"}

SaveStands(t) ==
    /\ t.of \in Texts /\ t.began \in Nat /\ t.began <= clock
    /\ updatedAt[t.of] <= t.began

MatchingShape ==
    /\ version \in [Texts -> Nat] /\ updatedAt \in [Texts -> 0..MaxStamp]
    /\ clock \in 0..MaxStamp /\ \A x \in Texts : updatedAt[x] <= clock
    /\ DOMAIN work = Workers
    /\ \A w \in Workers : IsSave(work[w]) => SaveStands(work[w])
    /\ \A v \in Workers : \A w \in Workers :
          (IsSave(work[v]) /\ IsSave(work[w]) /\ work[v].of = work[w].of) => v = w

NotBefore(f, g) == f \in Nat \X Nat /\ f[1] <= g[1] /\ f[2] <= g[2]

\* What was read when, or after, the fingerprint was f is no older than what stood then.
IndexStands(f, texts) ==
    /\ NotBefore(f, Matching!Fingerprint)
    /\ f = Matching!Fingerprint => \A x \in Texts \ unnoted : texts[x] >= version[x]
    /\ \A w \in Workers : (IsRanking(work[w]) /\ work[w].fingerprint = f) =>
          \A x \in Texts \ unnoted : texts[x] >= work[w].stood[x]

RankingStands(t) ==
    /\ t.stood \in [Texts -> Nat]
    /\ NotBefore(t.fingerprint, Matching!Fingerprint)
    /\ \A x \in Texts : t.stood[x] <= version[x]

BuildStands(t) ==
    /\ t.documents \in [Texts -> Nat]
    /\ IndexStands(t.fingerprint, t.documents)

CacheStands ==
    cache # NoRow => /\ cache.documents \in [Texts -> Nat]
                     /\ IndexStands(cache.fingerprint, cache.documents)

MatchingRanks ==
    /\ CacheStands
    /\ \A w \in Workers : IsRanking(work[w]) => RankingStands(work[w])
    /\ \A w \in Workers : work[w].op = "build" => BuildStands(work[w])
    /\ Matching!RankedByWhatStood

EmbedStands(t) ==
    /\ t.of \in Texts /\ t.read \in Nat /\ t.read <= version[t.of]
    /\ t.row = NoRow \/ (t.row \in Nat /\ t.row < t.read)

\* The vector is of what the text says, or somebody who read that is about to write it.
Following(x) ==
    \/ x \in queued
    \/ embedded[x] = version[x]
    \/ \E w \in Workers : IsEmbed(work[w]) /\ work[w].of = x /\ work[w].read = version[x]

MatchingVectors ==
    /\ embedded \in [Texts -> Nat \cup {NoRow}]
    /\ \A x \in Texts : embedded[x] # NoRow => embedded[x] <= version[x]
    /\ \A w \in Workers : IsEmbed(work[w]) => EmbedStands(work[w])
    /\ \A x \in Texts \ behind : version[x] > 0 => Following(x)

MatchingInv == MatchingShape /\ MatchingRanks /\ MatchingVectors

LEMMA MatchingCounts == \A S : Matching!Cardinality(S) = Cardinality(S)
BY DEF Matching!Cardinality, Matching!IsFiniteSet, Cardinality, IsFiniteSet

StoredIn(v) == {x \in Texts : v[x] > 0}
NewestIn(v, u) == Matching!Newest({u[x] : x \in StoredIn(v)})

LEMMA NewestStamp ==
    ASSUME NEW v \in [Texts -> Nat], NEW u \in [Texts -> 0..MaxStamp]
    PROVE  /\ StoredIn(v) \subseteq Texts /\ IsFiniteSet(StoredIn(v))
           /\ Cardinality(StoredIn(v)) \in Nat
           /\ NewestIn(v, u) \in Nat
           /\ NewestIn(v, u) = 0 \/ \E x \in StoredIn(v) : NewestIn(v, u) = u[x]
           /\ \A x \in StoredIn(v) : u[x] <= NewestIn(v, u)
<1>1. StoredIn(v) \subseteq Texts
  BY DEF StoredIn
<1>2. IsFiniteSet(StoredIn(v)) /\ Cardinality(StoredIn(v)) \in Nat
  BY <1>1, FS_Subset, FS_CardinalityType, TextsAssumption
<1> DEFINE S == {u[x] : x \in StoredIn(v)}
<1>3. S \subseteq 0..MaxStamp
  BY <1>1
<1>4. /\ Matching!Newest(S) \in S \cup {0}
      /\ \A s \in S : s <= Matching!Newest(S)
  BY <1>3, NewestIsNewest
<1>5. Matching!Newest(S) \in Nat
  <2>1. S \cup {0} \subseteq Nat
    BY <1>3, TextsAssumption
  <2> HIDE DEF S
  <2> QED BY <1>4, <2>1
<1>6. NewestIn(v, u) = Matching!Newest(S)
  BY DEF NewestIn
<1>7. NewestIn(v, u) = 0 \/ \E x \in StoredIn(v) : NewestIn(v, u) = u[x]
  BY <1>4, <1>6
<1>8. \A x \in StoredIn(v) : u[x] <= NewestIn(v, u)
  BY <1>4, <1>6
<1> QED BY <1>1, <1>2, <1>5, <1>6, <1>7, <1>8

\* Another row, or a later time in one: the fingerprint never goes back.
LEMMA FingerprintGrows ==
    ASSUME version \in [Texts -> Nat], updatedAt \in [Texts -> 0..MaxStamp],
           version' \in [Texts -> Nat], updatedAt' \in [Texts -> 0..MaxStamp],
           \A x \in Texts : version[x] <= version'[x] /\ updatedAt[x] <= updatedAt'[x]
    PROVE  NotBefore(Matching!Fingerprint, Matching!Fingerprint')
<1>1. /\ Matching!Fingerprint = <<Cardinality(StoredIn(version)), NewestIn(version, updatedAt)>>
      /\ Matching!Fingerprint' = <<Cardinality(StoredIn(version')), NewestIn(version', updatedAt')>>
  BY MatchingCounts DEF Matching!Fingerprint, StoredIn, NewestIn, Matching!Newest
<1>2. StoredIn(version) \subseteq StoredIn(version')
  BY DEF StoredIn
<1>3. Cardinality(StoredIn(version)) <= Cardinality(StoredIn(version'))
  BY <1>2, NewestStamp, FS_Subset
<1>4. NewestIn(version, updatedAt) <= NewestIn(version', updatedAt')
  <2>1. NewestIn(version, updatedAt) \in Nat /\ NewestIn(version', updatedAt') \in Nat
    BY NewestStamp
  <2>2. CASE NewestIn(version, updatedAt) = 0
    BY <2>1, <2>2
  <2>3. ASSUME NEW x \in StoredIn(version), NewestIn(version, updatedAt) = updatedAt[x]
        PROVE  NewestIn(version, updatedAt) <= NewestIn(version', updatedAt')
    <3>1. x \in StoredIn(version') /\ x \in Texts
      BY <1>2 DEF StoredIn
    <3>2. updatedAt[x] <= updatedAt'[x] /\ updatedAt'[x] <= NewestIn(version', updatedAt')
      BY <3>1, NewestStamp
    <3>3. updatedAt[x] \in Nat /\ updatedAt'[x] \in Nat
      BY <3>1
    <3> QED BY <2>1, <2>3, <3>2, <3>3
  <2> QED BY <2>2, <2>3, NewestStamp
<1> QED BY <1>1, <1>3, <1>4, NewestStamp DEF NotBefore

LEMMA MatchingShapeKeeps ==
    ASSUME MatchingShape, Matching!Next \/ UNCHANGED <<work, clock, matchingOwn>>
    PROVE  /\ MatchingShape'
           /\ \A x \in Texts : version[x] <= version'[x] /\ updatedAt[x] <= updatedAt'[x]
<1> USE TextsAssumption DEF IsSave
<1>1. CASE /\ UNCHANGED <<version, updatedAt, clock>> /\ DOMAIN work' = Workers
           /\ \A v \in Workers : IsSave(work'[v]) => work'[v] = work[v]
  BY <1>1 DEF MatchingShape, SaveStands
<1>2. ASSUME NEW w \in Workers, NEW x \in Texts, NEW queues \in BOOLEAN,
             Matching!SaveLoad(w, x, queues)
      PROVE  /\ MatchingShape'
             /\ \A y \in Texts : version[y] <= version'[y] /\ updatedAt[y] <= updatedAt'[y]
  <2>1. /\ work' = [work EXCEPT ![w] = [op |-> "save", of |-> x, began |-> clock, queues |-> queues]]
        /\ ~\E v \in Workers : work[v].op = "save" /\ work[v].of = x
        /\ UNCHANGED <<version, updatedAt, clock>>
    BY <1>2 DEF Matching!SaveLoad, Matching!Begin
  <2>2. /\ work'[w].op = "save" /\ work'[w].of = x /\ work'[w].began = clock
        /\ \A v \in Workers : v # w => work'[v] = work[v]
        /\ DOMAIN work' = Workers
    BY <2>1 DEF MatchingShape
  <2> QED BY <2>1, <2>2 DEF MatchingShape, SaveStands
<1>3. ASSUME NEW w \in Workers, Matching!SaveCommit(w)
      PROVE  /\ MatchingShape'
             /\ \A y \in Texts : version[y] <= version'[y] /\ updatedAt[y] <= updatedAt'[y]
  <2> DEFINE t == work[w]
  <2>1. /\ t.op = "save" /\ work' = [work EXCEPT ![w] = Matching!Idle] /\ clock' = clock
        /\ version' = [version EXCEPT ![t.of] = @ + 1]
        /\ updatedAt' = [updatedAt EXCEPT ![t.of] = t.began]
    BY <1>3 DEF Matching!SaveCommit, Matching!End
  <2>2. t.of \in Texts /\ t.began \in Nat /\ t.began <= clock /\ updatedAt[t.of] <= t.began
    BY <2>1 DEF MatchingShape, SaveStands
  <2>3. /\ work'[w].op = "idle" /\ \A v \in Workers : v # w => work'[v] = work[v]
        /\ DOMAIN work' = Workers
    BY <2>1 DEF MatchingShape, Matching!Idle
  <2>4. /\ version'[t.of] = version[t.of] + 1 /\ updatedAt'[t.of] = t.began
        /\ \A y \in Texts : y # t.of => version'[y] = version[y] /\ updatedAt'[y] = updatedAt[y]
        /\ version' \in [Texts -> Nat] /\ updatedAt' \in [Texts -> 0..MaxStamp]
    BY <2>1, <2>2 DEF MatchingShape
  <2>5. \A y \in Texts : version[y] <= version'[y] /\ updatedAt[y] <= updatedAt'[y]
    BY <2>2, <2>4 DEF MatchingShape
  <2>6. \A y \in Texts : updatedAt'[y] <= clock'
    BY <2>1, <2>2, <2>4 DEF MatchingShape
  <2>7. \A v \in Workers : IsSave(work'[v]) => v # w /\ work'[v] = work[v] /\ work[v].of # t.of
    BY <2>1, <2>3 DEF MatchingShape
  <2> QED BY <2>1, <2>3, <2>4, <2>5, <2>6, <2>7 DEF MatchingShape, SaveStands
<1>4. CASE Matching!Tick
  BY <1>4 DEF Matching!Tick, MatchingShape, SaveStands
<1>5. ASSUME NEW w \in Workers,
             \/ Matching!EmbedWrite(w) \/ Matching!Ask(w) \/ Matching!Look(w) \/ Matching!Build(w)
             \/ \E x \in Texts : Matching!EmbedRead(w, x)
      PROVE  /\ UNCHANGED <<version, updatedAt, clock>> /\ DOMAIN work' = Workers
             /\ \A v \in Workers : IsSave(work'[v]) => work'[v] = work[v]
  <2>1. /\ UNCHANGED <<version, updatedAt, clock>>
        /\ \/ work' = work
           \/ \E t : t.op # "save" /\ work' = [work EXCEPT ![w] = t]
    <3>1. CASE Matching!EmbedWrite(w) \/ Matching!Build(w)
      BY <3>1 DEF Matching!EmbedWrite, Matching!Build, Matching!End, Matching!Idle
    <3>2. CASE Matching!Ask(w)
      BY <3>2 DEF Matching!Ask, Matching!Begin
    <3>3. CASE Matching!Look(w)
      BY <3>3 DEF Matching!Look, Matching!End, Matching!Idle
    <3>4. ASSUME NEW x \in Texts, Matching!EmbedRead(w, x)
          PROVE  /\ UNCHANGED <<version, updatedAt, clock>>
                 /\ \/ work' = work
                    \/ \E t : t.op # "save" /\ work' = [work EXCEPT ![w] = t]
      BY <3>4 DEF Matching!EmbedRead, Matching!Begin
    <3> QED BY <1>5, <3>1, <3>2, <3>3, <3>4
  <2> QED BY <2>1 DEF MatchingShape
<1>6. CASE Matching!Restart
  BY <1>6, <1>1 DEF Matching!Restart, Matching!Idle, MatchingShape
<1>7. CASE Matching!Backfill \/ UNCHANGED <<work, clock, matchingOwn>>
  BY <1>7, <1>1 DEF Matching!Backfill, matchingOwn, MatchingShape
<1> QED BY <1>1, <1>2, <1>3, <1>4, <1>5, <1>6, <1>7 DEF Matching!Next

LEMMA FingerprintTyped ==
    ASSUME version' \in [Texts -> Nat], updatedAt' \in [Texts -> 0..MaxStamp]
    PROVE  Matching!Fingerprint' \in Nat \X Nat
<1>1. Matching!Fingerprint' = <<Cardinality(StoredIn(version')), NewestIn(version', updatedAt')>>
  BY MatchingCounts DEF Matching!Fingerprint, StoredIn, NewestIn, Matching!Newest
<1> QED BY <1>1, NewestStamp

LEMMA SameFingerprint ==
    UNCHANGED <<version, updatedAt>> => Matching!Fingerprint' = Matching!Fingerprint
BY DEF Matching!Fingerprint, Matching!Newest

\* What stood of the rankings stands while the texts stay, and nobody else asks.
SameRankings ==
    /\ UNCHANGED <<version, updatedAt, unnoted>>
    /\ \A v \in Workers : IsRanking(work'[v]) =>
          /\ IsRanking(work[v]) /\ work'[v].fingerprint = work[v].fingerprint
          /\ work'[v].stood = work[v].stood

LEMMA SameRankingsKeep ==
    ASSUME MatchingRanks, SameRankings
    PROVE  /\ \A f, d : IndexStands(f, d) => IndexStands(f, d)'
           /\ (\A w \in Workers : IsRanking(work[w]) => RankingStands(work[w]))'
<1>1. Matching!Fingerprint' = Matching!Fingerprint
  BY SameFingerprint DEF SameRankings
<1>2. ASSUME NEW f, NEW d, IndexStands(f, d) PROVE IndexStands(f, d)'
  BY <1>1, <1>2 DEF SameRankings, IndexStands
<1>3. ASSUME NEW w \in Workers, IsRanking(work'[w]) PROVE RankingStands(work[w])'
  <2>1. RankingStands(work[w])
    BY <1>3 DEF MatchingRanks, SameRankings
  <2> QED BY <2>1, <1>1, <1>3 DEF SameRankings, RankingStands
<1> QED BY <1>2, <1>3

\* Whoever keeps its cache, its answer and its builds.
LEMMA MatchingStays ==
    ASSUME MatchingRanks, SameRankings,
           cache' = cache \/ cache' = NoRow, ranked' = ranked,
           \A v \in Workers : work'[v].op = "build" => work'[v] = work[v]
    PROVE  MatchingRanks'
<1>1. /\ \A f, d : IndexStands(f, d) => IndexStands(f, d)'
      /\ (\A w \in Workers : IsRanking(work[w]) => RankingStands(work[w]))'
  BY SameRankingsKeep
<1>2. CacheStands'
  BY <1>1 DEF MatchingRanks, CacheStands
<1>3. ASSUME NEW w \in Workers, work'[w].op = "build" PROVE BuildStands(work[w])'
  BY <1>1, <1>3 DEF MatchingRanks, BuildStands
<1>4. Matching!RankedByWhatStood'
  BY DEF MatchingRanks, Matching!RankedByWhatStood, SameRankings
<1> QED BY <1>1, <1>2, <1>3, <1>4 DEF MatchingRanks

LEMMA MatchingSaved ==
    ASSUME MatchingShape, MatchingShape', MatchingRanks, NEW w \in Workers, Matching!SaveCommit(w),
           \A x \in Texts : version[x] <= version'[x] /\ updatedAt[x] <= updatedAt'[x]
    PROVE  MatchingRanks'
<1> DEFINE t == work[w]
<1>1. /\ t.op = "save" /\ work' = [work EXCEPT ![w] = Matching!Idle]
      /\ version' = [version EXCEPT ![t.of] = @ + 1]
      /\ unnoted' = IF Matching!Fingerprint' = Matching!Fingerprint THEN unnoted \cup {t.of} ELSE unnoted
      /\ cache' = cache /\ ranked' = ranked
  BY DEF Matching!SaveCommit, Matching!End
<1>2. NotBefore(Matching!Fingerprint, Matching!Fingerprint')
  BY FingerprintGrows DEF MatchingShape
<1>3. /\ unnoted \subseteq unnoted'
      /\ \A x \in Texts : version[x] \in Nat /\ version'[x] \in Nat
      /\ \A x \in Texts \ unnoted' : Matching!Fingerprint' = Matching!Fingerprint => version'[x] = version[x]
  BY <1>1 DEF MatchingShape
<1>4. \A v \in Workers : work'[v].op # "idle" => work'[v] = work[v]
  BY <1>1 DEF Matching!Idle, MatchingShape
<1>5. ASSUME NEW f, NotBefore(f, Matching!Fingerprint)
      PROVE  /\ NotBefore(f, Matching!Fingerprint')
             /\ f = Matching!Fingerprint' => f = Matching!Fingerprint
  <2>1. PICK a \in Nat, b \in Nat : f = <<a, b>>
    BY <1>5 DEF NotBefore
  <2>2. PICK c \in Nat, d \in Nat : Matching!Fingerprint = <<c, d>>
    BY <1>2 DEF NotBefore
  <2>3. /\ Matching!Fingerprint'[1] \in Nat /\ Matching!Fingerprint'[2] \in Nat
    BY FingerprintTyped DEF MatchingShape
  <2> QED BY <1>2, <1>5, <2>1, <2>2, <2>3 DEF NotBefore
<1>6. ASSUME NEW f, NEW d \in [Texts -> Nat], IndexStands(f, d) PROVE IndexStands(f, d)'
  <2>1. NotBefore(f, Matching!Fingerprint) /\ NotBefore(f, Matching!Fingerprint')
    BY <1>5, <1>6 DEF IndexStands
  <2>2. ASSUME f = Matching!Fingerprint', NEW x \in Texts \ unnoted' PROVE d[x] >= version'[x]
    <3>1. f = Matching!Fingerprint /\ version'[x] = version[x] /\ x \notin unnoted
      BY <1>3, <1>5, <2>1, <2>2
    <3> QED BY <3>1, <1>6 DEF IndexStands
  <2>3. ASSUME NEW v \in Workers, IsRanking(work'[v]), work'[v].fingerprint = f,
               NEW x \in Texts \ unnoted'
        PROVE  d[x] >= work'[v].stood[x]
    BY <1>3, <1>4, <1>6, <2>3 DEF IndexStands, IsRanking
  <2> QED BY <2>1, <2>2, <2>3 DEF IndexStands
<1>7. ASSUME NEW v \in Workers, IsRanking(work'[v]) PROVE RankingStands(work[v])'
  <2>1. work'[v] = work[v] /\ RankingStands(work[v])
    BY <1>4, <1>7 DEF IsRanking, MatchingRanks
  <2>2. NotBefore(work[v].fingerprint, Matching!Fingerprint')
    BY <1>5, <2>1 DEF RankingStands
  <2>3. \A x \in Texts : work[v].stood[x] <= version'[x]
    BY <1>3, <2>1 DEF RankingStands
  <2> QED BY <2>1, <2>2, <2>3 DEF RankingStands
<1>8. CacheStands'
  BY <1>1, <1>6 DEF MatchingRanks, CacheStands
<1>9. ASSUME NEW v \in Workers, work'[v].op = "build" PROVE BuildStands(work[v])'
  BY <1>4, <1>6, <1>9 DEF MatchingRanks, BuildStands
<1>10. Matching!RankedByWhatStood'
  BY <1>1, <1>3 DEF MatchingRanks, Matching!RankedByWhatStood
<1> QED BY <1>7, <1>8, <1>9, <1>10 DEF MatchingRanks

LEMMA MatchingAsked ==
    ASSUME MatchingShape, MatchingRanks, NEW w \in Workers, Matching!Ask(w)
    PROVE  MatchingRanks'
<1>1. /\ work' = [work EXCEPT ![w] = [op |-> "ask", fingerprint |-> Matching!Fingerprint,
                                      stood |-> version]]
      /\ UNCHANGED <<version, updatedAt, cache, ranked, unnoted>>
  BY DEF Matching!Ask, Matching!Begin
<1>2. /\ work'[w] = [op |-> "ask", fingerprint |-> Matching!Fingerprint, stood |-> version]
      /\ \A v \in Workers : v # w => work'[v] = work[v]
  BY <1>1 DEF MatchingShape
<1>3. Matching!Fingerprint' = Matching!Fingerprint
  BY <1>1, SameFingerprint
<1>4. ASSUME NEW f, NEW d, IndexStands(f, d) PROVE IndexStands(f, d)'
  <2>1. ASSUME NEW v \in Workers, IsRanking(work'[v]), work'[v].fingerprint = f,
               NEW x \in Texts \ unnoted
        PROVE  d[x] >= work'[v].stood[x]
    BY <1>2, <1>4, <2>1 DEF IndexStands
  <2> QED BY <1>1, <1>3, <1>4, <2>1 DEF IndexStands
<1>5. ASSUME NEW v \in Workers, IsRanking(work'[v]) PROVE RankingStands(work[v])'
  <2>1. CASE v = w
    <3>1. NotBefore(Matching!Fingerprint, Matching!Fingerprint)
      <4>1. Matching!Fingerprint \in Nat \X Nat
        <5>1. Matching!Fingerprint = <<Cardinality(StoredIn(version)), NewestIn(version, updatedAt)>>
          BY MatchingCounts DEF Matching!Fingerprint, StoredIn, NewestIn, Matching!Newest
        <5> QED BY <5>1, NewestStamp DEF MatchingShape
      <4> QED BY <4>1 DEF NotBefore
    <3>2. \A x \in Texts : version[x] <= version[x]
      BY DEF MatchingShape
    <3> QED BY <1>1, <1>2, <1>3, <2>1, <3>1, <3>2 DEF RankingStands, MatchingShape
  <2>2. CASE v # w
    <3>1. work'[v] = work[v] /\ RankingStands(work[v])
      BY <1>2, <1>5, <2>2 DEF MatchingRanks
    <3> QED BY <1>1, <1>3, <3>1 DEF RankingStands
  <2> QED BY <2>1, <2>2
<1>6. CacheStands'
  BY <1>1, <1>4 DEF MatchingRanks, CacheStands
<1>7. ASSUME NEW v \in Workers, work'[v].op = "build" PROVE BuildStands(work[v])'
  BY <1>2, <1>4, <1>7 DEF MatchingRanks, BuildStands
<1>8. Matching!RankedByWhatStood'
  BY <1>1 DEF MatchingRanks, Matching!RankedByWhatStood
<1> QED BY <1>5, <1>6, <1>7, <1>8 DEF MatchingRanks

LEMMA MatchingLooked ==
    ASSUME MatchingShape, MatchingRanks, NEW w \in Workers, Matching!Look(w)
    PROVE  MatchingRanks'
<1> DEFINE t == work[w]
<1>1. /\ t.op = "ask" /\ IsRanking(t) /\ RankingStands(t)
      /\ UNCHANGED <<version, updatedAt, cache, unnoted>>
  BY DEF Matching!Look, IsRanking, MatchingRanks
<1>2. CASE Matching!SameFingerprint(t.fingerprint)
  <2>1. /\ ranked' = [stood |-> t.stood, by |-> cache.documents]
        /\ work' = [work EXCEPT ![w] = Matching!Idle]
        /\ cache # NoRow /\ cache.fingerprint = t.fingerprint
    BY <1>2 DEF Matching!Look, Matching!End, Matching!SameFingerprint
  <2>2. work'[w].op = "idle" /\ \A v \in Workers : v # w => work'[v] = work[v]
    BY <2>1 DEF MatchingShape, Matching!Idle
  <2>3. SameRankings
    BY <1>1, <2>2 DEF SameRankings, IsRanking
  <2>4. \A x \in Texts \ unnoted : cache.documents[x] >= t.stood[x]
    BY <1>1, <2>1 DEF MatchingRanks, CacheStands, IndexStands
  <2>5. Matching!RankedByWhatStood'
    BY <1>1, <2>1, <2>4 DEF Matching!RankedByWhatStood
  <2>6. /\ \A f, d : IndexStands(f, d) => IndexStands(f, d)'
        /\ (\A v \in Workers : IsRanking(work[v]) => RankingStands(work[v]))'
    BY <2>3, SameRankingsKeep
  <2>7. CacheStands'
    BY <1>1, <2>6 DEF MatchingRanks, CacheStands
  <2>8. ASSUME NEW v \in Workers, work'[v].op = "build" PROVE BuildStands(work[v])'
    BY <2>2, <2>6, <2>8 DEF MatchingRanks, BuildStands
  <2> QED BY <2>5, <2>6, <2>7, <2>8 DEF MatchingRanks
<1>3. CASE ~Matching!SameFingerprint(t.fingerprint)
  <2>1. /\ ranked' = ranked
        /\ work' = [work EXCEPT ![w] = [op |-> "build", fingerprint |-> t.fingerprint,
                                        stood |-> t.stood, documents |-> version]]
    BY <1>3 DEF Matching!Look
  <2>2. /\ work'[w] = [op |-> "build", fingerprint |-> t.fingerprint,
                       stood |-> t.stood, documents |-> version]
        /\ \A v \in Workers : v # w => work'[v] = work[v]
    BY <2>1 DEF MatchingShape
  <2>3. SameRankings
    BY <1>1, <2>2 DEF SameRankings
  <2>4. /\ \A f, d : IndexStands(f, d) => IndexStands(f, d)'
        /\ (\A v \in Workers : IsRanking(work[v]) => RankingStands(work[v]))'
    BY <2>3, SameRankingsKeep
  <2>5. IndexStands(t.fingerprint, version)
    <3>1. \A x \in Texts : version[x] >= version[x]
      BY DEF MatchingShape
    <3>2. ASSUME NEW v \in Workers, IsRanking(work[v]), NEW x \in Texts
          PROVE  version[x] >= work[v].stood[x]
      BY <3>2 DEF MatchingRanks, RankingStands, MatchingShape
    <3> QED BY <1>1, <3>1, <3>2 DEF IndexStands, RankingStands
  <2>6. ASSUME NEW v \in Workers, work'[v].op = "build" PROVE BuildStands(work[v])'
    <3>1. CASE v # w
      BY <2>2, <2>4, <2>6, <3>1 DEF MatchingRanks, BuildStands
    <3>2. CASE v = w
      <4>1. work'[v].fingerprint = t.fingerprint /\ work'[v].documents = version
        BY <2>2, <3>2
      <4>2. IndexStands(work[v].fingerprint, work[v].documents)'
        <5>1. PICK f, d : f = t.fingerprint /\ d = version
          OBVIOUS
        <5>2. IndexStands(f, d)'
          BY <2>4, <2>5, <5>1
        <5> QED BY <4>1, <5>1, <5>2 DEF IndexStands
      <4> QED BY <4>1, <4>2 DEF BuildStands, MatchingShape
    <3> QED BY <3>1, <3>2
  <2>7. CacheStands'
    BY <1>1, <2>4 DEF MatchingRanks, CacheStands
  <2>8. Matching!RankedByWhatStood'
    BY <1>1, <2>1 DEF MatchingRanks, Matching!RankedByWhatStood
  <2> QED BY <2>4, <2>6, <2>7, <2>8 DEF MatchingRanks
<1> QED BY <1>2, <1>3

LEMMA MatchingBuilt ==
    ASSUME MatchingShape, MatchingRanks, NEW w \in Workers, Matching!Build(w)
    PROVE  MatchingRanks'
<1> DEFINE t == work[w]
<1>1. /\ t.op = "build" /\ IsRanking(t) /\ RankingStands(t) /\ BuildStands(t)
      /\ cache' = [fingerprint |-> t.fingerprint, documents |-> t.documents]
      /\ ranked' = [stood |-> t.stood, by |-> t.documents]
      /\ work' = [work EXCEPT ![w] = Matching!Idle]
      /\ UNCHANGED <<version, updatedAt, unnoted>>
  BY DEF Matching!Build, Matching!End, IsRanking, MatchingRanks
<1>2. work'[w].op = "idle" /\ \A v \in Workers : v # w => work'[v] = work[v]
  BY <1>1 DEF MatchingShape, Matching!Idle
<1>3. SameRankings
  BY <1>1, <1>2 DEF SameRankings, IsRanking
<1>4. /\ \A f, d : IndexStands(f, d) => IndexStands(f, d)'
      /\ (\A v \in Workers : IsRanking(work[v]) => RankingStands(work[v]))'
  BY <1>3, SameRankingsKeep
<1>5. CacheStands'
  <2>1. PICK f, d : f = t.fingerprint /\ d = t.documents
    OBVIOUS
  <2>2. IndexStands(f, d)' /\ cache'.fingerprint = f /\ cache'.documents = d
        /\ d \in [Texts -> Nat]
    BY <1>1, <1>4, <2>1 DEF BuildStands
  <2> QED BY <2>2 DEF CacheStands, IndexStands
<1>6. ASSUME NEW v \in Workers, work'[v].op = "build" PROVE BuildStands(work[v])'
  BY <1>2, <1>4, <1>6 DEF MatchingRanks, BuildStands
<1>7. Matching!RankedByWhatStood'
  <2>1. \A x \in Texts \ unnoted : t.documents[x] >= t.stood[x]
    BY <1>1 DEF BuildStands, IndexStands
  <2> QED BY <1>1, <2>1 DEF Matching!RankedByWhatStood
<1> QED BY <1>4, <1>5, <1>6, <1>7 DEF MatchingRanks

LEMMA MatchingRanksKeep ==
    ASSUME MatchingShape, MatchingShape', MatchingRanks,
           \A x \in Texts : version[x] <= version'[x] /\ updatedAt[x] <= updatedAt'[x],
           Matching!Next \/ UNCHANGED <<work, clock, matchingOwn>>
    PROVE  MatchingRanks'
<1>1. ASSUME NEW w \in Workers, NEW x \in Texts,
             Matching!EmbedRead(w, x) \/ \E queues \in BOOLEAN : Matching!SaveLoad(w, x, queues)
      PROVE  MatchingRanks'
  <2>1. /\ UNCHANGED <<version, updatedAt, unnoted, cache, ranked>>
        /\ work' = work \/ \E t : ~IsRanking(t) /\ work' = [work EXCEPT ![w] = t]
    BY <1>1 DEF Matching!EmbedRead, Matching!SaveLoad, Matching!Begin, IsRanking
  <2>2. \A v \in Workers : IsRanking(work'[v]) => work'[v] = work[v]
    BY <2>1 DEF MatchingShape
  <2> QED BY <2>1, <2>2, MatchingStays DEF SameRankings, IsRanking
<1>2. ASSUME NEW w \in Workers, Matching!EmbedWrite(w) PROVE MatchingRanks'
  <2>1. /\ UNCHANGED <<version, updatedAt, unnoted, cache, ranked>>
        /\ work' = [work EXCEPT ![w] = Matching!Idle]
    BY <1>2 DEF Matching!EmbedWrite, Matching!End
  <2>2. \A v \in Workers : IsRanking(work'[v]) => work'[v] = work[v]
    BY <2>1 DEF MatchingShape, Matching!Idle, IsRanking
  <2> QED BY <2>1, <2>2, MatchingStays DEF SameRankings, IsRanking
<1>3. CASE Matching!Tick \/ Matching!Backfill \/ UNCHANGED <<work, clock, matchingOwn>>
  <2>1. UNCHANGED <<version, updatedAt, unnoted, cache, ranked, work>>
    BY <1>3 DEF Matching!Tick, Matching!Backfill, matchingOwn
  <2> QED BY <2>1, MatchingStays DEF SameRankings
<1>4. CASE Matching!Restart
  <2>1. /\ UNCHANGED <<version, updatedAt, unnoted, ranked>> /\ cache' = NoRow
        /\ \A v \in Workers : work'[v].op = "idle"
    BY <1>4 DEF Matching!Restart, Matching!Idle
  <2> QED BY <2>1, MatchingStays DEF SameRankings, IsRanking
<1> QED BY <1>1, <1>2, <1>3, <1>4, MatchingSaved, MatchingAsked, MatchingLooked, MatchingBuilt
        DEF Matching!Next

\* A task that read what the text said follows it still while the text stays.
LEMMA FollowingStays ==
    ASSUME NEW x \in Texts, Following(x), version'[x] = version[x], embedded'[x] = embedded[x],
           x \in queued => x \in queued',
           \A w \in Workers : IsEmbed(work[w]) => work'[w] = work[w]
    PROVE  Following(x)'
BY DEF Following

LEMMA VectorsSaved ==
    ASSUME MatchingShape, MatchingShape', MatchingVectors, NEW w \in Workers, Matching!SaveCommit(w),
           \A x \in Texts : version[x] <= version'[x]
    PROVE  MatchingVectors'
<1> DEFINE t == work[w]
<1>1. /\ t.op = "save" /\ t.of \in Texts /\ work' = [work EXCEPT ![w] = Matching!Idle]
      /\ version' = [version EXCEPT ![t.of] = @ + 1]
      /\ queued' = IF t.queues THEN queued \cup {t.of} ELSE queued
      /\ behind' = IF t.queues THEN behind \ {t.of} ELSE behind \cup {t.of}
      /\ embedded' = embedded
  BY DEF Matching!SaveCommit, Matching!End, MatchingShape, IsSave, SaveStands
<1>2. /\ \A v \in Workers : IsEmbed(work[v]) => work'[v] = work[v]
      /\ \A v \in Workers : IsEmbed(work'[v]) => work'[v] = work[v]
  BY <1>1 DEF Matching!Idle, MatchingShape, IsEmbed
<1>3. \A x \in Texts : version[x] \in Nat /\ version'[x] \in Nat
  BY DEF MatchingShape
<1>4. \A x \in Texts : embedded'[x] # NoRow => embedded'[x] <= version'[x]
  BY <1>1, <1>3 DEF MatchingVectors
<1>5. ASSUME NEW v \in Workers, IsEmbed(work'[v]) PROVE EmbedStands(work[v])'
  <2>1. work'[v] = work[v] /\ EmbedStands(work[v])
    BY <1>2, <1>5 DEF MatchingVectors
  <2>2. work[v].read <= version'[work[v].of]
    BY <1>3, <2>1 DEF EmbedStands
  <2> QED BY <2>1, <2>2 DEF EmbedStands
<1>6. ASSUME NEW x \in Texts \ behind', version'[x] > 0 PROVE Following(x)'
  <2>1. CASE x = t.of
    BY <1>1, <1>6, <2>1 DEF Following
  <2>2. CASE x # t.of
    <3>1. /\ version'[x] = version[x] /\ x \notin behind
          /\ x \in queued => x \in queued'
      BY <1>1, <1>6, <2>2 DEF MatchingShape
    <3>2. Following(x)
      BY <1>6, <3>1 DEF MatchingVectors
    <3> QED BY <1>1, <1>2, <3>1, <3>2, FollowingStays
  <2> QED BY <2>1, <2>2
<1> QED BY <1>1, <1>4, <1>5, <1>6 DEF MatchingVectors

LEMMA VectorsRead ==
    ASSUME MatchingShape, MatchingVectors, NEW w \in Workers, NEW x \in Texts,
           Matching!EmbedRead(w, x)
    PROVE  MatchingVectors'
<1>1. /\ x \in queued /\ queued' = queued \ {x}
      /\ UNCHANGED <<version, embedded, behind>>
  BY DEF Matching!EmbedRead
<1>2. CASE Matching!Unchanged(x)
  <2>1. work' = work /\ embedded[x] = version[x]
    BY <1>2 DEF Matching!EmbedRead, Matching!Unchanged
  <2>2. ASSUME NEW y \in Texts \ behind, version[y] > 0 PROVE Following(y)'
    BY <1>1, <2>1, <2>2 DEF MatchingVectors, Following
  <2> QED BY <1>1, <2>1, <2>2 DEF MatchingVectors, EmbedStands
<1>3. CASE ~Matching!Unchanged(x)
  <2> DEFINE t == [op |-> "embed", of |-> x, read |-> version[x], row |-> embedded[x]]
  <2>1. work[w] = Matching!Idle /\ work' = [work EXCEPT ![w] = t] /\ embedded[x] # version[x]
    BY <1>3 DEF Matching!EmbedRead, Matching!Begin, Matching!Unchanged
  <2>2. /\ work'[w] = t /\ \A v \in Workers : v # w => work'[v] = work[v]
        /\ ~IsEmbed(work[w])
    BY <2>1 DEF MatchingShape, Matching!Idle, IsEmbed
  <2>3. EmbedStands(t)
    <3>1. /\ version[x] \in Nat /\ version[x] <= version[x]
          /\ embedded[x] = NoRow \/ (embedded[x] \in Nat /\ embedded[x] < version[x])
      BY <2>1, TextsAssumption DEF MatchingShape, MatchingVectors
    <3> QED BY <3>1 DEF EmbedStands
  <2>4. ASSUME NEW v \in Workers, IsEmbed(work'[v]) PROVE EmbedStands(work[v])'
    <3>1. CASE v = w
      BY <1>1, <2>2, <2>3, <3>1 DEF EmbedStands
    <3>2. CASE v # w
      BY <1>1, <2>2, <2>4, <3>2 DEF MatchingVectors, EmbedStands
    <3> QED BY <3>1, <3>2
  <2>5. ASSUME NEW y \in Texts \ behind, version[y] > 0 PROVE Following(y)'
    <3>1. CASE y = x
      <4>1. IsEmbed(work'[w]) /\ work'[w].of = y /\ work'[w].read = version'[y]
        BY <1>1, <2>2, <3>1 DEF IsEmbed
      <4> QED BY <4>1 DEF Following
    <3>2. CASE y # x
      <4>1. Following(y)
        BY <2>5 DEF MatchingVectors
      <4>2. \A v \in Workers : IsEmbed(work[v]) => work'[v] = work[v]
        BY <2>2
      <4> QED BY <1>1, <3>2, <4>1, <4>2, FollowingStays
    <3> QED BY <3>1, <3>2
  <2> QED BY <1>1, <2>4, <2>5 DEF MatchingVectors
<1> QED BY <1>2, <1>3

\* A vector is written over the row it was read with; what was read is then newer than that
\* row, so a task that overtook another is the only one that can leave the text behind.
LEMMA VectorsWritten ==
    ASSUME MatchingShape, MatchingVectors, NEW w \in Workers, Matching!EmbedWrite(w)
    PROVE  MatchingVectors'
<1> DEFINE t == work[w]
<1>1. /\ IsEmbed(t)
      /\ embedded' = [embedded EXCEPT ![t.of] =
                         IF t.row = NoRow /\ embedded[t.of] # NoRow THEN embedded[t.of] ELSE t.read]
      /\ behind' = IF embedded[t.of] # t.row THEN behind \cup {t.of} ELSE behind
      /\ work' = [work EXCEPT ![w] = Matching!Idle]
      /\ UNCHANGED <<version, queued>>
  BY DEF Matching!EmbedWrite, Matching!End, IsEmbed
<1>2. EmbedStands(t)
  BY <1>1 DEF MatchingVectors
<1>3. /\ work'[w].op = "idle" /\ \A v \in Workers : v # w => work'[v] = work[v]
  BY <1>1 DEF MatchingShape, Matching!Idle
<1>4. /\ embedded'[t.of] = IF t.row = NoRow /\ embedded[t.of] # NoRow THEN embedded[t.of] ELSE t.read
      /\ \A y \in Texts : y # t.of => embedded'[y] = embedded[y]
      /\ embedded' \in [Texts -> Nat \cup {NoRow}]
  BY <1>1, <1>2 DEF MatchingVectors, EmbedStands
<1>5. \A x \in Texts : version[x] \in Nat
  BY DEF MatchingShape
<1>6. \A x \in Texts : embedded'[x] # NoRow => embedded'[x] <= version'[x]
  BY <1>1, <1>2, <1>4 DEF MatchingVectors, EmbedStands
<1>7. ASSUME NEW v \in Workers, IsEmbed(work'[v]) PROVE EmbedStands(work[v])'
  BY <1>1, <1>3, <1>7 DEF MatchingVectors, EmbedStands, IsEmbed
<1>8. ASSUME NEW x \in Texts \ behind', version'[x] > 0 PROVE Following(x)'
  <2>1. x \notin behind /\ Following(x) /\ version'[x] = version[x]
    BY <1>1, <1>8 DEF MatchingVectors
  <2>2. CASE x # t.of
    <3>1. \A v \in Workers : (IsEmbed(work[v]) /\ work[v].of = x) => work'[v] = work[v]
      BY <1>3, <2>2
    <3> QED BY <1>1, <1>4, <2>1, <2>2, <3>1 DEF Following
  <2>3. CASE x = t.of
    <3>1. embedded[x] = t.row /\ embedded'[x] = t.read
      BY <1>1, <1>4, <1>8, <2>3
    <3>2. t.read <= version[x] /\ t.read \in Nat
      BY <1>2, <2>3 DEF EmbedStands
    <3>3. CASE x \in queued
      BY <1>1, <3>3 DEF Following
    <3>4. CASE embedded[x] = version[x]
      BY <1>2, <1>5, <3>1, <3>2, <3>4, TextsAssumption DEF EmbedStands
    <3>5. ASSUME NEW v \in Workers, IsEmbed(work[v]), work[v].of = x, work[v].read = version[x]
          PROVE  Following(x)'
      <4>1. CASE v = w
        BY <1>1, <3>1, <3>5, <4>1 DEF Following
      <4>2. CASE v # w
        BY <1>1, <1>3, <3>5, <4>2 DEF Following
      <4> QED BY <4>1, <4>2
    <3> QED BY <2>1, <3>3, <3>4, <3>5 DEF Following
  <2> QED BY <2>2, <2>3
<1> QED BY <1>4, <1>6, <1>7, <1>8 DEF MatchingVectors

LEMMA MatchingVectorsKeep ==
    ASSUME MatchingShape, MatchingShape', MatchingVectors,
           \A x \in Texts : version[x] <= version'[x] /\ updatedAt[x] <= updatedAt'[x],
           Matching!Next \/ UNCHANGED <<work, clock, matchingOwn>>
    PROVE  MatchingVectors'
<1>1. CASE /\ UNCHANGED <<version, embedded, behind, queued>>
           /\ \A v \in Workers : IsEmbed(work[v]) \/ IsEmbed(work'[v]) => work'[v] = work[v]
  <2>1. ASSUME NEW v \in Workers, IsEmbed(work'[v]) PROVE EmbedStands(work[v])'
    BY <1>1, <2>1 DEF MatchingVectors, EmbedStands
  <2>2. ASSUME NEW x \in Texts \ behind, version[x] > 0 PROVE Following(x)'
    BY <1>1, <2>2, FollowingStays DEF MatchingVectors
  <2> QED BY <1>1, <2>1, <2>2 DEF MatchingVectors
<1>2. ASSUME NEW w \in Workers,
             \/ Matching!Ask(w) \/ Matching!Look(w) \/ Matching!Build(w)
             \/ \E x \in Texts, queues \in BOOLEAN : Matching!SaveLoad(w, x, queues)
      PROVE  MatchingVectors'
  <2>1. /\ UNCHANGED <<version, embedded, behind, queued>> /\ ~IsEmbed(work[w])
        /\ work' = work \/ \E t : ~IsEmbed(t) /\ work' = [work EXCEPT ![w] = t]
    <3>1. CASE Matching!Ask(w)
      <4> DEFINE t == [op |-> "ask", fingerprint |-> Matching!Fingerprint, stood |-> version]
      <4>1. /\ UNCHANGED <<version, embedded, behind, queued>>
            /\ work[w] = Matching!Idle /\ work' = [work EXCEPT ![w] = t]
        BY <3>1 DEF Matching!Ask, Matching!Begin
      <4>2. ~IsEmbed(t) /\ ~IsEmbed(Matching!Idle)
        BY DEF IsEmbed, Matching!Idle
      <4> QED BY <4>1, <4>2
    <3>2. CASE Matching!Look(w)
      BY <3>2 DEF Matching!Look, Matching!End, Matching!Idle, IsEmbed
    <3>3. CASE Matching!Build(w)
      BY <3>3 DEF Matching!Build, Matching!End, Matching!Idle, IsEmbed
    <3>4. ASSUME NEW x \in Texts, NEW queues \in BOOLEAN, Matching!SaveLoad(w, x, queues)
          PROVE  /\ UNCHANGED <<version, embedded, behind, queued>> /\ ~IsEmbed(work[w])
                 /\ \E t : ~IsEmbed(t) /\ work' = [work EXCEPT ![w] = t]
      <4> DEFINE t == [op |-> "save", of |-> x, began |-> clock, queues |-> queues]
      <4>1. /\ UNCHANGED <<version, embedded, behind, queued>>
            /\ work[w] = Matching!Idle /\ work' = [work EXCEPT ![w] = t]
        BY <3>4 DEF Matching!SaveLoad, Matching!Begin
      <4>2. ~IsEmbed(t) /\ ~IsEmbed(Matching!Idle)
        BY DEF IsEmbed, Matching!Idle
      <4> QED BY <4>1, <4>2
    <3> QED BY <1>2, <3>1, <3>2, <3>3, <3>4
  <2>2. \A v \in Workers : IsEmbed(work[v]) \/ IsEmbed(work'[v]) => work'[v] = work[v]
    BY <2>1 DEF MatchingShape
  <2> QED BY <1>1, <2>1, <2>2
<1>3. CASE Matching!Tick \/ UNCHANGED <<work, clock, matchingOwn>>
  BY <1>1, <1>3 DEF Matching!Tick, matchingOwn
<1>4. CASE Matching!Restart
  <2>1. /\ UNCHANGED <<version, embedded>> /\ queued' = {}
        /\ behind' = behind \cup queued
                     \cup {x \in Texts : \E w \in Workers : work[w].op = "embed" /\ work[w].of = x}
        /\ \A v \in Workers : work'[v].op = "idle"
    BY <1>4 DEF Matching!Restart, Matching!Idle
  <2>2. ASSUME NEW x \in Texts \ behind', version[x] > 0 PROVE Following(x)'
    BY <2>1, <2>2 DEF MatchingVectors, Following, IsEmbed
  <2> QED BY <2>1, <2>2 DEF MatchingVectors, IsEmbed
<1>5. CASE Matching!Backfill
  <2>1. /\ UNCHANGED <<version, queued, work>> /\ behind' = {}
        /\ embedded' = [x \in Texts |->
               IF version[x] = 0 \/ embedded[x] = version[x] THEN embedded[x] ELSE version[x]]
        /\ \A v \in Workers : work[v].op = "idle"
    BY <1>5 DEF Matching!Backfill, Matching!Unchanged, Matching!Idle
  <2>2. /\ embedded' \in [Texts -> Nat \cup {NoRow}]
        /\ \A x \in Texts : embedded'[x] # NoRow => embedded'[x] <= version'[x]
    BY <2>1 DEF MatchingVectors, MatchingShape
  <2>3. \A x \in Texts : version[x] > 0 => Following(x)'
    BY <2>1 DEF Following, MatchingShape
  <2> QED BY <2>1, <2>2, <2>3 DEF MatchingVectors, IsEmbed
<1> QED BY <1>2, <1>3, <1>4, <1>5, VectorsSaved, VectorsRead, VectorsWritten DEF Matching!Next

LEMMA MatchingInit == Matching!Init => MatchingInv
<1> SUFFICES ASSUME Matching!Init PROVE MatchingInv
  OBVIOUS
<1>1. \A w \in DOMAIN work : ~IsSave(work[w]) /\ ~IsEmbed(work[w]) /\ ~IsRanking(work[w])
                              /\ work[w].op # "build"
  BY DEF Matching!Init, Matching!Idle, IsSave, IsEmbed, IsRanking
<1>2. MatchingShape
  BY <1>1, TextsAssumption DEF Matching!Init, MatchingShape
<1>3. MatchingRanks
  BY <1>1, <1>2 DEF Matching!Init, MatchingRanks, CacheStands, Matching!RankedByWhatStood,
     MatchingShape
<1>4. MatchingVectors
  BY <1>1, <1>2 DEF Matching!Init, MatchingVectors, MatchingShape
<1> QED BY <1>2, <1>3, <1>4 DEF MatchingInv

LEMMA MatchingNext ==
    ASSUME MatchingInv, Matching!Next \/ UNCHANGED <<work, clock, matchingOwn>>
    PROVE  MatchingInv'
BY MatchingShapeKeeps, MatchingRanksKeep, MatchingVectorsKeep DEF MatchingInv

\* On the desk, while it is the part that runs.
LEMMA MatchingRuns ==
    /\ Init /\ part = "matching" => Matching!Init
    /\ [Next]_vars /\ part = "matching"
          => part' = "matching" /\ (Matching!Next \/ UNCHANGED <<work, clock, matchingOwn>>)
<1>1. Init /\ part = "matching" => Matching!Init
  BY DEF Init
<1>2. ASSUME Next, part = "matching" PROVE part' = "matching" /\ Matching!Next
  BY <1>2 DEF Next
<1>3. ASSUME UNCHANGED vars, part = "matching"
      PROVE  part' = "matching" /\ UNCHANGED <<work, clock, matchingOwn>>
  BY <1>3 DEF vars, matchingOwn
<1> QED BY <1>1, <1>2, <1>3

LEMMA MatchingHold == Spec => [](part = "matching" => MatchingInv)
<1>1. Init => (part = "matching" => MatchingInv)
  BY MatchingRuns, MatchingInit
<1>2. (part = "matching" => MatchingInv) /\ [Next]_vars => (part = "matching" => MatchingInv)'
  <2> SUFFICES ASSUME part = "matching" => MatchingInv, [Next]_vars, part' = "matching"
               PROVE  MatchingInv'
    OBVIOUS
  <2>1. part = "matching"
    BY DEF Next, vars
  <2> QED BY <2>1, MatchingRuns, MatchingNext
<1> QED BY <1>1, <1>2, PTL DEF Spec

\* A text has a re-embedding queued or running or a vector of what it says, and no ranking is
\* by an older text than stood when it was asked for, whatever overlaps: but for the
\* texts the ghosts name, written by a route that queues none or with the fingerprint standing
\* still, embedded twice at once, or lost with the process (search/service.py: embed_entity;
\* ml/tfidf.py: get_or_build).
THEOREM RankingsFollowTheText == Spec => []RankedByTheText
<1>1. (part = "matching" => MatchingInv) => RankedByTheText
  <2> SUFFICES ASSUME MatchingInv PROVE Matching!VectorFollowsText /\ Matching!RankedByWhatStood
    BY DEF RankedByTheText
  <2>1. Matching!VectorFollowsText
    BY DEF MatchingInv, MatchingVectors, Following, Matching!VectorFollowsText, IsEmbed
  <2> QED BY <2>1 DEF MatchingInv, MatchingRanks
<1> QED BY <1>1, MatchingHold, PTL

-----------------------------------------------------------------------------
(* What the sources say, joined into works *)

\* Of some numbers one is the least.
LEMMA LeastOfNumbers ==
    ASSUME NEW S, S \subseteq Nat, S # {}
    PROVE  \E n \in S : \A m \in S : n <= m
<1>1. PICK n \in S : \A m \in S : ~(<<m, n>> \in OpToRel(<, Nat))
  BY NatLessThanWellFounded, WFMin
<1>2. \A m \in S : ~(m < n)
  BY <1>1 DEF OpToRel
<1> QED BY <1>2

\* Every record is in one work; those with a DOI are in the work it was noted for, and a DOI
\* is noted only for a work that has a record with it; no part of a work hangs loose.
MergeShape ==
    /\ works \in Seq(Merge!Record)
    /\ groups \in Seq(SUBSET (1 .. Len(works)))
    /\ DOMAIN byDoi = SourceDois
    /\ \A g \in 1 .. Len(groups) : groups[g] # {}

InOneWork ==
    /\ \A i \in 1 .. Len(works) : \E g \in 1 .. Len(groups) : i \in groups[g]
    /\ \A g, h \in 1 .. Len(groups) : groups[g] \cap groups[h] # {} => g = h

DoisNoted ==
    /\ \A d \in SourceDois : byDoi[d] # NoRow =>
          /\ byDoi[d] \in 1 .. Len(groups)
          /\ \E i \in groups[byDoi[d]] : works[i].doi = d
    /\ \A g \in 1 .. Len(groups) : \A i \in groups[g] :
          works[i].doi # NoRow => byDoi[works[i].doi] = g

Connected ==
    \A g \in 1 .. Len(groups) : \A P \in SUBSET groups[g] :
        (P # {} /\ P # groups[g]) =>
            \E i \in P, j \in groups[g] \ P : Merge!SameWork(i, j)

LEMMA SameWorkSymmetric ==
    ASSUME NEW i, NEW j, Merge!SameWork(i, j) PROVE Merge!SameWork(j, i)
<1>1. CASE works[i].doi # NoRow /\ works[i].doi = works[j].doi
  BY <1>1 DEF Merge!SameWork
<1>2. CASE Merge!SameTitle(works[i], works[j])
  <2>1. /\ works[j].title \cap works[i].title = works[i].title \cap works[j].title
    OBVIOUS
  <2> QED BY <1>2, <2>1 DEF Merge!SameWork, Merge!SameTitle, Merge!Differ, Merge!Alike,
         Merge!SubstitutesAWord
<1> QED BY <1>1, <1>2 DEF Merge!SameWork

\* The same of the next state.
LEMMA SameWorkAgainSymmetric ==
    ASSUME NEW i, NEW j, Merge!SameWork(i, j)' PROVE Merge!SameWork(j, i)'
<1>1. CASE works'[i].doi # NoRow /\ works'[i].doi = works'[j].doi
  BY <1>1 DEF Merge!SameWork
<1>2. CASE Merge!SameTitle(works[i], works[j])'
  <2>1. works'[j].title \cap works'[i].title = works'[i].title \cap works'[j].title
    OBVIOUS
  <2> QED BY <1>2, <2>1 DEF Merge!SameWork, Merge!SameTitle, Merge!Differ, Merge!Alike,
         Merge!SubstitutesAWord
<1> QED BY <1>1, <1>2 DEF Merge!SameWork

\* The group a record goes to holds one it matches; a DOI that was noted decides.
LEMMA GroupFound ==
    ASSUME MergeShape, DoisNoted, NEW r \in Merge!Record, Merge!FindGroup(r) # NoRow
    PROVE  LET g == Merge!FindGroup(r) IN
           /\ g \in 1 .. Len(groups)
           /\ \E j \in groups[g] : \/ r.doi # NoRow /\ r.doi = works[j].doi
                                   \/ Merge!SameTitle(r, works[j])
           /\ (r.doi # NoRow /\ byDoi[r.doi] # NoRow) => g = byDoi[r.doi]
<1> DEFINE matching == {g \in DOMAIN groups : \E i \in groups[g] : Merge!SameTitle(r, works[i])}
<1>0. DOMAIN groups = 1 .. Len(groups)
  BY DEF MergeShape
<1>1. CASE r.doi # NoRow /\ byDoi[r.doi] # NoRow
  <2>1. Merge!FindGroup(r) = byDoi[r.doi] /\ r.doi \in SourceDois
    BY <1>1 DEF Merge!FindGroup, Merge!Record
  <2> QED BY <1>1, <2>1 DEF DoisNoted
<1>2. CASE ~(r.doi # NoRow /\ byDoi[r.doi] # NoRow)
  <2>1. /\ matching # {}
        /\ Merge!FindGroup(r) = CHOOSE g \in matching : \A h \in matching : g <= h
    BY <1>2 DEF Merge!FindGroup
  <2>2. matching \subseteq Nat
    BY <1>0
  <2>3. \E g \in matching : \A h \in matching : g <= h
    BY <2>1, <2>2, LeastOfNumbers
  <2>4. Merge!FindGroup(r) \in matching
    <3> HIDE DEF matching
    <3> QED BY <2>1, <2>3
  <2> QED BY <1>0, <1>2, <2>4
<1> QED BY <1>1, <1>2

\* What one turn of group_works does: the record is put to the works there are, or to a new
\* one, and its DOI is noted unless it was.
Joins(r, n, index) ==
    /\ n = Len(works) + 1 /\ Len(works') = n /\ works' \in Seq(Merge!Record)
    /\ works'[n] = r /\ \A i \in 1 .. Len(works) : works'[i] = works[i]
    /\ index \in Nat /\ 1 .. Len(groups') = (1 .. Len(groups)) \cup {index}
    /\ groups' \in Seq(SUBSET (1 .. n))
    /\ groups'[index] = (IF index \in 1 .. Len(groups) THEN groups[index] ELSE {}) \cup {n}
    /\ \A g \in 1 .. Len(groups) : g # index => groups'[g] = groups[g]
    /\ index \in 1 .. Len(groups) =>
          \E j \in groups[index] : \/ r.doi # NoRow /\ r.doi = works[j].doi
                                   \/ Merge!SameTitle(r, works[j])
    /\ DOMAIN byDoi' = SourceDois
    /\ r.doi # NoRow => byDoi'[r.doi] = index
    /\ \A d \in SourceDois : d # r.doi => byDoi'[d] = byDoi[d]
    /\ (r.doi # NoRow /\ byDoi[r.doi] # NoRow) => index = byDoi[r.doi]

LEMMA JoinJoins ==
    ASSUME MergeShape, DoisNoted, NEW r \in Merge!Record, Merge!Join(r)
    PROVE  \E index : Joins(r, Len(works) + 1, index)
<1> DEFINE n == Len(works) + 1
           found == Merge!FindGroup(r)
           index == IF found = NoRow THEN Len(groups) + 1 ELSE found
<1>1. /\ works' = Append(works, r)
      /\ groups' = IF found = NoRow THEN Append(groups, {n})
                   ELSE [groups EXCEPT ![index] = @ \cup {n}]
      /\ byDoi' = IF r.doi # NoRow /\ byDoi[r.doi] = NoRow
                  THEN [byDoi EXCEPT ![r.doi] = index] ELSE byDoi
  BY DEF Merge!Join, Merge!Noted
<1>2. /\ Len(works) \in Nat /\ Len(groups) \in Nat
      /\ Len(works') = n /\ works' \in Seq(Merge!Record)
      /\ works'[n] = r /\ \A i \in 1 .. Len(works) : works'[i] = works[i]
  BY <1>1 DEF MergeShape
<1>3. r.doi # NoRow => r.doi \in SourceDois
  BY DEF Merge!Record
<1>4. CASE found = NoRow
  <2>1. index = Len(groups) + 1 /\ groups' = Append(groups, {n})
    BY <1>1, <1>4
  <2>2. groups \in Seq(SUBSET (1 .. n)) /\ {n} \in SUBSET (1 .. n)
    <3>1. \A g \in 1 .. Len(groups) : groups[g] \in SUBSET (1 .. n)
      BY <1>2 DEF MergeShape
    <3> QED BY <1>2, <3>1 DEF MergeShape
  <2>3. /\ groups' \in Seq(SUBSET (1 .. n)) /\ Len(groups') = Len(groups) + 1
        /\ groups'[Len(groups) + 1] = {n}
        /\ \A g \in 1 .. Len(groups) : groups'[g] = groups[g]
    BY <1>2, <2>1, <2>2
  <2>4. r.doi # NoRow => byDoi[r.doi] = NoRow
    BY <1>3, <1>4, TextsAssumption DEF Merge!FindGroup, DoisNoted
  <2>5. /\ DOMAIN byDoi' = SourceDois
        /\ r.doi # NoRow => byDoi'[r.doi] = index
        /\ \A d \in SourceDois : d # r.doi => byDoi'[d] = byDoi[d]
    BY <1>1, <1>3, <2>4 DEF MergeShape
  <2> QED BY <1>2, <2>1, <2>3, <2>4, <2>5 DEF Joins
<1>5. CASE found # NoRow
  <2>1. /\ index = found /\ groups' = [groups EXCEPT ![index] = @ \cup {n}]
        /\ index \in 1 .. Len(groups)
        /\ \E j \in groups[index] : \/ r.doi # NoRow /\ r.doi = works[j].doi
                                    \/ Merge!SameTitle(r, works[j])
        /\ (r.doi # NoRow /\ byDoi[r.doi] # NoRow) => index = byDoi[r.doi]
    BY <1>1, <1>5, GroupFound
  <2>2. \A g \in 1 .. Len(groups) : groups[g] \in SUBSET (1 .. n)
    BY <1>2 DEF MergeShape
  <2>3. /\ groups' \in Seq(SUBSET (1 .. n)) /\ Len(groups') = Len(groups)
        /\ groups'[index] = groups[index] \cup {n}
        /\ \A g \in 1 .. Len(groups) : g # index => groups'[g] = groups[g]
    <3>1. groups[index] \cup {n} \in SUBSET (1 .. n)
      BY <1>2, <2>1, <2>2
    <3>2. groups \in Seq(SUBSET (1 .. n))
      BY <1>2, <2>2 DEF MergeShape
    <3> HIDE DEF index, n
    <3> QED BY <2>1, <3>1, <3>2
  <2>4. /\ DOMAIN byDoi' = SourceDois
        /\ r.doi # NoRow => byDoi'[r.doi] = index
        /\ \A d \in SourceDois : d # r.doi => byDoi'[d] = byDoi[d]
    BY <1>1, <1>3, <2>1 DEF MergeShape
  <2>5. index \in Nat /\ 1 .. Len(groups') = (1 .. Len(groups)) \cup {index}
    BY <1>2, <2>1, <2>3
  <2> HIDE DEF index
  <2> QED BY <1>2, <2>1, <2>3, <2>4, <2>5 DEF Joins
<1> QED BY <1>4, <1>5

LEMMA JoinKeeps ==
    ASSUME MergeShape, InOneWork, DoisNoted, Connected,
           NEW r \in Merge!Record, NEW n, NEW index, Joins(r, n, index)
    PROVE  MergeShape' /\ InOneWork' /\ DoisNoted' /\ Connected'
<1>1. Len(works) \in Nat /\ Len(groups) \in Nat /\ n \in Nat /\ n \notin 1 .. Len(works)
      /\ 1 .. n = (1 .. Len(works)) \cup {n} /\ index \in 1 .. Len(groups')
  BY DEF Joins, MergeShape
<1>2. \A g \in 1 .. Len(groups) : groups[g] \subseteq 1 .. Len(works) /\ groups[g] # {}
  BY DEF MergeShape
<1>3. \A g \in 1 .. Len(groups') : g # index => g \in 1 .. Len(groups) /\ groups'[g] = groups[g]
  BY DEF Joins
<1>4. MergeShape'
  BY <1>1, <1>2, <1>3 DEF Joins, MergeShape
<1>5. InOneWork'
  <2>1. ASSUME NEW i \in 1 .. n PROVE \E g \in 1 .. Len(groups') : i \in groups'[g]
    <3>1. CASE i = n
      BY <1>1, <3>1 DEF Joins
    <3>2. CASE i \in 1 .. Len(works)
      <4>1. PICK g \in 1 .. Len(groups) : i \in groups[g]
        BY <3>2 DEF InOneWork
      <4>2. g \in 1 .. Len(groups') /\ i \in groups'[g]
        BY <4>1 DEF Joins
      <4> QED BY <4>2
    <3> QED BY <1>1, <3>1, <3>2
  <2>2. ASSUME NEW g \in 1 .. Len(groups'), NEW h \in 1 .. Len(groups'),
               groups'[g] \cap groups'[h] # {}, g # h
        PROVE  FALSE
    <3>1. CASE g # index /\ h # index
      BY <1>3, <2>2, <3>1 DEF InOneWork
    <3>2. CASE g = index \/ h = index
      <4>1. PICK k \in 1 .. Len(groups) : /\ k # index /\ {g, h} = {k, index}
                                          /\ groups'[k] = groups[k]
        BY <1>3, <2>2, <3>2
      <4>2. groups[k] \cap groups'[index] # {}
        BY <2>2, <4>1
      <4>3. n \notin groups[k]
        BY <1>1, <1>2, <4>1
      <4>4. index \in 1 .. Len(groups) /\ groups[k] \cap groups[index] # {}
        BY <4>2, <4>3 DEF Joins
      <4> QED BY <4>1, <4>4 DEF InOneWork
    <3> QED BY <3>1, <3>2
  <2> QED BY <2>1, <2>2 DEF InOneWork, Joins
<1>6. DoisNoted'
  <2>1. ASSUME NEW d \in SourceDois, byDoi'[d] # NoRow
        PROVE  /\ byDoi'[d] \in 1 .. Len(groups')
               /\ \E i \in groups'[byDoi'[d]] : works'[i].doi = d
    <3>1. CASE d = r.doi
      <4>1. r.doi # NoRow
        BY <3>1, SourcesAssumption
      <4> QED BY <1>1, <3>1, <4>1 DEF Joins
    <3>2. CASE d # r.doi
      <4>1. /\ byDoi'[d] = byDoi[d] /\ byDoi[d] \in 1 .. Len(groups)
            /\ \E i \in groups[byDoi[d]] : works[i].doi = d
        BY <2>1, <3>2 DEF Joins, DoisNoted
      <4>2. groups[byDoi[d]] \subseteq groups'[byDoi[d]]
        BY <4>1 DEF Joins
      <4> QED BY <1>1, <1>2, <4>1, <4>2 DEF Joins
    <3> QED BY <3>1, <3>2
  <2>2. ASSUME NEW g \in 1 .. Len(groups'), NEW i \in groups'[g], works'[i].doi # NoRow
        PROVE  byDoi'[works'[i].doi] = g
    <3>1. CASE i = n
      <4>1. g = index
        BY <1>1, <1>2, <1>3, <2>2, <3>1
      <4> QED BY <2>2, <3>1, <4>1 DEF Joins
    <3>2. CASE i # n
      <4>1. g \in 1 .. Len(groups) /\ i \in groups[g] /\ i \in 1 .. Len(works)
        BY <1>2, <1>3, <2>2, <3>2 DEF Joins
      <4>2. works'[i] = works[i] /\ byDoi[works[i].doi] = g /\ works[i].doi \in SourceDois
        <5>1. works'[i] = works[i] /\ works[i].doi # NoRow
          BY <2>2, <4>1 DEF Joins
        <5>2. works[i] \in Merge!Record
          BY <4>1 DEF MergeShape
        <5> QED BY <4>1, <5>1, <5>2 DEF DoisNoted, Merge!Record
      <4>3. CASE works[i].doi # r.doi
        BY <4>2, <4>3 DEF Joins
      <4>4. CASE works[i].doi = r.doi
        <5>1. r.doi # NoRow /\ byDoi[r.doi] = g /\ byDoi[r.doi] # NoRow
          <6>1. r.doi # NoRow /\ byDoi[r.doi] = g /\ g \in Nat
            BY <2>2, <4>1, <4>2, <4>4
          <6> QED BY <6>1, TextsAssumption DEF Joins
        <5>2. index = g /\ byDoi'[r.doi] = index
          BY <5>1 DEF Joins
        <5> QED BY <4>2, <4>4, <5>2
      <4> QED BY <4>3, <4>4
    <3> QED BY <3>1, <3>2
  <2> QED BY <2>1, <2>2 DEF DoisNoted
<1>7. Connected'
  <2>1. ASSUME NEW i \in 1 .. Len(works), NEW j \in 1 .. Len(works), Merge!SameWork(i, j)
        PROVE  Merge!SameWork(i, j)'
    <3>1. works'[i] = works[i] /\ works'[j] = works[j]
      BY DEF Joins
    <3> QED BY <2>1, <3>1 DEF Merge!SameWork, Merge!SameTitle
  <2>2. ASSUME NEW g \in 1 .. Len(groups'), g # index,
               NEW P \in SUBSET groups'[g], P # {}, P # groups'[g]
        PROVE  \E i \in P, j \in groups'[g] \ P : Merge!SameWork(i, j)'
    <3>1. g \in 1 .. Len(groups) /\ groups'[g] = groups[g]
      BY <1>3, <2>2
    <3>2. PICK i \in P, j \in groups[g] \ P : Merge!SameWork(i, j)
      BY <2>2, <3>1 DEF Connected
    <3>3. i \in 1 .. Len(works) /\ j \in 1 .. Len(works)
      BY <1>2, <2>2, <3>1, <3>2
    <3> QED BY <2>1, <3>1, <3>2, <3>3
  <2>3. ASSUME NEW P \in SUBSET groups'[index], P # {}, P # groups'[index]
        PROVE  \E i \in P, j \in groups'[index] \ P : Merge!SameWork(i, j)'
    <3>1. index \in 1 .. Len(groups) /\ groups'[index] = groups[index] \cup {n}
      BY <2>3 DEF Joins
    <3>2. PICK j \in groups[index] : \/ r.doi # NoRow /\ r.doi = works[j].doi
                                     \/ Merge!SameTitle(r, works[j])
      BY <3>1 DEF Joins
    <3>3. n \notin groups[index] /\ groups[index] \subseteq 1 .. Len(works)
      BY <1>1, <1>2, <3>1
    <3>4. Merge!SameWork(n, j)' /\ Merge!SameWork(j, n)'
      <4>1. works'[n] = r /\ works'[j] = works[j]
        BY <3>2, <3>3 DEF Joins
      <4>2. Merge!SameWork(n, j)'
        BY <3>2, <4>1 DEF Merge!SameWork, Merge!SameTitle
      <4> QED BY <4>2, SameWorkAgainSymmetric
    <3> DEFINE Q == P \ {n}
    <3>5. CASE Q = {} \/ Q = groups[index]
      BY <2>3, <3>1, <3>2, <3>3, <3>4, <3>5
    <3>6. CASE Q # {} /\ Q # groups[index]
      <4>1. Q \in SUBSET groups[index]
        BY <2>3, <3>1
      <4>2. PICK i \in Q, k \in groups[index] \ Q : Merge!SameWork(i, k)
        BY <3>1, <3>6, <4>1 DEF Connected
      <4>3. Merge!SameWork(i, k)' /\ i \in P /\ k \in groups'[index] \ P
        BY <2>1, <3>1, <3>3, <4>1, <4>2
      <4> QED BY <4>3
    <3> QED BY <3>5, <3>6
  <2> QED BY <2>2, <2>3 DEF Connected
<1> QED BY <1>4, <1>5, <1>6, <1>7

\* The register and what is ticked: nothing ticked, nothing to come to; and whatever was come
\* to is known, or can never be entered.
MergeInv ==
    /\ MergeShape /\ InOneWork /\ DoisNoted /\ Connected
    /\ ticked = {} => todo = {}
    /\ Merge!ImportedOnce

LEMMA MergeInit == ASSUME Merge!Init PROVE MergeInv
<1>1. works = <<>> /\ groups = <<>> /\ byDoi = [d \in SourceDois |-> NoRow] /\ ticked = {}
      /\ todo = {}
  BY DEF Merge!Init
<1>2. MergeShape /\ InOneWork /\ DoisNoted /\ Connected
  BY <1>1 DEF MergeShape, InOneWork, DoisNoted, Connected
<1> QED BY <1>1, <1>2 DEF MergeInv, Merge!ImportedOnce

\* What is picked of a field is what one of the records says.
LEMMA PickIsSaid ==
    ASSUME MergeShape, NEW g \in 1 .. Len(groups), NEW f
    PROVE  \/ /\ Merge!Pick(groups[g], f) = NoRow
              /\ \A i \in groups[g] : works[i][f] = NoRow
           \/ \E i \in groups[g] : works[i][f] # NoRow /\ Merge!Pick(groups[g], f) = works[i][f]
<1>2. \A i \in groups[g] : i \in Nat /\ works[i].source \in Answering
  <2>1. groups[g] \in SUBSET (1 .. Len(works))
    BY DEF MergeShape
  <2>2. \A i \in groups[g] : i \in 1 .. Len(works) /\ works[i] \in Merge!Record
    BY <2>1 DEF MergeShape
  <2> QED BY <2>2 DEF Merge!Record
<1> DEFINE having == {i \in groups[g] : works[i][f] # NoRow}
           R(i) == Merge!Rank(Merge!METADATA_ORDER, works[i].source)
           Before(i, j) == R(i) < R(j) \/ (R(i) = R(j) /\ i <= j)
<1>5. \A i \in having : R(i) \in Nat
  <2> SUFFICES ASSUME NEW i \in having PROVE R(i) \in Nat
    OBVIOUS
  <2>1. works[i].source \in {"orcid", "openalex", "crossref", "semantic_scholar"}
    BY <1>2, SourcesAssumption
  <2>2. \E k \in DOMAIN Merge!METADATA_ORDER : Merge!METADATA_ORDER[k] = works[i].source
    BY <2>1 DEF Merge!METADATA_ORDER
  <2>3. R(i) \in DOMAIN Merge!METADATA_ORDER
    BY <2>2 DEF Merge!Rank
  <2> QED BY <2>3 DEF Merge!METADATA_ORDER
<1>6. CASE having # {}
  <2>0. having \subseteq Nat
    BY <1>2
  <2>1. PICK i0 \in having : \A j \in having : R(i0) <= R(j)
    <3> DEFINE ranks == {R(i) : i \in having}
    <3>1. ranks \subseteq Nat /\ ranks # {}
      BY <1>5, <1>6
    <3>2. PICK k \in ranks : \A l \in ranks : k <= l
      <4> HIDE DEF ranks
      <4> QED BY <3>1, LeastOfNumbers
    <3> HIDE DEF R, having
    <3> QED BY <3>2
  <2> DEFINE best == {i \in having : R(i) = R(i0)}
  <2>2. best \subseteq Nat /\ best # {}
    BY <2>0
  <2>3. PICK i \in best : \A j \in best : i <= j
    <3> HIDE DEF best
    <3> QED BY <2>2, LeastOfNumbers
  <2>4. ASSUME NEW j \in having PROVE Before(i, j)
    <3> HIDE DEF R, having
    <3>1. R(i) = R(i0) /\ R(i0) \in Nat /\ R(j) \in Nat /\ R(i0) <= R(j)
      BY <1>5, <2>1, <2>3, <2>4
    <3>2. R(j) = R(i0) => j \in best
      BY <2>4
    <3> QED BY <2>3, <3>1, <3>2
  <2> DEFINE c == CHOOSE k \in having : \A j \in having : Before(k, j)
  <2>5. c \in having
    <3> HIDE DEF having, Before
    <3> QED BY <2>3, <2>4
  <2>6. Merge!Pick(groups[g], f) = works[c][f]
    BY <1>6 DEF Merge!Pick
  <2> HIDE DEF c
  <2> QED BY <2>5, <2>6
<1>7. CASE having = {}
  BY <1>7 DEF Merge!Pick
<1> QED BY <1>6, <1>7

\* What is folded of a group is a merged work.
LEMMA FoldIsMerged ==
    ASSUME MergeShape PROVE Merge!MergeWorks \subseteq Merge!Merged
<1> SUFFICES ASSUME NEW m \in Merge!MergeWorks PROVE m \in Merge!Merged
  OBVIOUS
<1>1. PICK g \in 1 .. Len(groups) : m = Merge!Fold(groups[g])
  <2>1. DOMAIN groups = 1 .. Len(groups)
    BY DEF MergeShape
  <2> QED BY <2>1 DEF Merge!MergeWorks
<1>2. groups[g] # {} /\ \A i \in groups[g] : works[i] \in Merge!Record
  <2>1. groups[g] \in SUBSET (1 .. Len(works))
    BY <1>1 DEF MergeShape
  <2> QED BY <1>1, <2>1 DEF MergeShape
<1>3. \A i \in groups[g] : /\ works[i]["doi"] \in SourceDois \cup {NoRow}
                           /\ works[i]["title"] \in Headings
                           /\ works[i]["year"] \in Years \cup {NoRow}
  BY <1>2 DEF Merge!Record
<1>4. Merge!Pick(groups[g], "doi") \in SourceDois \cup {NoRow}
  BY <1>3, PickIsSaid
<1>5. Merge!Pick(groups[g], "year") \in Years \cup {NoRow}
  BY <1>3, PickIsSaid
<1>6. Merge!Pick(groups[g], "title") \in Headings
  <2>1. PICK i \in groups[g] : works[i]["title"] # NoRow
    BY <1>2, <1>3, SourcesAssumption
  <2>2. Merge!Pick(groups[g], "title") # NoRow
    BY <2>1, <1>3, PickIsSaid
  <2> QED BY <1>3, <2>2, PickIsSaid
<1> QED BY <1>1, <1>4, <1>5, <1>6 DEF Merge!Fold, Merge!Merged

\* A work is the one it is.
LEMMA KnownToItself ==
    ASSUME MergeShape, NEW m \in Merge!MergeWorks PROVE Merge!Known(m, m)
BY FoldIsMerged, SourcesAssumption DEF Merge!Merged, Merge!Known, Merge!Differ, Merge!Alike

LEMMA MergeNext == ASSUME MergeInv, Merge!Next \/ UNCHANGED mergeOwn PROVE MergeInv'
<1> USE DEF MergeInv
<1>1. ASSUME UNCHANGED <<works, groups, byDoi>>
      PROVE  /\ MergeShape' /\ InOneWork' /\ DoisNoted' /\ Connected'
             /\ Merge!MergeWorks' = Merge!MergeWorks
  <2>1. works' = works /\ groups' = groups /\ byDoi' = byDoi
    BY <1>1
  <2>2. MergeShape' /\ InOneWork' /\ DoisNoted'
    BY <2>1 DEF MergeShape, InOneWork, DoisNoted
  <2>3. \A i, j : Merge!SameWork(i, j) <=> Merge!SameWork(i, j)'
    BY <2>1 DEF Merge!SameWork, Merge!SameTitle
  <2>4. Connected'
    BY <2>1, <2>3 DEF Connected
  <2>5. \A g : Merge!Fold(groups[g])' = Merge!Fold(groups[g])
    BY <2>1 DEF Merge!Fold, Merge!Pick
  <2>6. Merge!MergeWorks' = Merge!MergeWorks
    BY <2>1, <2>5 DEF Merge!MergeWorks
  <2> QED BY <2>2, <2>4, <2>6
<1>2. ASSUME NEW m, entries \subseteq entries', ~Merge!Importable(m)
      PROVE  ~Merge!Importable(m)'
  BY <1>2 DEF Merge!Importable, Merge!Known
<1>3. ASSUME NEW r \in Merge!Record, Merge!Gather(r) PROVE MergeInv'
  <2>1. /\ Merge!Join(r) /\ todo = {} /\ ticked = {} /\ UNCHANGED <<ticked, todo>>
    BY <1>3 DEF Merge!Gather
  <2>2. MergeShape' /\ InOneWork' /\ DoisNoted' /\ Connected'
    BY <2>1, JoinJoins, JoinKeeps
  <2> QED BY <2>1, <2>2 DEF Merge!ImportedOnce
<1>4. ASSUME NEW keys, Merge!Apply(keys) PROVE MergeInv'
  <2>1. /\ UNCHANGED <<works, groups, byDoi>> /\ ticked' = keys /\ keys # {}
        /\ todo' = {m \in Merge!MergeWorks : Merge!Key(m) \in keys}
    BY <1>4 DEF Merge!Apply
  <2>2. Merge!ImportedOnce'
    BY <1>1, <2>1 DEF Merge!ImportedOnce, Merge!Key
  <2> QED BY <1>1, <2>1, <2>2
<1>5. ASSUME NEW w \in Merge!MergeWorks, Merge!Enter(w) PROVE MergeInv'
  <2>1. /\ UNCHANGED <<works, groups, byDoi, ticked>> /\ todo' = todo \ {w}
        /\ entries' = IF Merge!Importable(w) THEN entries \cup {w} ELSE entries
    BY <1>5 DEF Merge!Enter
  <2>2. ~Merge!Importable(w)'
    <3>1. CASE Merge!Importable(w)
      <4>1. Merge!Known(w, w)' /\ w \in entries'
        BY <2>1, <3>1, KnownToItself DEF Merge!Known
      <4> QED BY <4>1 DEF Merge!Importable
    <3>2. CASE ~Merge!Importable(w)
      BY <1>2, <2>1, <3>2
    <3> QED BY <3>1, <3>2
  <2>3. ASSUME NEW m \in Merge!MergeWorks, Merge!Key(m)' \in ticked', m \notin todo'
        PROVE  ~Merge!Importable(m)'
    <3>1. CASE m = w
      BY <2>2, <3>1
    <3>2. CASE m # w
      <4>1. Merge!Key(m) \in ticked /\ m \notin todo /\ entries \subseteq entries'
        BY <2>1, <2>3, <3>2 DEF Merge!Key
      <4>2. ~Merge!Importable(m)
        BY <2>3, <4>1 DEF Merge!ImportedOnce
      <4> QED BY <1>2, <4>1, <4>2
    <3> QED BY <3>1, <3>2
  <2>4. Merge!ImportedOnce'
    BY <1>1, <2>1, <2>3 DEF Merge!ImportedOnce
  <2> QED BY <1>1, <2>1, <2>4
<1>6. ASSUME NEW w, Merge!EnteredElsewhere(w) PROVE MergeInv'
  <2>1. /\ UNCHANGED <<works, groups, byDoi, ticked, todo>> /\ entries \subseteq entries'
    BY <1>6 DEF Merge!EnteredElsewhere
  <2>2. ASSUME NEW m \in Merge!MergeWorks, Merge!Key(m)' \in ticked', m \notin todo'
        PROVE  ~Merge!Importable(m)'
    <3>1. ~Merge!Importable(m)
      BY <2>1, <2>2 DEF Merge!ImportedOnce, Merge!Key
    <3> QED BY <1>2, <2>1, <3>1
  <2>3. Merge!ImportedOnce'
    BY <1>1, <2>1, <2>2 DEF Merge!ImportedOnce
  <2> QED BY <1>1, <2>1, <2>3
<1>7. ASSUME UNCHANGED mergeOwn PROVE MergeInv'
  <2>1. UNCHANGED <<works, groups, byDoi, entries, ticked, todo>>
    BY <1>7 DEF mergeOwn
  <2>2. Merge!ImportedOnce'
    BY <1>1, <2>1 DEF Merge!ImportedOnce, Merge!Key, Merge!Importable, Merge!Known
  <2> QED BY <1>1, <2>1, <2>2
<1> QED BY <1>3, <1>4, <1>5, <1>6, <1>7 DEF Merge!Next

\* Each record in one work, one DOI in one work, and every work hangs together.
LEMMA MergedAsWorks == ASSUME MergeInv PROVE Merge!GroupsAreWorks
<1>1. DOMAIN works = 1 .. Len(works) /\ DOMAIN groups = 1 .. Len(groups)
  BY DEF MergeInv, MergeShape
<1>2. \A S : Merge!Cardinality(S) = Cardinality(S)
  BY DEF Merge!Cardinality, Merge!IsFiniteSet, Cardinality, IsFiniteSet
<1>3. ASSUME NEW i \in DOMAIN works
      PROVE  Merge!Cardinality({g \in DOMAIN groups : i \in groups[g]}) = 1
  <2>1. PICK g \in DOMAIN groups : i \in groups[g]
    BY <1>1, <1>3 DEF MergeInv, InOneWork
  <2>2. {h \in DOMAIN groups : i \in groups[h]} = {g}
    BY <1>1, <2>1 DEF MergeInv, InOneWork
  <2> QED BY <1>2, <2>2, FS_Singleton
<1>4. ASSUME NEW g \in DOMAIN groups, NEW h \in DOMAIN groups,
             NEW i \in groups[g], NEW j \in groups[h],
             works[i].doi # NoRow, works[i].doi = works[j].doi
      PROVE  g = h
  BY <1>1, <1>4 DEF MergeInv, DoisNoted
<1>5. ASSUME NEW g \in DOMAIN groups, NEW P \in (SUBSET groups[g]) \ {{}, groups[g]}
      PROVE  \E i \in P, j \in groups[g] \ P : Merge!SameWork(i, j)
  <2>1. g \in 1 .. Len(groups) /\ P \in SUBSET groups[g] /\ P # {} /\ P # groups[g]
    BY <1>1, <1>5
  <2> QED BY <2>1 DEF MergeInv, Connected
<1> QED BY <1>3, <1>4, <1>5 DEF Merge!GroupsAreWorks

\* On the desk, while it is the part that runs.
LEMMA MergeRuns ==
    /\ Init /\ part = "merge" => Merge!Init
    /\ [Next]_vars /\ part = "merge"
          => part' = "merge" /\ (Merge!Next \/ UNCHANGED mergeOwn)
<1>1. Init /\ part = "merge" => Merge!Init
  BY DEF Init
<1>2. ASSUME Next, part = "merge" PROVE part' = "merge" /\ Merge!Next
  BY <1>2 DEF Next
<1>3. ASSUME UNCHANGED vars, part = "merge" PROVE part' = "merge" /\ UNCHANGED mergeOwn
  BY <1>3 DEF vars
<1> QED BY <1>1, <1>2, <1>3

LEMMA MergeHold == Spec => [](part = "merge" => MergeInv)
<1>1. Init => (part = "merge" => MergeInv)
  BY MergeRuns, MergeInit
<1>2. (part = "merge" => MergeInv) /\ [Next]_vars => (part = "merge" => MergeInv)'
  <2> SUFFICES ASSUME part = "merge" => MergeInv, [Next]_vars, part' = "merge"
               PROVE  MergeInv'
    OBVIOUS
  <2>1. part = "merge"
    BY DEF Next, vars
  <2> QED BY <2>1, MergeRuns, MergeNext
<1> QED BY <1>1, <1>2, PTL DEF Spec

\* Whatever the sources say in whatever order, each record read is in one work, one DOI is in
\* one work, and no work is made of parts that nothing connects; and whatever was ticked and
\* come to is in the register, or can never be put there, whoever else enters works meanwhile;
\* with what VerifiedRecordsAreReviewed says of the researcher's record (imports/merge.py:
\* group_works; imports/service.py: apply).
THEOREM ImportsAreWorks == Spec => []ImportedAsWorks
<1>1. /\ (part = "imports" => Imports!VerifiedIsReviewed)
      /\ (part = "merge" => MergeInv)
      => ImportedAsWorks
  BY MergedAsWorks DEF ImportedAsWorks, MergeInv
<1> QED BY <1>1, VerifiedRecordsAreReviewed, MergeHold, PTL

----------------------------------------------------------------------------
(* Types of the desk *)

Told == [status : Requests!DECIDED_STATUSES, note : Notes \cup {NoRow}]
RequestsRest ==
    /\ attached \in [Letters -> SUBSET Files]
    /\ told \in [Letters -> Seq(Told)]
    /\ moves \in [Letters -> 0 .. LetterMoves]
    /\ crossed \subseteq Letters

LEMMA RequestsTypes ==
    /\ Requests!Init => RequestsRest
    /\ RequestsInv /\ RequestsRest => Requests!TypeOK
    /\ RequestsInv /\ RequestsRest /\ [Requests!Next]_<<users, Requests!requestVars>>
          => RequestsRest'
<1>1. Requests!Init => RequestsRest
  BY DeskBoundsAssumption DEF Requests!Init, RequestsRest
<1>2. ASSUME RequestsInv, RequestsRest PROVE Requests!TypeOK
  <2>1. \A q \in Letters : \A i \in DOMAIN told[q] : told[q][i] \in Told
    BY <1>2 DEF RequestsRest
  <2> QED BY <1>2, <2>1 DEF RequestsInv, RequestsShape, RequestsRest, Requests!TypeOK, Told
<1>3. ASSUME RequestsInv, RequestsRest, [Requests!Next]_<<users, Requests!requestVars>>
      PROVE  RequestsRest'
  <2> USE <1>3 DEF RequestsRest
  <2>1. CASE UNCHANGED <<attached, told, moves, crossed>>
    BY <2>1
  <2>2. ASSUME NEW w \in Workers, Requests!MoveCommit(w) PROVE RequestsRest'
    <3>1. work[w] \in Requests!MoveWork
      BY <2>2, RequestWorkShape DEF RequestsInv, Requests!MoveCommit
    <3> DEFINE q == work[w].of
               entry == [status |-> work[w].target, note |-> work[w].note]
    <3>2. q \in Letters /\ (work[w].target \in Requests!DECIDED_STATUSES => entry \in Told)
      BY <3>1 DEF Requests!MoveWork, Told
    <3>3. /\ told' = IF work[w].target \in Requests!DECIDED_STATUSES
                     THEN [told EXCEPT ![q] = Append(@, entry)] ELSE told
          /\ moves[q] < LetterMoves /\ moves' = [moves EXCEPT ![q] = @ + 1]
          /\ crossed' \subseteq crossed \cup {q} /\ attached' = attached
      BY <2>2 DEF Requests!MoveCommit
    <3> HIDE DEF q, entry
    <3>4. told' \in [Letters -> Seq(Told)]
      BY <3>2, <3>3
    <3>5. moves' \in [Letters -> 0 .. LetterMoves]
      BY <3>2, <3>3, DeskBoundsAssumption
    <3> QED BY <3>2, <3>3, <3>4, <3>5
  <2>3. ASSUME NEW w \in Workers, Requests!FileCommit(w) PROVE RequestsRest'
    <3>1. work[w] \in Requests!FileWork
      BY <2>3, RequestWorkShape DEF RequestsInv, Requests!FileCommit
    <3> QED BY <2>3, <3>1 DEF Requests!FileCommit, Requests!FileWork
  <2>4. ASSUME NEW p \in Correspondents, Requests!AccountDeleted(p) PROVE RequestsRest'
    <3>1. PICK G \in SUBSET Letters :
              /\ attached' = [q \in Letters |-> IF q \in G THEN {} ELSE attached[q]]
              /\ told' = [q \in Letters |-> IF q \in G THEN <<>> ELSE told[q]]
              /\ moves' = [q \in Letters |-> IF q \in G THEN LetterMoves ELSE moves[q]]
              /\ crossed' = crossed
      <4> DEFINE G == {q \in Letters : request[q] # NoRow /\ request[q].sender = p}
      <4>1. G \in SUBSET Letters
        OBVIOUS
      <4>2. /\ attached' = [q \in Letters |-> IF q \in G THEN {} ELSE attached[q]]
            /\ told' = [q \in Letters |-> IF q \in G THEN <<>> ELSE told[q]]
            /\ moves' = [q \in Letters |-> IF q \in G THEN LetterMoves ELSE moves[q]]
            /\ crossed' = crossed
        BY <2>4 DEF Requests!AccountDeleted
      <4> HIDE DEF G
      <4> QED BY <4>1, <4>2
    <3> QED BY <3>1, DeskBoundsAssumption
  <2> QED BY <2>1, <2>2, <2>3, <2>4 DEF Requests!Next, Requests!requestVars, Requests!SubmitLoad,
         Requests!SubmitCommit, Requests!MoveLoad, Requests!AttachLoad, Requests!RemoveLoad,
         Requests!Rollback
<1> QED BY <1>1, <1>2, <1>3

BoardRest ==
    /\ text \in [Notices -> 0 .. MaxText]
    /\ documents \in [Notices -> SUBSET Documents]
    /\ written \subseteq Notices /\ crossed \subseteq Notices

LEMMA BoardTypes ==
    /\ Board!Init => BoardRest
    /\ BoardInv /\ BoardRest => Board!TypeOK
    /\ BoardInv /\ BoardRest /\ [Board!Next]_<<users, Board!boardVars>> => BoardRest'
<1>1. Board!Init => BoardRest
  BY DeskBoundsAssumption DEF Board!Init, BoardRest
<1>2. BoardInv /\ BoardRest => Board!TypeOK
  BY DEF BoardInv, BoardShape, BoardRest, Board!TypeOK
<1>3. ASSUME BoardInv, BoardRest, [Board!Next]_<<users, Board!boardVars>> PROVE BoardRest'
  <2> USE <1>3 DEF BoardRest
  <2>1. CASE UNCHANGED <<text, documents, written, crossed>>
    BY <2>1
  <2>2. ASSUME NEW p \in Readers, NEW n \in Notices, Board!Create(p, n) PROVE BoardRest'
    BY <2>2 DEF Board!Create
  <2>3. ASSUME NEW w \in Workers,
               \/ Board!EditCommit(w) \/ Board!PublishCommit(w) \/ Board!WithdrawCommit(w)
               \/ Board!DeleteCommit(w) \/ Board!DocumentCommit(w)
        PROVE  BoardRest'
    <3>1. work[w] # Board!Idle /\ notice[work[w].of] # NoRow
      BY <2>3 DEF Board!EditCommit, Board!PublishCommit, Board!WithdrawCommit,
           Board!DeleteCommit, Board!DocumentCommit, Board!Holds, Board!Idle
    <3>2. work[w].of \in Notices
      BY <3>1, BoardHolds
    <3>3. crossed' \subseteq crossed \cup {work[w].of} /\ written' = written
      BY <2>3 DEF Board!EditCommit, Board!PublishCommit, Board!WithdrawCommit,
           Board!DeleteCommit, Board!DocumentCommit, Board!Overtaken
    <3>4. text' \in [Notices -> 0 .. MaxText]
      <4>1. \/ text' = text
            \/ text[work[w].of] < MaxText /\ text' = [text EXCEPT ![work[w].of] = @ + 1]
        BY <2>3 DEF Board!EditCommit, Board!PublishCommit, Board!WithdrawCommit,
             Board!DeleteCommit, Board!DocumentCommit
      <4> QED BY <3>2, <4>1, DeskBoundsAssumption
    <3>5. documents' \in [Notices -> SUBSET Documents]
      <4>1. CASE Board!DocumentCommit(w)
        <5>1. work[w].op \in {"attach", "remove"} /\ work[w] \in Board!Work
          BY <4>1 DEF Board!DocumentCommit, Board!Holds, BoardInv, BoardShape
        <5>2. work[w].document \in Documents
          BY <5>1 DEF Board!Work, Board!Idle
        <5> QED BY <3>2, <4>1, <5>2 DEF Board!DocumentCommit
      <4>2. CASE ~Board!DocumentCommit(w)
        <5>1. documents' = documents \/ documents' = [documents EXCEPT ![work[w].of] = {}]
          BY <2>3, <4>2 DEF Board!EditCommit, Board!PublishCommit, Board!WithdrawCommit,
               Board!DeleteCommit
        <5> QED BY <3>2, <5>1
      <4> QED BY <4>1, <4>2
    <3> QED BY <3>2, <3>3, <3>4, <3>5
  <2>4. ASSUME NEW w \in Workers, NEW n \in Notices, NEW p \in Readers,
               \/ Board!EditLoad(w, n, p) \/ Board!PublishLoad(w, n, p)
               \/ Board!WithdrawLoad(w, n, p) \/ Board!DeleteLoad(w, n, p)
               \/ Board!ReadLoad(w, n, p)
               \/ \E d \in Documents : Board!AttachLoad(w, n, p, d) \/ Board!RemoveLoad(w, n, p, d)
        PROVE  BoardRest'
    BY <2>1, <2>4 DEF Board!EditLoad, Board!PublishLoad, Board!WithdrawLoad, Board!DeleteLoad,
         Board!ReadLoad, Board!AttachLoad, Board!RemoveLoad, Board!RowsUnchanged
  <2>6. ASSUME NEW w \in Workers, Board!ReadCommit(w) \/ Board!Rollback(w) PROVE BoardRest'
    BY <2>1, <2>6 DEF Board!ReadCommit, Board!Rollback, Board!RowsUnchanged
  <2>7. ASSUME NEW p \in Readers, Board!AccountDeleted(p) PROVE BoardRest'
    BY <2>1, <2>7 DEF Board!AccountDeleted
  <2>5. CASE UNCHANGED <<users, Board!boardVars>>
    BY <2>1, <2>5 DEF Board!boardVars
  <2> HIDE DEF BoardRest
  <2> QED BY <2>2, <2>3, <2>4, <2>5, <2>6, <2>7 DEF Board!Next
<1> QED BY <1>1, <1>2, <1>3

NudgeRow == [by : Readers, of : Things, at : 0 .. MaxHalfDays]
NudgesRest ==
    /\ Nudges!UsersTypeOK
    /\ clock \in 0 .. MaxHalfDays
    /\ thing \in [Things -> Nudges!ThingRow]
    /\ nudges \in Seq(NudgeRow)
    /\ Len(nudges) <= MaxNudges
    /\ heard \subseteq [to : Readers, by : Readers, of : Things, date : Nat]
    /\ work \in [Workers -> Nudges!Work]
    /\ crossed \subseteq Readers \X Things

LEMMA NudgesTypes ==
    /\ Nudges!UsersTypeOK /\ Nudges!Init => NudgesRest
    /\ NudgesRest => Nudges!TypeOK
    /\ NudgesRest /\ [Nudges!Next]_<<users, Nudges!nudgeVars>> => NudgesRest'
<1>1. Nudges!UsersTypeOK /\ Nudges!Init => NudgesRest
  BY DeskBoundsAssumption DEF Nudges!Init, NudgesRest, Nudges!Work
<1>2. ASSUME NudgesRest PROVE Nudges!TypeOK
  <2>1. \A i \in DOMAIN nudges : nudges[i] \in NudgeRow
    BY <1>2 DEF NudgesRest
  <2> QED BY <1>2, <2>1 DEF NudgesRest, NudgeRow, Nudges!TypeOK, Nudges!Clock
<1>3. ASSUME NudgesRest, [Nudges!Next]_<<users, Nudges!nudgeVars>> PROVE NudgesRest'
  <2> USE <1>3 DEF NudgesRest
  <2>1. ASSUME NEW w \in Workers, NEW p \in Readers, NEW x \in Things, Nudges!SendLoad(w, p, x)
        PROVE  NudgesRest'
    <3> DEFINE to == Nudges!Recipients(p, thing[x])
               t == [op |-> "nudge", by |-> p, of |-> x, at |-> clock, to |-> to,
                     after |-> Len(nudges)]
    <3>1. to \subseteq Readers
      <4>1. \A d : Nudges!Approvers(d) \subseteq Readers
        BY DEF Nudges!Approvers
      <4>2. {q \in {thing[x].decider} : Nudges!SignedIn(q)} \subseteq Readers
        BY DEF Nudges!ThingRow
      <4>3. CASE thing[x].kind \in {"profile_verification", "booking_approval"}
        BY <4>1, <4>3 DEF Nudges!Recipients
      <4>4. CASE thing[x].kind \in {"project_review", "project_at_risk"}
        BY <4>1, <4>4 DEF Nudges!Recipients
      <4>5. CASE thing[x].kind \notin {"profile_verification", "booking_approval",
                                      "project_review", "project_at_risk"}
        BY <4>2, <4>5 DEF Nudges!Recipients
      <4> QED BY <4>3, <4>4, <4>5
    <3>2. Len(nudges) \in 0 .. MaxNudges
      BY DeskBoundsAssumption
    <3>3. t \in Nudges!Work
      BY <3>1, <3>2 DEF Nudges!Work, Nudges!Clock
    <3>4. work' = [work EXCEPT ![w] = t] /\ UNCHANGED <<users, clock, thing, nudges, heard, crossed>>
      BY <2>1 DEF Nudges!SendLoad
    <3> HIDE DEF t
    <3> QED BY <3>3, <3>4 DEF Nudges!UsersTypeOK
  <2>2. ASSUME NEW w \in Workers, Nudges!SendCommit(w) PROVE NudgesRest'
    <3> DEFINE t == work[w]
    <3>1. /\ t.by \in Readers /\ t.of \in Things /\ t.at \in 0 .. MaxHalfDays
          /\ t.to \subseteq Readers
      BY <2>2 DEF Nudges!SendCommit, Nudges!Work, Nudges!Clock
    <3>2. nudges' \in Seq(NudgeRow) /\ Len(nudges') <= MaxNudges
      <4>1. [by |-> t.by, of |-> t.of, at |-> t.at] \in NudgeRow
        BY <3>1 DEF NudgeRow
      <4>2. /\ Len(nudges) < MaxNudges
            /\ nudges' = Append(nudges, [by |-> t.by, of |-> t.of, at |-> t.at])
        BY <2>2 DEF Nudges!SendCommit
      <4> HIDE DEF t
      <4> QED BY <4>1, <4>2, DeskBoundsAssumption
    <3>3. Nudges!Date(t.at) \in Nat
      BY <3>1, DeskBoundsAssumption DEF Nudges!Date
    <3>4. heard' \subseteq [to : Readers, by : Readers, of : Things, date : Nat]
      BY <2>2, <3>1, <3>3 DEF Nudges!SendCommit
    <3>5. crossed' \subseteq Readers \X Things
      BY <2>2, <3>1 DEF Nudges!SendCommit
    <3>6. work' \in [Workers -> Nudges!Work]
      BY <2>2 DEF Nudges!SendCommit, Nudges!Work
    <3>7. UNCHANGED <<users, clock, thing>>
      BY <2>2 DEF Nudges!SendCommit
    <3> QED BY <3>2, <3>4, <3>5, <3>6, <3>7 DEF Nudges!UsersTypeOK
  <2>3. ASSUME NEW w \in Workers, Nudges!Rollback(w) PROVE NudgesRest'
    BY <2>3 DEF Nudges!Rollback, Nudges!UsersTypeOK, Nudges!Work
  <2>4. ASSUME NEW x \in Things, Nudges!Turns(x) PROVE NudgesRest'
    <3>1. thing' \in [Things -> Nudges!ThingRow]
      BY <2>4 DEF Nudges!Turns, Nudges!ThingRow
    <3> QED BY <2>4, <3>1 DEF Nudges!Turns, Nudges!UsersTypeOK
  <2>5. ASSUME NEW p \in Readers, Nudges!Activity(p) PROVE NudgesRest'
    <3>1. users' \in [Readers -> Nudges!UserRow \cup {NoRow}]
      BY <2>5 DEF Nudges!Activity, Nudges!UsersTypeOK, Nudges!UserRow, Nudges!Exists
    <3> QED BY <2>5, <3>1 DEF Nudges!Activity, Nudges!UsersTypeOK
  <2>6. CASE Nudges!HalfDay
    BY <2>6, DeskBoundsAssumption DEF Nudges!HalfDay, Nudges!UsersTypeOK
  <2>7. CASE UNCHANGED <<users, Nudges!nudgeVars>>
    BY <2>7 DEF Nudges!nudgeVars, Nudges!UsersTypeOK
  <2> HIDE DEF NudgesRest
  <2> QED BY <2>1, <2>2, <2>3, <2>4, <2>5, <2>6, <2>7 DEF Nudges!Next
<1> QED BY <1>1, <1>2, <1>3

\* What a pass finds is a notice.
LEMMA FoundIsNotice ==
    ASSUME Reminders!TypeOK, NEW step \in Reminders!Steps
    PROVE  Reminders!Found(step) \subseteq Reminders!Notice
<1>1. ASSUME NEW p \in Savers, NEW i \in Items, NEW lead \in LEAD_DAYS
      PROVE  Reminders!Reminder(p, "deadline", i, lead) \in Reminders!Notice
  BY <1>1 DEF Reminders!Reminder, Reminders!Notice, Reminders!TypeOK
<1>2. ASSUME NEW p \in Savers, NEW m \in Stages, NEW lead \in LEAD_DAYS \cup {0}
      PROVE  Reminders!Reminder(p, "milestone", m, lead) \in Reminders!Notice
  BY <1>2 DEF Reminders!Reminder, Reminders!Notice, Reminders!TypeOK
<1>3. ASSUME NEW p \in Savers, NEW q \in Savers
      PROVE  Reminders!Reminder(p, "suggestion", {p, q}, 0) \in Reminders!Notice
  <2>1. {p, q} \in SUBSET Savers
    OBVIOUS
  <2> QED BY <2>1 DEF Reminders!Reminder, Reminders!Notice, Reminders!TypeOK
<1>4. Reminders!DeadlinesFound \subseteq Reminders!Notice
  <2>1. ASSUME NEW lead \in LEAD_DAYS, NEW s \in Reminders!DueIn(today, lead)
        PROVE  Reminders!Reminder(s[1], "deadline", s[2], lead) \in Reminders!Notice
    BY <1>1 DEF Reminders!DueIn, Reminders!TypeOK
  <2>2. \A lead \in LEAD_DAYS :
            {Reminders!Reminder(s[1], "deadline", s[2], lead) : s \in Reminders!DueIn(today, lead)}
                \subseteq Reminders!Notice
    BY <2>1
  <2> QED BY Zenon, <2>2 DEF Reminders!DeadlinesFound
<1>5. Reminders!MilestonesFound \subseteq Reminders!Notice
  <2>1. \A lead \in LEAD_DAYS : Reminders!MilestonesDue(lead) \subseteq Reminders!Notice
    BY <1>2 DEF Reminders!MilestonesDue, Reminders!Outstanding, Reminders!TypeOK
  <2>2. Reminders!MilestonesOverdue \subseteq Reminders!Notice
    BY <1>2 DEF Reminders!MilestonesOverdue, Reminders!Outstanding, Reminders!TypeOK
  <2> QED BY Zenon, <2>1, <2>2 DEF Reminders!MilestonesFound
<1>6. Reminders!SuggestionsFound \subseteq Reminders!Notice
  <2>1. ASSUME NEW pair \in Suited
        PROVE  Reminders!Reminder(pair[1], "suggestion", {pair[1], pair[2]}, 0) \in Reminders!Notice
    <3>1. pair[1] \in Savers /\ pair[2] \in Savers
      BY DeskBoundsAssumption
    <3> QED BY <1>3, <3>1
  <2> QED BY <2>1 DEF Reminders!SuggestionsFound
<1> QED BY <1>4, <1>5, <1>6 DEF Reminders!Found, Reminders!Steps

LEMMA RemindersTypes ==
    /\ Reminders!Init => Reminders!TypeOK
    /\ RemindersInv /\ Reminders!TypeOK /\ [Reminders!Next]_Reminders!reminderVars
          => Reminders!TypeOK'
<1>0. MaxDay \in Nat
  BY DeskBoundsAssumption
<1>1. Reminders!Init => Reminders!TypeOK
  <2>1. 0 \in Reminders!Days
    BY <1>0 DEF Reminders!Days
  <2> QED BY <2>1 DEF Reminders!Init, Reminders!TypeOK
<1>2. ASSUME RemindersInv, Reminders!TypeOK, [Reminders!Next]_Reminders!reminderVars
      PROVE  Reminders!TypeOK'
  <2> DEFINE Kind(t) == \/ t = Reminders!Resting
                        \/ /\ t.step \in Reminders!Steps /\ t.read \in BOOLEAN
                           /\ t.on \in Reminders!Days /\ t.found \subseteq Reminders!Notice
             World == UNCHANGED <<today, item, saved, milestone, audience>>
             Bell == UNCHANGED <<notified, unread>>
  <2>1. \A s \in Workers : Kind(pass[s])
    BY <1>2 DEF Reminders!TypeOK
  <2>2. DOMAIN pass = Workers
    BY <1>2 DEF RemindersInv
  <2> USE <1>2
  <2>3. ASSUME NEW s \in Workers, NEW t, pass' = [pass EXCEPT ![s] = t], Kind(t), World,
               swept' \in BOOLEAN, notified' \subseteq Reminders!Notice, unread' \subseteq notified'
        PROVE  Reminders!TypeOK'
    <3>1. \A v \in Workers : Kind(pass[v])'
      BY <2>1, <2>2, <2>3
    <3> QED BY <2>3, <3>1 DEF Reminders!TypeOK
  <2>4. ASSUME NEW s \in Workers,
               \/ Reminders!Start(s) \/ Reminders!Finish(s) \/ Reminders!Fail(s)
               \/ \E step \in Reminders!Steps : Reminders!Look(s, step)
        PROVE  Reminders!TypeOK'
    <3>1. World /\ Bell /\ swept' = swept
      BY <2>4 DEF Reminders!Start, Reminders!Finish, Reminders!Fail, Reminders!Look,
           Reminders!WorldUnchanged
    <3>2. PICK t : pass' = [pass EXCEPT ![s] = t] /\ Kind(t)
      <4>1. CASE Reminders!Start(s)
        <5> DEFINE t == [step |-> "deadlines", read |-> FALSE, on |-> today, found |-> {}]
        <5>1. Kind(t)
          BY DEF Reminders!TypeOK, Reminders!Steps
        <5> QED BY <4>1, <5>1 DEF Reminders!Start
      <4>2. CASE Reminders!Finish(s) \/ Reminders!Fail(s)
        BY <4>2 DEF Reminders!Finish, Reminders!Fail
      <4>3. ASSUME NEW step \in Reminders!Steps, Reminders!Look(s, step)
            PROVE  \E t : pass' = [pass EXCEPT ![s] = t] /\ Kind(t)
        <5> DEFINE t == [step |-> step, read |-> TRUE, on |-> today,
                         found |-> Reminders!Found(step)]
        <5>1. Kind(t)
          BY FoundIsNotice DEF Reminders!TypeOK
        <5> QED BY <4>3, <5>1 DEF Reminders!Look
      <4> QED BY <2>4, <4>1, <4>2, <4>3
    <3> QED BY <2>3, <3>1, <3>2 DEF Reminders!TypeOK
  <2>5. ASSUME NEW s \in Workers, Reminders!CommitDeadlines(s) \/ Reminders!CommitMilestones(s)
        PROVE  Reminders!TypeOK'
    <3>1. World /\ Reminders!Kept(s) /\ pass[s] # Reminders!Resting
      BY <2>5 DEF Reminders!CommitDeadlines, Reminders!CommitMilestones, Reminders!WorldUnchanged
    <3>2. notified' \subseteq Reminders!Notice /\ unread' \subseteq notified'
      BY <2>1, <3>1 DEF Reminders!Kept, Reminders!Unsaid, Reminders!TypeOK
    <3>3. swept' \in BOOLEAN
      <4>1. (pass[s].on = today) \in BOOLEAN
        BY Zenon
      <4>2. (swept' = swept) \/ swept' = (swept \/ pass[s].on = today)
        BY Zenon, <2>5 DEF Reminders!CommitDeadlines, Reminders!CommitMilestones
      <4>3. swept \in BOOLEAN
        BY DEF Reminders!TypeOK
      <4> QED BY Zenon, <4>1, <4>2, <4>3
    <3>4. PICK step \in Reminders!Steps :
              pass' = [pass EXCEPT ![s] = [step |-> step, read |-> FALSE, on |-> today,
                                           found |-> {}]]
      BY <2>5 DEF Reminders!CommitDeadlines, Reminders!CommitMilestones, Reminders!Steps
    <3> DEFINE t == [step |-> step, read |-> FALSE, on |-> today, found |-> {}]
    <3>5. Kind(t)
      BY DEF Reminders!TypeOK
    <3> QED BY <2>3, <3>1, <3>2, <3>3, <3>4, <3>5
  <2>6. ASSUME NEW p \in Savers, Reminders!MarkAllRead(p) \/ \E n \in unread : Reminders!MarkRead(p, n)
        PROVE  Reminders!TypeOK'
    BY <2>6 DEF Reminders!MarkAllRead, Reminders!MarkRead, Reminders!WorldUnchanged, Reminders!TypeOK
  <2>7. ASSUME NEW p \in Savers, NEW i \in Items, Reminders!Saves(p, i) \/ Reminders!Unsaves(p, i)
        PROVE  Reminders!TypeOK'
    BY <2>7 DEF Reminders!Saves, Reminders!Unsaves, Reminders!TypeOK
  <2>8. ASSUME NEW i \in Items, NEW row \in Reminders!ItemRow, Reminders!ItemChanges(i, row)
        PROVE  Reminders!TypeOK'
    BY <2>8 DEF Reminders!ItemChanges, Reminders!TypeOK
  <2>9. ASSUME NEW m \in Stages, NEW row \in Reminders!MilestoneRow,
               Reminders!MilestoneChanges(m, row)
        PROVE  Reminders!TypeOK'
    BY <2>9 DEF Reminders!MilestoneChanges, Reminders!TypeOK
  <2>10. ASSUME NEW team \in SUBSET Savers, Reminders!TeamChanges(team)
         PROVE  Reminders!TypeOK'
    BY <2>10 DEF Reminders!TeamChanges, Reminders!TypeOK
  <2>11. CASE Reminders!Midnight
    <3>1. today' \in Reminders!Days
      BY <1>0, <2>11 DEF Reminders!Midnight, Reminders!TypeOK, Reminders!Days
    <3> QED BY <2>11, <3>1 DEF Reminders!Midnight, Reminders!TypeOK
  <2>12. CASE UNCHANGED Reminders!reminderVars
    BY <2>12 DEF Reminders!reminderVars, Reminders!TypeOK
  <2> QED BY <2>4, <2>5, <2>6, <2>7, <2>8, <2>9, <2>10, <2>11, <2>12 DEF Reminders!Next
<1> QED BY <1>1, <1>2

HandOK(t) == Accounts!WorkTypeOK(t) /\ (t.op = "guess" => t.left > 0)
AccountsRest ==
    /\ verified \subseteq Officers
    /\ guesses \in [Officers -> 0 .. MAX_ATTEMPTS]
    /\ \A w \in Workers : HandOK(work[w])
    /\ moves \in 0 .. AccountMoves

\* What closing a challenge, or overtaking a count, leaves in hand.
LEMMA HandFacts ==
    ASSUME NEW t, HandOK(t), IsGuess(t) \/ IsDelete(t) \/ IsChange(t)
    PROVE  /\ t.op \in {"guess", "promote"} => HandOK([t EXCEPT !.open = FALSE])
           /\ t.op # "guess" => \A b \in BOOLEAN : HandOK([t EXCEPT !.stale = b])
<1>1. CASE IsGuess(t)
  <2>1. t \in [op : {"guess"}, of : Officers, left : 0 .. MAX_ATTEMPTS, open : BOOLEAN]
    BY <1>1 DEF IsGuess, HandOK, Accounts!WorkTypeOK, Accounts!Idle
  <2>2. [t EXCEPT !.open = FALSE]
           \in [op : {"guess"}, of : Officers, left : 0 .. MAX_ATTEMPTS, open : BOOLEAN]
        /\ [t EXCEPT !.open = FALSE].left = t.left
    BY <2>1
  <2> QED BY <1>1, <2>2 DEF IsGuess, HandOK, Accounts!WorkTypeOK
<1>2. CASE IsDelete(t)
  <2>1. t \in [op : {"delete"}, of : Officers, stale : BOOLEAN]
    BY <1>2 DEF IsDelete, HandOK, Accounts!WorkTypeOK, Accounts!Idle
  <2>2. \A b \in BOOLEAN : [t EXCEPT !.stale = b] \in [op : {"delete"}, of : Officers, stale : BOOLEAN]
    BY <2>1
  <2>3. \A r \in [op : {"delete"}, of : Officers, stale : BOOLEAN] : HandOK(r)
    BY DEF HandOK, Accounts!WorkTypeOK
  <2>4. t.op = "delete"
    BY <2>1
  <2> QED BY <2>2, <2>3, <2>4
<1>3. CASE IsChange(t)
  <2>1. /\ t.op \in {"change", "promote"}
        /\ t = [op |-> t.op, of |-> t.of, changes |-> t.changes, open |-> t.open,
                stale |-> t.stale]
        /\ t.of \in Officers /\ t.stale \in BOOLEAN /\ t.open \in BOOLEAN
    BY <1>3 DEF IsChange
  <2>2. /\ DOMAIN t.changes \subseteq {"role", "department", "active", "scope"}
        /\ \E row \in Accounts!Account : t.changes = [c \in DOMAIN t.changes |-> row[c]]
    BY <2>1 DEF HandOK, Accounts!WorkTypeOK, Accounts!Idle
  <2>3. ASSUME NEW u, u.op = t.op, u.of = t.of, u.changes = t.changes,
               u.stale \in BOOLEAN, u.open \in BOOLEAN
        PROVE  HandOK(u)
    BY <2>1, <2>2, <2>3 DEF HandOK, Accounts!WorkTypeOK
  <2>4. ASSUME NEW b \in BOOLEAN PROVE HandOK([t EXCEPT !.stale = b])
    <3> DEFINE u == [t EXCEPT !.stale = b]
    <3>1. u.op = t.op /\ u.of = t.of /\ u.changes = t.changes /\ u.stale = b /\ u.open = t.open
      BY <2>1
    <3> HIDE DEF u
    <3>2. HandOK(u)
      BY <2>1, <2>3, <3>1
    <3> QED BY <3>2 DEF u
  <2>5. HandOK([t EXCEPT !.open = FALSE])
    <3> DEFINE u == [t EXCEPT !.open = FALSE]
    <3>1. u.op = t.op /\ u.of = t.of /\ u.changes = t.changes /\ u.stale = t.stale
          /\ u.open = FALSE
      BY <2>1
    <3> HIDE DEF u
    <3>2. HandOK(u)
      BY <2>1, <2>3, <3>1
    <3> QED BY <3>2 DEF u
  <2> QED BY <2>4, <2>5
<1> QED BY <1>1, <1>2, <1>3

\* A handler that begins, or ends.
LEMMA HandSet ==
    ASSUME AccountsInv, AccountsRest, NEW w \in Workers, NEW t, HandOK(t),
           work' = [work EXCEPT ![w] = t]
    PROVE  \A v \in Workers : HandOK(work'[v])
BY DEF AccountsInv, AccountsShape, AccountsRest

LEMMA ClosedHands ==
    ASSUME AccountsInv, AccountsRest, NEW p, NEW v \in Workers
    PROVE  HandOK(Accounts!Closed(p)[v])
<1>1. HandOK(work[v])
  BY DEF AccountsRest
<1>2. Accounts!Closed(p)[v] =
         IF work[v].op \in {"guess", "promote"} /\ work[v].of = p
         THEN [work[v] EXCEPT !.open = FALSE] ELSE work[v]
  BY DEF Accounts!Closed
<1>3. work[v].op \in {"guess", "promote"} =>
         IsGuess(work[v]) \/ IsDelete(work[v]) \/ IsChange(work[v])
  BY DEF AccountsInv, AccountsShape, Accounts!Idle
<1> QED BY <1>1, <1>2, <1>3, HandFacts

LEMMA OvertakenHands ==
    ASSUME AccountsInv, AccountsRest, NEW w \in Workers, NEW p, NEW H,
           H = work \/ H = Accounts!Closed(p), Accounts!Overtake(w, H)
    PROVE  \A v \in Workers : HandOK(work'[v])
<1> SUFFICES ASSUME NEW v \in Workers PROVE HandOK(work'[v])
  OBVIOUS
<1>0. HandOK(Accounts!Idle)
  BY DEF HandOK, Accounts!WorkTypeOK, Accounts!Idle
<1>1. PICK differ \in BOOLEAN : differ = (Accounts!ActiveAdmins' # Accounts!ActiveAdmins)
  OBVIOUS
<1>2. work'[v] = IF v = w \/ work[v] = Accounts!Idle THEN Accounts!Idle
                 ELSE IF work[v].op = "guess" THEN H[v]
                 ELSE [H[v] EXCEPT !.stale = @ \/ differ]
  BY <1>1 DEF Accounts!Overtake
<1>3. HandOK(H[v])
  BY ClosedHands DEF AccountsRest
<1>4. ASSUME v # w, work[v] # Accounts!Idle, work[v].op # "guess"
      PROVE  HandOK(work'[v])
  <2>1. IsDelete(work[v]) \/ IsChange(work[v])
    BY <1>4 DEF AccountsInv, AccountsShape, IsGuess
  <2>2. IsDelete(H[v]) \/ IsChange(H[v])
    BY <2>1, ClosedFacts DEF AccountsInv
  <2>3. H[v].op # "guess" /\ H[v].stale \in BOOLEAN
    BY <2>2 DEF IsDelete, IsChange
  <2>4. (H[v].stale \/ differ) \in BOOLEAN
    OBVIOUS
  <2>5. work'[v] = [H[v] EXCEPT !.stale = H[v].stale \/ differ]
    BY <1>2, <1>4
  <2> QED BY <1>3, <2>2, <2>3, <2>4, <2>5, HandFacts
<1> QED BY <1>0, <1>2, <1>3, <1>4

LEMMA AccountsTypes ==
    /\ Accounts!Init => AccountsRest
    /\ AccountsInv /\ AccountsRest => Accounts!TypeOK
    /\ AccountsInv /\ AccountsRest /\ Given \subseteq Accounts!Roles
          /\ [Accounts!Next]_<<users, Accounts!accountVars>> => AccountsRest'
<1>0. MAX_ATTEMPTS \in Nat /\ AccountMoves \in Nat
  BY DeskBoundsAssumption
<1>i. HandOK(Accounts!Idle)
  BY DEF HandOK, Accounts!WorkTypeOK, Accounts!Idle
<1>1. ASSUME Accounts!Init PROVE AccountsRest
  <2>1. \A w \in Workers : work[w] = Accounts!Idle
    BY <1>1 DEF Accounts!Init
  <2> QED BY <1>0, <1>1, <1>i, <2>1 DEF Accounts!Init, AccountsRest
<1>2. AccountsInv /\ AccountsRest => Accounts!TypeOK
  BY DEF AccountsInv, AccountsShape, AccountsRest, HandOK, Accounts!TypeOK, Accounts!UsersTypeOK
<1>3. ASSUME AccountsInv, AccountsRest, Given \subseteq Accounts!Roles,
             [Accounts!Next]_<<users, Accounts!accountVars>>
      PROVE  AccountsRest'
  <2> DEFINE Hands == \A v \in Workers : HandOK(work'[v])
             Rest == /\ verified' \subseteq Officers
                     /\ guesses' \in [Officers -> 0 .. MAX_ATTEMPTS]
                     /\ moves' \in 0 .. AccountMoves
  <2>r. Hands /\ Rest => AccountsRest'
    BY DEF AccountsRest, HandOK, Accounts!WorkTypeOK, Accounts!Account, Accounts!Roles
  <2>h. work' = work => Hands
    BY <1>3 DEF AccountsRest
  <2>c. Accounts!Counted => moves' \in 0 .. AccountMoves
    BY <1>0, <1>3 DEF Accounts!Counted, AccountsRest
  <2>u. UNCHANGED <<verified, guesses>> /\ (Accounts!Counted \/ UNCHANGED moves) => Rest
    BY <1>3, <2>c DEF AccountsRest
  <2>s. ASSUME NEW w \in Workers, NEW t, HandOK(t), work' = [work EXCEPT ![w] = t]
        PROVE  Hands
    BY <1>3, <2>s, HandSet
  <2> HIDE DEF Rest, Hands
  <2>1. ASSUME NEW a \in Officers, NEW p \in Officers, NEW r \in Given,
               NEW d \in Departments \cup {NoRow},
               Accounts!CreateAccount(a, p, r, d) \/ Accounts!CreateAsAdmin(a, p, r, d)
        PROVE  AccountsRest'
    BY <2>1, <2>r, <2>h, <2>u DEF Accounts!CreateAccount, Accounts!CreateAsAdmin, Accounts!Created
  <2>2. ASSUME NEW w \in Workers, NEW a \in Officers, NEW p \in Officers,
               \/ \E r \in Given : Accounts!ChangeRole(w, a, p, r)
               \/ \E active \in BOOLEAN : Accounts!SetActive(w, a, p, active)
               \/ \E r \in Given : Accounts!StepDown(w, a, r)
               \/ \E d \in Departments \cup {NoRow} : Accounts!UpdateUser(w, a, p, d)
               \/ Accounts!ConfirmPromotion(w, a, p)
        PROVE  AccountsRest'
    <3>1. PICK q \in Officers, op \in {"change", "promote"}, row \in Accounts!Account :
              Accounts!Changing(w, op, q, row)
      BY <1>3, <2>2, ChangeLoadIsChanging
    <3> DEFINE C == {x \in DOMAIN row : row[x] # Accounts!AccountOf(q)[x]}
               t == [op |-> op, of |-> q, changes |-> [x \in C |-> row[x]],
                     open |-> op = "promote", stale |-> FALSE]
    <3>2. HandOK(t)
      BY DEF HandOK, Accounts!WorkTypeOK, Accounts!Account
    <3>3. work' = [work EXCEPT ![w] = t] /\ UNCHANGED <<verified, guesses, moves>>
      BY <3>1 DEF Accounts!Changing, Accounts!Begin, Accounts!RowsUnchanged
    <3> HIDE DEF t
    <3> QED BY <3>2, <3>3, <2>r, <2>s, <2>u
  <2>3. ASSUME NEW w \in Workers, NEW a \in Officers, NEW p \in Officers,
               Accounts!GuessLoad(w, a, p) \/ Accounts!DeleteLoad(w, a, p)
        PROVE  AccountsRest'
    <3>1. PICK t : /\ work' = [work EXCEPT ![w] = t]
                   /\ \/ t = [op |-> "delete", of |-> p, stale |-> FALSE]
                      \/ /\ t = [op |-> "guess", of |-> p, left |-> guesses[p], open |-> TRUE]
                         /\ guesses[p] > 0
      BY <2>3 DEF Accounts!GuessLoad, Accounts!DeleteLoad, Accounts!Begin, Accounts!LiveChallenge
    <3>g. guesses[p] \in 0 .. MAX_ATTEMPTS
      BY <1>3 DEF AccountsRest
    <3>2. HandOK(t)
      <4>1. CASE t = [op |-> "delete", of |-> p, stale |-> FALSE]
        BY <4>1 DEF HandOK, Accounts!WorkTypeOK
      <4>2. CASE /\ t = [op |-> "guess", of |-> p, left |-> guesses[p], open |-> TRUE]
                 /\ guesses[p] > 0
        BY <4>2, <3>g DEF HandOK, Accounts!WorkTypeOK
      <4> QED BY <3>1, <4>1, <4>2
    <3>3. UNCHANGED <<verified, guesses, moves>>
      BY <2>3 DEF Accounts!GuessLoad, Accounts!DeleteLoad, Accounts!RowsUnchanged
    <3> QED BY <3>1, <3>2, <3>3, <2>r, <2>s, <2>u
  <2>4. ASSUME NEW w \in Workers, Accounts!GuessCommit(w)
        PROVE  AccountsRest'
    <3>1. work[w] \in [op : {"guess"}, of : Officers, left : 0 .. MAX_ATTEMPTS, open : BOOLEAN]
          /\ work[w].left > 0
      BY <1>3, <2>4 DEF Accounts!GuessCommit, AccountsRest, HandOK, Accounts!WorkTypeOK,
           Accounts!Idle
    <3>2. guesses' \in [Officers -> 0 .. MAX_ATTEMPTS]
      BY <1>0, <1>3, <2>4, <3>1 DEF Accounts!GuessCommit, AccountsRest
    <3>3. Rest
      BY <1>3, <2>4, <3>2 DEF Rest, Accounts!GuessCommit, AccountsRest
    <3>4. work' = [work EXCEPT ![w] = Accounts!Idle]
      BY <2>4 DEF Accounts!GuessCommit, Accounts!End
    <3> QED BY <1>i, <3>3, <3>4, <2>r, <2>s
  <2>5. ASSUME NEW w \in Workers, Accounts!ChangeCommit(w)
        PROVE  AccountsRest'
    <3>1. \E H : (H = work \/ H = Accounts!Closed(work[w].of)) /\ Accounts!Overtake(w, H)
      BY <2>5 DEF Accounts!ChangeCommit
    <3>2. Hands
      BY <1>3, <3>1, OvertakenHands DEF Hands
    <3>3. /\ guesses' = guesses \/ guesses' = [guesses EXCEPT ![work[w].of] = 0]
          /\ verified' = verified /\ Accounts!Counted
      BY <2>5 DEF Accounts!ChangeCommit
    <3>4. Rest
      BY <1>0, <1>3, <2>c, <3>3 DEF Rest, AccountsRest
    <3> QED BY <3>2, <3>4, <2>r
  <2>6. ASSUME NEW w \in Workers, Accounts!DeleteCommit(w)
        PROVE  AccountsRest'
    <3>1. Hands
      BY <1>3, <2>6, OvertakenHands DEF Hands, Accounts!DeleteCommit
    <3>2. /\ guesses' = [guesses EXCEPT ![work[w].of] = 0]
          /\ verified' \subseteq verified /\ Accounts!Counted
      BY <2>6 DEF Accounts!DeleteCommit
    <3>g. guesses \in [Officers -> 0 .. MAX_ATTEMPTS] /\ 0 \in 0 .. MAX_ATTEMPTS
      BY <1>0, <1>3 DEF AccountsRest
    <3>3. guesses' \in [Officers -> 0 .. MAX_ATTEMPTS]
      BY <3>2, <3>g
    <3>4. Rest
      BY <1>3, <2>c, <3>2, <3>3 DEF Rest, AccountsRest
    <3> QED BY <3>1, <3>4, <2>r
  <2>7. ASSUME NEW w \in Workers, Accounts!Rollback(w) PROVE AccountsRest'
    BY <1>i, <2>7, <2>r, <2>s, <2>u DEF Accounts!Rollback, Accounts!End, Accounts!RowsUnchanged
  <2>8. ASSUME NEW a \in Officers, NEW p \in Officers,
               Accounts!RequestPromotion(a, p) \/ Accounts!Expire(p)
        PROVE  AccountsRest'
    <3>1. Hands
      BY <1>3, <2>8, ClosedHands DEF Hands, Accounts!RequestPromotion, Accounts!Expire
    <3>2. /\ guesses' = [guesses EXCEPT ![p] = 0] \/ guesses' = [guesses EXCEPT ![p] = MAX_ATTEMPTS]
          /\ UNCHANGED <<verified, moves>>
      BY <2>8 DEF Accounts!RequestPromotion, Accounts!Expire
    <3>3. Rest
      BY <1>0, <1>3, <3>2 DEF Rest, AccountsRest
    <3> QED BY <3>1, <3>3, <2>r
  <2>9. ASSUME NEW p \in Officers, Accounts!Verification(p) PROVE AccountsRest'
    <3>1. Rest
      BY <1>3, <2>9, <2>c DEF Rest, Accounts!Verification, AccountsRest
    <3> QED BY <2>9, <3>1, <2>r, <2>h DEF Accounts!Verification
  <2>10. ASSUME NEW a \in Officers, NEW d \in Departments,
                Accounts!CreateDepartment(a, d) \/ Accounts!DeleteDepartment(a, d)
         PROVE  AccountsRest'
    BY <2>10, <2>r, <2>h, <2>u DEF Accounts!CreateDepartment, Accounts!DeleteDepartment
  <2>11. CASE UNCHANGED <<users, Accounts!accountVars>>
    BY <2>11, <2>r, <2>h, <2>u DEF Accounts!accountVars
  <2> QED BY <1>3, <2>1, <2>2, <2>3, <2>4, <2>5, <2>6, <2>7, <2>8, <2>9, <2>10, <2>11
          DEF Accounts!Next
<1> QED BY <1>1, <1>2, <1>3

SessionsRest ==
    /\ Sessions!UsersTypeOK
    /\ handed \subseteq Callers /\ owes \subseteq Callers
    /\ ended \subseteq Tokens /\ crossed \subseteq Tokens \cup Callers

LEMMA SessionsTypes ==
    /\ Sessions!UsersTypeOK /\ Sessions!Init => SessionsRest
    /\ SessionsInv /\ SessionsRest => Sessions!TypeOK
    /\ SessionsInv /\ SessionsRest /\ [Sessions!Next]_<<users, Sessions!sessionVars>>
          => SessionsRest'
<1>1. Sessions!UsersTypeOK /\ Sessions!Init => SessionsRest
  BY DeskBoundsAssumption DEF Sessions!Init, SessionsRest
<1>2. SessionsInv /\ SessionsRest => Sessions!TypeOK
  BY DEF SessionsInv, SessionsShape, SessionsRest, Sessions!TypeOK
<1>3. ASSUME SessionsInv, SessionsRest, [Sessions!Next]_<<users, Sessions!sessionVars>>
      PROVE  SessionsRest'
  <2> USE <1>3 DEF SessionsRest
  <2>f. \A t \in Sessions!Stored : token[t].family \in Tokens
    BY DEF SessionsInv, SessionsShape, Sessions!Stored, Sessions!TokenRow
  <2>p. \A p : Sessions!FamiliesOf(p) \subseteq Tokens
    BY <2>f DEF Sessions!FamiliesOf
  <2>u. UNCHANGED users => Sessions!UsersTypeOK'
    BY DEF Sessions!UsersTypeOK, Sessions!UserRow
  <2>a. ASSUME NEW p \in Callers, NEW b \in BOOLEAN, Sessions!Exists(p),
               users' = [users EXCEPT ![p].active = b]
        PROVE  Sessions!UsersTypeOK'
    <3>1. users[p] \in Sessions!UserRow
      BY <2>a DEF Sessions!UsersTypeOK, Sessions!Exists
    <3>2. [users[p] EXCEPT !.active = b] \in Sessions!UserRow
      BY <2>a, <3>1 DEF Sessions!UserRow
    <3> QED BY <2>a, <3>2 DEF Sessions!UsersTypeOK, Sessions!UserRow
  <2>1. CASE UNCHANGED <<users, handed, owes, ended, crossed>>
    BY <2>1, <2>u
  <2>2. ASSUME NEW w \in Workers,
               \/ \E p \in Callers : Sessions!LoginLoad(w, p) \/ Sessions!ChangePassword(w, p)
               \/ \E a, p \in Callers : Sessions!ResetPassword(w, a, p) \/ Sessions!Deactivate(w, a, p)
               \/ \E t \in Tokens : \/ Sessions!RotateLoad(w, t) \/ Sessions!ReplayLoad(w, t)
                                    \/ Sessions!LogoutLoad(w, t)
               \/ Sessions!LoginCommit(w) \/ Sessions!Rollback(w)
        PROVE  SessionsRest'
    BY <2>1, <2>2 DEF Sessions!LoginLoad, Sessions!ChangePassword, Sessions!ResetPassword,
         Sessions!Deactivate, Sessions!SignOutLoad, Sessions!RotateLoad, Sessions!ReplayLoad,
         Sessions!LogoutLoad, Sessions!LoginCommit, Sessions!Rollback, Sessions!RowsUnchanged
  <2>3. ASSUME NEW w \in Workers, Sessions!RotateCommit(w) \/ Sessions!LogoutCommit(w)
        PROVE  SessionsRest'
    <3>1. /\ UNCHANGED <<users, handed, owes>>
          /\ ended' \subseteq ended \cup {token[work[w].of].family}
          /\ crossed' \subseteq crossed \cup {token[work[w].of].family}
          /\ work[w].of \in Sessions!Stored
      BY <2>3 DEF Sessions!RotateCommit, Sessions!LogoutCommit
    <3> QED BY <2>f, <2>u, <3>1
  <2>4. ASSUME NEW w \in Workers, Sessions!ReplayCommit(w) PROVE SessionsRest'
    <3>1. work[w].family \in Tokens
      BY <2>4, SessionWorkShape DEF SessionsInv, Sessions!ReplayCommit
    <3>2. /\ UNCHANGED <<users, handed, owes>>
          /\ ended' \subseteq ended \cup {work[w].family}
          /\ crossed' \subseteq crossed \cup {work[w].family}
      BY <2>4 DEF Sessions!ReplayCommit
    <3> QED BY <2>u, <3>1, <3>2
  <2>5. ASSUME NEW w \in Workers, Sessions!SignOutCommit(w) PROVE SessionsRest'
    <3>1. work[w].by \in Callers /\ Sessions!Exists(work[w].by)
      BY <2>5 DEF SessionsInv, SessionsShape, Sessions!Work, Sessions!Idle, Sessions!SignOutCommit
    <3>2. /\ ended' \subseteq ended \cup Sessions!FamiliesOf(work[w].by)
          /\ crossed' \subseteq (crossed \cup Sessions!FamiliesOf(work[w].by)) \cup {work[w].by}
          /\ handed' \subseteq handed \cup {work[w].by}
          /\ owes' \subseteq owes \cup {work[w].by}
          /\ users' = users \/ users' = [users EXCEPT ![work[w].by].active = FALSE]
      BY <2>5 DEF Sessions!SignOutCommit, Sessions!Owing
    <3>3. Sessions!UsersTypeOK'
      BY <2>a, <2>u, <3>1, <3>2
    <3> QED BY <2>p, <3>1, <3>2, <3>3
  <2>6. ASSUME NEW a \in Callers, NEW p \in Callers, Sessions!Activate(a, p) PROVE SessionsRest'
    BY <2>6, <2>a DEF Sessions!Activate
  <2>7. ASSUME NEW p \in Followed, Sessions!AccountDeleted(p) PROVE SessionsRest'
    <3>1. Sessions!UsersTypeOK'
      BY <2>7 DEF Sessions!AccountDeleted, Sessions!UsersTypeOK, Sessions!UserRow
    <3> QED BY <2>7, <2>p, <3>1 DEF Sessions!AccountDeleted
  <2>8. CASE UNCHANGED <<users, Sessions!sessionVars>>
    BY <2>1, <2>8 DEF Sessions!sessionVars
  <2> HIDE DEF SessionsRest
  <2> QED BY <2>2, <2>3, <2>4, <2>5, <2>6, <2>7, <2>8 DEF Sessions!Next
<1> QED BY <1>1, <1>2, <1>3

RegisterRest ==
    /\ Register!UsersTypeOK
    /\ moves \in 0 .. RecordMoves
    /\ used \subseteq Works /\ removed \subseteq Works /\ crossed \subseteq Works

LEMMA RegisterTypes ==
    /\ Register!UsersTypeOK /\ Register!Init => RegisterRest
    /\ RegisterInv /\ RegisterRest => Register!TypeOK
    /\ RegisterInv /\ RegisterRest /\ [Register!Next]_<<users, Register!registerVars>>
          => RegisterRest'
<1>0. RecordMoves \in Nat
  BY DeskBoundsAssumption
<1>1. Register!UsersTypeOK /\ Register!Init => RegisterRest
  BY <1>0 DEF Register!Init, RegisterRest
<1>2. RegisterInv /\ RegisterRest => Register!TypeOK
  BY DEF RegisterInv, RegisterShape, RegisterRest, Register!TypeOK
<1>3. ASSUME RegisterInv, RegisterRest, [Register!Next]_<<users, Register!registerVars>>
      PROVE  RegisterRest'
  <2> USE <1>3 DEF RegisterRest
  <2>p. \A row \in Register!PubRow : row.from \in Works
    BY DEF Register!PubRow
  <2>k. \A k \in Register!Stored : k \in Works /\ pub[k].from \in Works
    BY <2>p DEF RegisterInv, RegisterShape, Register!Stored
  <2>t. ASSUME NEW w \in Workers
        PROVE  /\ work[w] # Register!Idle => review[work[w].on] \in Register!ReviewRow
               /\ work[w].op \in {"merge", "undo"} => work[w].lost.from \in Works
    <3>1. work[w] \in Register!Work /\ RegisterTask(work[w])
      BY DEF RegisterInv, RegisterShape
    <3>2. work[w] # Register!Idle => work[w].on \in Reviews
      BY <3>1 DEF Register!Work
    <3>3. work[w].op \in {"merge", "undo"} => work[w].lost \in Register!PubRow
      BY <3>1 DEF Register!Work, Register!Idle
    <3> QED BY <3>1, <3>2, <3>3, <2>p DEF RegisterTask, RegisterInv, RegisterShape
  <2>w. ASSUME NEW row \in Register!ReviewRow PROVE Register!WorksOf(row) \subseteq Works
    <3>1. row.snapshot \in Register!PubRow \cup {NoRow}
      BY DEF Register!ReviewRow
    <3> QED BY <3>1, <2>k, <2>p DEF Register!WorksOf
  <2>o. ASSUME NEW w \in Workers, work[w].op \in {"settle", "merge", "undo"}
        PROVE  Register!Overtaken(work[w]) \subseteq Works
    <3>1. work[w] # Register!Idle
      BY <2>o DEF Register!Idle
    <3>2. Register!WorksOf(review[work[w].on]) \subseteq Works
      BY <2>t, <2>w, <3>1
    <3>3. work[w].op # "settle" => work[w].lost.from \in Works
      BY <2>o, <2>t
    <3> QED BY <3>2, <3>3 DEF Register!Overtaken
  <2>d. ASSUME NEW S, Register!Disturb(S) PROVE crossed' \subseteq Works
    <3>1. \A v \in Workers : work[v].op = "merge" => work[v].lost.from \in Works
      BY <2>t
    <3> QED BY <2>d, <3>1 DEF Register!Disturb
  <2>c. Register!Counted => moves' \in 0 .. RecordMoves
    BY <1>0 DEF Register!Counted
  <2>u. UNCHANGED users => Register!UsersTypeOK'
    BY DEF Register!UsersTypeOK, Register!UserRow
  <2>1. ASSUME NEW p \in Scholars, NEW k \in Works, NEW t, NEW d, NEW a, NEW l,
               Register!CreatePublication(p, k, t, d, a, l)
        PROVE  RegisterRest'
    BY <2>1, <2>u DEF Register!CreatePublication
  <2>2. ASSUME NEW p \in Scholars, NEW k \in Works, NEW t, NEW d, NEW a, NEW l,
               Register!UpdatePublication(p, k, t, d, a, l)
        PROVE  RegisterRest'
    BY <2>2, <2>u, <2>c, <2>d DEF Register!UpdatePublication
  <2>3. ASSUME NEW p \in Scholars, NEW k \in Works, Register!DeletePublication(p, k)
        PROVE  RegisterRest'
    BY <2>3, <2>u, <2>d, <2>k DEF Register!DeletePublication
  <2>4. ASSUME NEW p \in Scholars, Register!Scan(p) PROVE RegisterRest'
    BY <2>4, <2>u DEF Register!Scan
  <2>5. ASSUME NEW p \in Scholars, Register!AccountDeleted(p) PROVE RegisterRest'
    <3>1. Register!UsersTypeOK'
      BY <2>5 DEF Register!AccountDeleted, Register!UsersTypeOK, Register!UserRow
    <3>2. removed' \subseteq Works
      BY <2>5, <2>k DEF Register!AccountDeleted
    <3>3. crossed' \subseteq Works
      BY <2>5, <2>d DEF Register!AccountDeleted
    <3> QED BY <2>5, <3>1, <3>2, <3>3 DEF Register!AccountDeleted
  <2>6. ASSUME NEW p \in Scholars, NEW w \in Workers, NEW r \in Reviews,
               \/ \E s \in {"separate", "ignored"} : Register!SettleLoad(w, p, r, s)
               \/ \E k \in Works : Register!MergeLoad(w, p, r, k)
               \/ Register!UndoLoad(w, p, r)
        PROVE  RegisterRest'
    BY <2>6, <2>u DEF Register!SettleLoad, Register!MergeLoad, Register!UndoLoad
  <2>7. ASSUME NEW w \in Workers, Register!SettleCommit(w) \/ Register!MergeCommit(w)
        PROVE  RegisterRest'
    <3>1. /\ work[w].op \in {"settle", "merge"}
          /\ crossed' = crossed \cup Register!Overtaken(work[w])
          /\ Register!Counted /\ UNCHANGED <<users, used, removed>>
      BY <2>7 DEF Register!SettleCommit, Register!MergeCommit
    <3> QED BY <3>1, <2>u, <2>c, <2>o
  <2>8. ASSUME NEW w \in Workers, NEW k \in Works, Register!UndoCommit(w, k)
        PROVE  RegisterRest'
    <3>1. /\ work[w].op = "undo"
          /\ crossed' = crossed \cup Register!Overtaken(work[w])
          /\ used' = used \cup {k} /\ removed' = removed \cup {k}
          /\ Register!Counted /\ UNCHANGED users
      BY <2>8 DEF Register!UndoCommit
    <3> QED BY <3>1, <2>u, <2>c, <2>o
  <2>9. ASSUME NEW w \in Workers, Register!Rollback(w) PROVE RegisterRest'
    BY <2>9, <2>u DEF Register!Rollback
  <2>10. CASE UNCHANGED <<users, Register!registerVars>>
    BY <2>10, <2>u DEF Register!registerVars
  <2> HIDE DEF RegisterRest
  <2> QED BY <2>1, <2>2, <2>3, <2>4, <2>5, <2>6, <2>7, <2>8, <2>9, <2>10 DEF Register!Next
<1> QED BY <1>1, <1>2, <1>3

\* Whoever imports has a profile.
ImportsRest ==
    /\ register \subseteq Papers
    /\ crossed \subseteq Profiled
    /\ \A w \in Workers :
          /\ work[w] \in Imports!Work
          /\ work[w].op = "import" => profile[work[w].by] # NoRow

LEMMA ImportsTypes ==
    /\ Imports!Init => ImportsRest
    /\ ImportsInv /\ ImportsRest => Imports!TypeOK
    /\ ImportsInv /\ ImportsRest /\ [Imports!Next]_<<users, Imports!importVars>>
          => ImportsRest'
<1>1. Imports!Init => ImportsRest
  <2>1. Imports!Idle \in Imports!Work /\ Imports!Idle.op = "idle"
    BY DEF Imports!Work, Imports!Idle
  <2> QED BY <2>1 DEF Imports!Init, ImportsRest
<1>2. ImportsInv /\ ImportsRest => Imports!TypeOK
  <2>1. ImportsInv => DOMAIN work = Workers /\ work = [w \in Workers |-> work[w]]
    BY DEF ImportsInv, ImportsShape
  <2>2. ImportsInv /\ ImportsRest => work \in [Workers -> Imports!Work]
    BY <2>1 DEF ImportsRest
  <2> QED BY <2>2 DEF ImportsInv, ImportsShape, ImportsRest, Imports!TypeOK
<1>3. ASSUME ImportsInv, ImportsRest, [Imports!Next]_<<users, Imports!importVars>>
      PROVE  ImportsRest'
  <2> USE <1>3
  <2>p. /\ profile \in [Profiled -> Imports!VerificationStatus \cup {NoRow}]
        /\ NoRow \notin Imports!VerificationStatus
    BY DeskBoundsAssumption DEF ImportsInv, ImportsShape
  <2>w. \A w \in Workers : work[w] \in Imports!Work
    BY DEF ImportsRest
  <2>d. DOMAIN work = Workers
    BY DEF ImportsInv, ImportsShape
  <2> DEFINE Keep == \A p \in Profiled : profile[p] # NoRow => profile'[p] # NoRow
             Fits(t) == t \in Imports!Work /\ (t.op = "import" => profile[t.by] # NoRow)
  <2>k. UNCHANGED profile => Keep
    OBVIOUS
  <2>f. \A w \in Workers : Fits(work[w])
    BY DEF ImportsRest
  <2>i. Fits(Imports!Idle)
    BY DEF Imports!Work, Imports!Idle
  <2>t. \A t : t \in Imports!Work /\ t.op = "import" => t.by \in Profiled
    BY DEF Imports!Work, Imports!Idle
  <2>s. ASSUME NEW w \in Workers, NEW t, work' = [work EXCEPT ![w] = t], Fits(t), Keep,
               register' \subseteq Papers, crossed' \subseteq Profiled
        PROVE  ImportsRest'
    <3>1. \A v \in Workers : Fits(work'[v])
      BY <2>s, <2>f, <2>d
    <3>2. \A v \in Workers : /\ work'[v] \in Imports!Work
                             /\ work'[v].op = "import" => profile'[work'[v].by] # NoRow
      BY <3>1, <2>s, <2>t
    <3> QED BY <3>2, <2>s DEF ImportsRest, Imports!Work, Imports!VerificationStatus
  <2>r. register \subseteq Papers /\ crossed \subseteq Profiled
    BY DEF ImportsRest
  <2>o. \A p \in Profiled : \A b : Imports!Overtaken(p, b) => crossed' \subseteq Profiled
    BY <2>r DEF Imports!Overtaken
  <2> HIDE DEF Keep, Fits
  <2>1. ASSUME NEW w \in Workers, NEW p \in Profiled, NEW b \in Branches, Imports!SaveLoad(w, p, b)
        PROVE  ImportsRest'
    <3> DEFINE t == [op |-> "save", by |-> p, seen |-> profile[p],
                     moves |-> b # users[p].department, to |-> b]
    <3>1. Fits(t)
      BY <2>p DEF Fits, Imports!Work
    <3>2. work' = [work EXCEPT ![w] = t] /\ UNCHANGED <<profile, register, crossed>>
      BY <2>1 DEF Imports!SaveLoad, Imports!Begin, Imports!RowsUnchanged
    <3> HIDE DEF t
    <3> QED BY <3>1, <3>2, <2>k, <2>r, <2>s
  <2>2. ASSUME NEW w \in Workers, NEW p \in Profiled, NEW r \in Profiled,
               NEW e \in {"verified", "rejected"}, Imports!VerifyLoad(w, r, p, e)
        PROVE  ImportsRest'
    <3> DEFINE t == [op |-> "verify", of |-> p, looked |-> unseen[p], decision |-> e]
    <3>1. unseen[p] \subseteq Imports!Claims
      BY DEF ImportsInv, ImportsShape
    <3>2. Fits(t)
      BY <3>1 DEF Fits, Imports!Work
    <3>3. work' = [work EXCEPT ![w] = t] /\ UNCHANGED <<profile, register, crossed>>
      BY <2>2 DEF Imports!VerifyLoad, Imports!Begin, Imports!RowsUnchanged
    <3> HIDE DEF t
    <3> QED BY <3>2, <3>3, <2>k, <2>r, <2>s
  <2>3. ASSUME NEW w \in Workers, NEW p \in Profiled, NEW wanted \in BOOLEAN,
               NEW found \in SUBSET Papers, Imports!ImportLoad(w, p, wanted, found)
        PROVE  ImportsRest'
    <3> DEFINE t == [op |-> "import", by |-> p, seen |-> profile[p], todo |-> found,
                     pending |-> wanted, applied |-> wanted, imported |-> FALSE]
    <3>1. profile[p] \in Imports!VerificationStatus /\ profile[p] # NoRow
      BY <2>3, <2>p DEF Imports!ImportLoad
    <3>2. Fits(t)
      BY <3>1 DEF Fits, Imports!Work
    <3>3. work' = [work EXCEPT ![w] = t] /\ UNCHANGED <<profile, register, crossed>>
      BY <2>3 DEF Imports!ImportLoad, Imports!Begin, Imports!RowsUnchanged
    <3> HIDE DEF t
    <3> QED BY <3>2, <3>3, <2>k, <2>r, <2>s
  <2>4. ASSUME NEW w \in Workers, Imports!SaveCommit(w) PROVE ImportsRest'
    <3>1. work[w].by \in Profiled
      BY <2>4, <2>w DEF Imports!SaveCommit, Imports!Work, Imports!Idle
    <3>2. \E status \in Imports!VerificationStatus :
              profile' = [profile EXCEPT ![work[w].by] = status] \/ profile' = profile
      BY <2>4, <2>p DEF Imports!SaveCommit, Imports!Submitted, Imports!VerificationStatus
    <3>3. Keep
      BY <3>2, <2>p DEF Keep
    <3>4. crossed' \subseteq Profiled
      BY <2>4, <3>1, <2>o DEF Imports!SaveCommit
    <3>5. work' = [work EXCEPT ![w] = Imports!Idle] /\ register' = register
      BY <2>4 DEF Imports!SaveCommit, Imports!End
    <3> QED BY <3>3, <3>4, <3>5, <2>i, <2>r, <2>s
  <2>5. ASSUME NEW w \in Workers, Imports!VerifyCommit(w) PROVE ImportsRest'
    <3>1. work[w].of \in Profiled /\ work[w].decision \in {"verified", "rejected"}
      BY <2>5, <2>w DEF Imports!VerifyCommit, Imports!Work, Imports!Idle
    <3>2. profile' = [profile EXCEPT ![work[w].of] = work[w].decision]
      BY <2>5 DEF Imports!VerifyCommit
    <3>3. Keep
      BY <3>1, <3>2, <2>p DEF Keep, Imports!VerificationStatus
    <3>4. crossed' \subseteq Profiled
      BY <2>5, <3>1, <2>o DEF Imports!VerifyCommit
    <3>5. work' = [work EXCEPT ![w] = Imports!Idle] /\ register' = register
      BY <2>5 DEF Imports!VerifyCommit, Imports!End
    <3> QED BY <3>3, <3>4, <3>5, <2>i, <2>r, <2>s
  <2>6. ASSUME NEW w \in Workers, Imports!ImportCommit(w) PROVE ImportsRest'
    <3>1. work[w].by \in Profiled
      BY <2>6, <2>w, <2>t DEF Imports!ImportCommit, Imports!Importing
    <3>2. profile' = profile \/ profile' = [profile EXCEPT ![work[w].by] = "pending"]
      BY <2>6, <2>p DEF Imports!ImportCommit
    <3>3. Keep
      BY <3>1, <3>2, <2>p DEF Keep, Imports!VerificationStatus
    <3>4. crossed' \subseteq Profiled
      BY <2>6, <3>1, <2>o DEF Imports!ImportCommit
    <3>5. work' = [work EXCEPT ![w] = Imports!Idle] /\ register' = register
      BY <2>6 DEF Imports!ImportCommit, Imports!End
    <3> QED BY <3>3, <3>4, <3>5, <2>i, <2>r, <2>s
  <2>7. ASSUME NEW w \in Workers, Imports!Break(w) PROVE ImportsRest'
    <3>1. crossed' \subseteq Profiled
      BY <2>7, <2>w, <2>t, <2>o, <2>r DEF Imports!Break, Imports!Importing
    <3>2. work' = [work EXCEPT ![w] = Imports!Idle] /\ UNCHANGED <<profile, register>>
      BY <2>7 DEF Imports!Break, Imports!End, Imports!RowsUnchanged
    <3> QED BY <3>1, <3>2, <2>i, <2>k, <2>r, <2>s
  <2>8. ASSUME NEW w \in Workers, NEW k \in Papers,
               Imports!PassOver(w, k) \/ Imports!Enter(w, k) \/ Imports!Refuse(w, k)
        PROVE  ImportsRest'
    <3> DEFINE old == work[w]
    <3>1. /\ old \in [op : {"import"}, by : Profiled, seen : Imports!VerificationStatus,
                      todo : SUBSET Papers, pending : BOOLEAN, applied : BOOLEAN,
                      imported : BOOLEAN]
          /\ profile[old.by] # NoRow
      BY <2>8, <2>f DEF Fits, Imports!PassOver, Imports!Enter, Imports!Refuse, Imports!Importing,
           Imports!Work, Imports!Idle
    <3>2. profile[old.by] \in Imports!VerificationStatus
      BY <3>1, <2>p
    <3>3. PICK t : /\ work' = [work EXCEPT ![w] = t]
                   /\ \/ t = [old EXCEPT !.todo = @ \ {k}]
                      \/ t = [old EXCEPT !.todo = @ \ {k}, !.pending = FALSE, !.imported = TRUE]
                      \/ t = [old EXCEPT !.todo = @ \ {k}, !.pending = FALSE,
                                         !.seen = profile[old.by]]
      BY <2>8, <2>d DEF Imports!PassOver, Imports!Enter, Imports!Refuse
    <3>4. /\ t \in [op : {"import"}, by : Profiled, seen : Imports!VerificationStatus,
                    todo : SUBSET Papers, pending : BOOLEAN, applied : BOOLEAN,
                    imported : BOOLEAN]
          /\ t.by = old.by
      BY <3>1, <3>2, <3>3
    <3>5. Fits(t)
      BY <3>1, <3>4 DEF Fits, Imports!Work
    <3>6. UNCHANGED <<profile, crossed>> /\ register' \subseteq Papers
      BY <2>8, <2>r DEF Imports!PassOver, Imports!Enter, Imports!Refuse, Imports!RowsUnchanged
    <3> QED BY <3>3, <3>5, <3>6, <2>k, <2>r, <2>s
  <2>9. CASE UNCHANGED <<users, Imports!importVars>>
    BY <2>9 DEF Imports!importVars, ImportsRest, Imports!Work, Imports!VerificationStatus
  <2> QED BY <2>1, <2>2, <2>3, <2>4, <2>5, <2>6, <2>7, <2>8, <2>9 DEF Imports!Next
<1> QED BY <1>1, <1>2, <1>3

MergeRest ==
    /\ Len(works) <= MaxWorks
    /\ byDoi = [e \in SourceDois |-> byDoi[e]]
    /\ entries \subseteq Merge!Merged /\ todo \subseteq Merge!Merged
    /\ ticked \subseteq {Merge!Key(m) : m \in Merge!MergeWorks}

LEMMA SameWorksMerged ==
    ASSUME UNCHANGED <<works, groups>> PROVE Merge!MergeWorks' = Merge!MergeWorks
<1>1. works' = works /\ groups' = groups
  OBVIOUS
<1>2. \A g : Merge!Fold(groups[g])' = Merge!Fold(groups[g])
  BY <1>1 DEF Merge!Fold, Merge!Pick
<1> QED BY <1>1, <1>2 DEF Merge!MergeWorks

LEMMA MergeTypes ==
    /\ Merge!Init => MergeRest
    /\ MergeInv /\ MergeRest => Merge!TypeOK
    /\ MergeInv /\ MergeRest /\ (Merge!Next \/ UNCHANGED mergeOwn) => MergeRest'
<1>0. MaxWorks \in Nat
  BY DeskBoundsAssumption
<1>1. Merge!Init => MergeRest
  BY <1>0 DEF Merge!Init, MergeRest
<1>2. ASSUME MergeInv, MergeRest PROVE Merge!TypeOK
  <2>1. Len(works) \in Nat /\ Len(works) <= MaxWorks /\ works \in Seq(Merge!Record)
    BY <1>2 DEF MergeInv, MergeShape, MergeRest
  <2>2. groups \in Seq(SUBSET (1 .. MaxWorks))
    <3>1. groups \in Seq(SUBSET (1 .. Len(works)))
      BY <1>2 DEF MergeInv, MergeShape
    <3>2. SUBSET (1 .. Len(works)) \subseteq SUBSET (1 .. MaxWorks)
      BY <1>0, <2>1
    <3> DEFINE S == SUBSET (1 .. Len(works))
               T == SUBSET (1 .. MaxWorks)
    <3>3. groups \in Seq(S) /\ S \subseteq T
      BY <3>1, <3>2
    <3>4. groups \in Seq(T)
      <4> HIDE DEF S, T
      <4> QED BY <3>3
    <3> QED BY <3>4
  <2>3. byDoi \in [SourceDois -> {NoRow} \cup DOMAIN groups]
    <3>1. DOMAIN groups = 1 .. Len(groups) /\ DOMAIN byDoi = SourceDois
      BY <1>2 DEF MergeInv, MergeShape
    <3>2. \A e \in SourceDois : byDoi[e] \in {NoRow} \cup DOMAIN groups
      BY <1>2, <3>1 DEF MergeInv, DoisNoted
    <3>3. byDoi = [e \in SourceDois |-> byDoi[e]]
      BY <1>2 DEF MergeRest
    <3> QED BY <3>2, <3>3
  <2> QED BY <1>2, <2>1, <2>2, <2>3 DEF MergeRest, Merge!TypeOK
<1>3. ASSUME MergeInv, MergeRest, Merge!Next \/ UNCHANGED mergeOwn PROVE MergeRest'
  <2> USE <1>3
  <2> DEFINE Keys == {Merge!Key(m) : m \in Merge!MergeWorks}
  <2>m. Merge!MergeWorks \subseteq Merge!Merged
    BY FoldIsMerged DEF MergeInv
  <2>s. UNCHANGED <<works, groups>> => Keys' = Keys
    BY SameWorksMerged DEF Merge!Key
  <2>b. byDoi = [e \in SourceDois |-> byDoi[e]]
    BY DEF MergeRest
  <2>r. /\ Len(works) <= MaxWorks /\ entries \subseteq Merge!Merged
        /\ todo \subseteq Merge!Merged /\ ticked \subseteq Keys
    BY DEF MergeRest
  <2>q. ASSUME UNCHANGED <<works, groups, byDoi>>, entries' \subseteq Merge!Merged,
               todo' \subseteq Merge!Merged, ticked' \subseteq Keys
        PROVE  MergeRest'
    BY <2>q, <2>s, <2>r, <2>b DEF MergeRest, Merge!Merged
  <2>1. ASSUME NEW r \in Merge!Record, Merge!Gather(r) PROVE MergeRest'
    <3>1. /\ Len(works) < MaxWorks /\ works' = Append(works, r)
          /\ ticked' = {} /\ UNCHANGED <<entries, todo>>
      BY <2>1 DEF Merge!Gather, Merge!Join
    <3>2. Len(works') <= MaxWorks
      BY <1>0, <3>1 DEF MergeInv, MergeShape
    <3>3. byDoi' = [e \in SourceDois |-> byDoi'[e]]
      <4>1. byDoi' = byDoi \/ \E index : byDoi' = [byDoi EXCEPT ![r.doi] = index]
        BY <2>1 DEF Merge!Gather, Merge!Join
      <4> QED BY <2>b, <4>1
    <3> QED BY <2>r, <3>1, <3>2, <3>3 DEF MergeRest, Merge!Merged
  <2>2. ASSUME NEW keys \in SUBSET Keys, Merge!Apply(keys) PROVE MergeRest'
    <3>1. /\ UNCHANGED <<works, groups, byDoi, entries>> /\ ticked' = keys
          /\ todo' \subseteq Merge!MergeWorks
      BY <2>2 DEF Merge!Apply
    <3> QED BY <2>m, <2>q, <2>r, <3>1
  <2>3. ASSUME NEW x \in Merge!MergeWorks, Merge!Enter(x) \/ Merge!EnteredElsewhere(x)
        PROVE  MergeRest'
    <3>1. /\ UNCHANGED <<works, groups, byDoi, ticked>>
          /\ todo' \subseteq todo /\ entries' \subseteq entries \cup {x}
      BY <2>3 DEF Merge!Enter, Merge!EnteredElsewhere
    <3> QED BY <2>m, <2>q, <2>r, <3>1
  <2>4. CASE UNCHANGED mergeOwn
    BY <2>4, <2>q, <2>r DEF mergeOwn
  <2> QED BY <2>1, <2>2, <2>3, <2>4 DEF Merge!Next
<1> QED BY <1>1, <1>2, <1>3

FiguresRest ==
    /\ discoverable \subseteq Observed
    /\ stage \in [Checkpoints -> [status : Figures!MilestoneStatus, due : Nat,
                                  completed : Nat \cup {NoRow}]]
    /\ opening \in [department : Figures!Anywhere,
                    application : {"submitted", "accepted", "rejected"}]
    /\ booking \in [department : Figures!Anywhere, status : {"pending", "approved"}]
    /\ day \in Nat /\ moves \in 0 .. FigureMoves

LEMMA FiguresTypes ==
    /\ Figures!UsersTypeOK /\ Figures!Init => FiguresRest
    /\ FiguresInv /\ FiguresRest => Figures!TypeOK
    /\ FiguresInv /\ FiguresRest
          /\ (Figures!Next \/ UNCHANGED <<discoverable, stage, opening, booking, day, moves>>)
          => FiguresRest'
<1>0. FigureMoves \in Nat
  BY DeskBoundsAssumption
<1>1. ASSUME Figures!UsersTypeOK, Figures!Init PROVE FiguresRest
  <2>1. users \in [Observed -> Figures!UserRow]
    BY <1>1 DEF Figures!UsersTypeOK, Figures!Init, Figures!Exists
  <2>2. PICK owner \in Observed :
            /\ opening = [department |-> users[owner].department, application |-> "submitted"]
            /\ booking = [department |-> users[owner].department, status |-> "pending"]
    BY <1>1 DEF Figures!Init
  <2>3. users[owner].department \in Figures!Anywhere
    BY <2>1 DEF Figures!UserRow, Figures!Anywhere
  <2>4. PICK due \in [Checkpoints -> {1, 3}] :
            stage = [m \in Checkpoints |->
                        [status |-> "pending", due |-> due[m], completed |-> NoRow]]
    BY <1>1 DEF Figures!Init
  <2>5. discoverable = {} /\ day = 1 /\ moves = 0
    BY <1>1 DEF Figures!Init
  <2>6. stage \in [Checkpoints -> [status : Figures!MilestoneStatus, due : Nat,
                                   completed : Nat \cup {NoRow}]]
    BY <2>4 DEF Figures!MilestoneStatus
  <2> QED BY <1>0, <2>2, <2>3, <2>5, <2>6 DEF FiguresRest
<1>2. FiguresInv /\ FiguresRest => Figures!TypeOK
  BY DEF FiguresInv, FiguresRest, Figures!TypeOK, Figures!UsersTypeOK
<1>3. ASSUME FiguresInv, FiguresRest,
             Figures!Next \/ UNCHANGED <<discoverable, stage, opening, booking, day, moves>>
      PROVE  FiguresRest'
  <2> USE <1>3 DEF FiguresRest
  <2>c. Figures!Change => moves' \in 0 .. FigureMoves
    BY <1>0 DEF Figures!Change
  <2> DEFINE Same == UNCHANGED <<discoverable, stage, opening, booking, day>>
  <2>s. Same /\ Figures!Change => FiguresRest'
    BY <2>c DEF Figures!Anywhere, Figures!MilestoneStatus, Figures!SETTLED_STATUSES
  <2>1. ASSUME NEW p \in Observed, Figures!ChangeUser(p) \/ Figures!Save(p) PROVE FiguresRest'
    BY <2>1, <2>s DEF Figures!ChangeUser, Figures!Save
  <2>2. ASSUME NEW p \in Observed, Figures!ChangeProfile(p) PROVE FiguresRest'
    <3>1. /\ discoverable' \subseteq Observed
          /\ UNCHANGED <<stage, opening, booking, day>> /\ Figures!Change
      BY <2>2 DEF Figures!ChangeProfile
    <3> QED BY <3>1, <2>c DEF Figures!Anywhere, Figures!MilestoneStatus, Figures!SETTLED_STATUSES
  <2>3. ASSUME NEW m \in Checkpoints, Figures!ChangeMilestone(m) PROVE FiguresRest'
    <3>1. \/ \E s \in Figures!SETTLED_STATUSES :
                stage' = [stage EXCEPT ![m].status = s,
                              ![m].completed = IF s = "done" THEN day ELSE NoRow]
          \/ stage' = [stage EXCEPT ![m].due = @ + 1]
      BY <2>3 DEF Figures!ChangeMilestone
    <3>2. stage' \in [Checkpoints -> [status : Figures!MilestoneStatus, due : Nat,
                                      completed : Nat \cup {NoRow}]]
      <4>1. CASE stage' = [stage EXCEPT ![m].due = @ + 1]
        BY <4>1
      <4>2. ASSUME NEW s \in Figures!SETTLED_STATUSES, NEW c \in Nat \cup {NoRow},
                   stage' = [stage EXCEPT ![m].status = s, ![m].completed = c]
            PROVE  stage' \in [Checkpoints -> [status : Figures!MilestoneStatus, due : Nat,
                                               completed : Nat \cup {NoRow}]]
        BY <4>2 DEF Figures!MilestoneStatus
      <4> QED BY <3>1, <4>1, <4>2
    <3>3. UNCHANGED <<discoverable, opening, booking, day>> /\ Figures!Change
      BY <2>3 DEF Figures!ChangeMilestone
    <3> QED BY <3>2, <3>3, <2>c DEF Figures!Anywhere, Figures!MilestoneStatus,
            Figures!SETTLED_STATUSES
  <2>4. CASE Figures!ChangeProject
    BY <2>4, <2>s DEF Figures!ChangeProject
  <2>5. CASE Figures!ChangeAuthors \/ Figures!Answered
    BY <2>5, <2>s DEF Figures!ChangeAuthors, Figures!Answered
  <2>6. CASE Figures!Decided
    <3>1. /\ opening' \in [department : Figures!Anywhere,
                           application : {"submitted", "accepted", "rejected"}]
          /\ booking' \in [department : Figures!Anywhere, status : {"pending", "approved"}]
      BY <2>6 DEF Figures!Decided
    <3>2. UNCHANGED <<discoverable, stage, day>> /\ Figures!Change
      BY <2>6 DEF Figures!Decided
    <3> QED BY <3>1, <3>2, <2>c DEF Figures!Anywhere, Figures!MilestoneStatus,
            Figures!SETTLED_STATUSES
  <2>7. CASE Figures!Midnight
    <3>1. day' \in Nat /\ UNCHANGED <<discoverable, stage, opening, booking>> /\ Figures!Change
      BY <2>7 DEF Figures!Midnight
    <3> QED BY <3>1, <2>c DEF Figures!Anywhere, Figures!MilestoneStatus,
            Figures!SETTLED_STATUSES
  <2>8. CASE UNCHANGED <<discoverable, stage, opening, booking, day, moves>>
    BY <2>8 DEF Figures!Anywhere, Figures!MilestoneStatus, Figures!SETTLED_STATUSES
  <2> HIDE DEF FiguresRest
  <2> QED BY <2>1, <2>2, <2>3, <2>4, <2>5, <2>6, <2>7, <2>8 DEF Figures!Next
<1> QED BY <1>1, <1>2, <1>3

\* The number of rows and the newest of their stamps are within their bounds.
LEMMA FingerprintBounded ==
    ASSUME version \in [Texts -> Nat], updatedAt \in [Texts -> 0 .. MaxStamp]
    PROVE  Matching!Fingerprint \in Matching!Fingerprints
<1>1. Matching!Fingerprint = <<Cardinality(StoredIn(version)), NewestIn(version, updatedAt)>>
  BY MatchingCounts DEF Matching!Fingerprint, StoredIn, NewestIn, Matching!Newest
<1>2. /\ StoredIn(version) \subseteq Texts /\ IsFiniteSet(Texts)
      /\ Cardinality(StoredIn(version)) \in Nat
  BY NewestStamp, TextsAssumption
<1>3. Cardinality(StoredIn(version)) <= Cardinality(Texts) /\ Cardinality(Texts) \in Nat
  BY <1>2, FS_Subset, FS_CardinalityType
<1>4. NewestIn(version, updatedAt) \in 0 .. MaxStamp
  <2>1. CASE NewestIn(version, updatedAt) = 0
    BY <2>1, TextsAssumption
  <2>2. CASE \E x \in StoredIn(version) : NewestIn(version, updatedAt) = updatedAt[x]
    BY <1>2, <2>2
  <2> QED BY <2>1, <2>2, NewestStamp
<1>5. Matching!Fingerprints = (0 .. Cardinality(Texts)) \X (0 .. MaxStamp)
  BY MatchingCounts DEF Matching!Fingerprints
<1>6. Cardinality(StoredIn(version)) \in 0 .. Cardinality(Texts)
  BY <1>2, <1>3
<1> QED BY <1>1, <1>4, <1>5, <1>6

\* Nobody saves a text as often as there is room for, and none is queued before it is there.
MatchingRest ==
    /\ version \in Matching!Versions
    /\ queued \subseteq StoredIn(version)
    /\ embedded \in [Texts -> (1 .. MaxSaves) \cup {NoRow}]
    /\ cache \in [fingerprint : Matching!Fingerprints, documents : Matching!Versions] \cup {NoRow}
    /\ ranked \in [stood : Matching!Versions, by : Matching!Versions] \cup {NoRow}
    /\ work \in [Workers -> Matching!Work]
    /\ \A w \in Workers : IsSave(work[w]) => version[work[w].of] < MaxSaves
    /\ behind \subseteq Texts /\ unnoted \subseteq Texts

LEMMA MatchingTypes ==
    /\ Matching!Init => MatchingRest
    /\ MatchingInv /\ MatchingRest => Matching!TypeOK
    /\ MatchingInv /\ MatchingRest /\ (Matching!Next \/ UNCHANGED <<work, clock, matchingOwn>>)
          => MatchingRest'
<1>0. MaxSaves \in Nat /\ MaxStamp \in Nat
  BY DeskBoundsAssumption, TextsAssumption
<1>1. ASSUME Matching!Init PROVE MatchingRest
  <2>1. \A w \in Workers : ~IsSave(work[w])
    BY <1>1 DEF Matching!Init, Matching!Idle, IsSave
  <2> QED BY <1>0, <1>1, <2>1 DEF Matching!Init, MatchingRest, Matching!Versions, Matching!Work
<1>2. MatchingInv /\ MatchingRest => Matching!TypeOK
  BY DEF MatchingInv, MatchingShape, MatchingRest, StoredIn, Matching!TypeOK
<1>3. ASSUME MatchingInv, MatchingRest, Matching!Next \/ UNCHANGED <<work, clock, matchingOwn>>
      PROVE  MatchingRest'
  <2> USE <1>3
  <2> DEFINE V == Matching!Versions
             F == Matching!Fingerprints
             Stores == /\ version' = version
                       /\ queued' \subseteq queued /\ UNCHANGED <<cache, ranked>>
                       /\ behind' \subseteq Texts /\ unnoted' \subseteq Texts
  <2>v. version \in V /\ version \in [Texts -> Nat] /\ V = [Texts -> 0 .. MaxSaves]
    BY <1>0 DEF MatchingRest, Matching!Versions
  <2>u. updatedAt \in [Texts -> 0 .. MaxStamp]
    BY DEF MatchingInv, MatchingShape
  <2>f. Matching!Fingerprint \in F
    BY <2>v, <2>u, FingerprintBounded
  <2>w. work \in [Workers -> Matching!Work]
    BY DEF MatchingRest
  <2>m. \A w \in Workers : IsSave(work[w]) => work[w].of \in Texts /\ version[work[w].of] < MaxSaves
    BY DEF MatchingRest, MatchingInv, MatchingShape, SaveStands
  <2>e. embedded \in [Texts -> (1 .. MaxSaves) \cup {NoRow}]
    BY DEF MatchingRest
  <2>q. queued \subseteq StoredIn(version)
    BY DEF MatchingRest
  <2>b. behind \subseteq Texts /\ unnoted \subseteq Texts
    BY DEF MatchingRest
  <2>s. ASSUME NEW w \in Workers, NEW t \in Matching!Work, work' = [work EXCEPT ![w] = t],
               IsSave(t) => version[t.of] < MaxSaves, version' = version,
               queued' \subseteq queued,
               embedded' \in [Texts -> (1 .. MaxSaves) \cup {NoRow}],
               cache' \in [fingerprint : F, documents : V] \cup {NoRow},
               ranked' \in [stood : V, by : V] \cup {NoRow},
               behind' \subseteq Texts, unnoted' \subseteq Texts
        PROVE  MatchingRest'
    <3>1. work' \in [Workers -> Matching!Work]
      BY <2>s, <2>w
    <3>2. \A v \in Workers : IsSave(work'[v]) => version'[work'[v].of] < MaxSaves
      BY <2>s, <2>w, <2>m
    <3>3. queued' \subseteq StoredIn(version')
      BY <2>s, <2>q
    <3>4. version' \in V
      BY <2>s, <2>v
    <3> QED BY <2>s, <3>1, <3>2, <3>3, <3>4
            DEF MatchingRest, IsSave, Matching!Versions, Matching!Fingerprints, Matching!Work
  <2>c. /\ cache \in [fingerprint : F, documents : V] \cup {NoRow}
        /\ ranked \in [stood : V, by : V] \cup {NoRow}
    BY DEF MatchingRest
  <2>i. Matching!Idle \in Matching!Work /\ ~IsSave(Matching!Idle)
    BY DEF Matching!Work, Matching!Idle, IsSave
  <2>1. ASSUME NEW w \in Workers, NEW x \in Texts, NEW queues \in BOOLEAN,
               Matching!SaveLoad(w, x, queues)
        PROVE  MatchingRest'
    <3> DEFINE t == [op |-> "save", of |-> x, began |-> clock, queues |-> queues]
    <3>1. t \in Matching!Work /\ t.of = x
      BY DEF Matching!Work, MatchingInv, MatchingShape
    <3>2. /\ work' = [work EXCEPT ![w] = t] /\ version[x] < MaxSaves
          /\ UNCHANGED <<version, queued, embedded, cache, ranked, behind, unnoted>>
      BY <2>1 DEF Matching!SaveLoad, Matching!Begin
    <3> HIDE DEF t
    <3> QED BY <3>1, <3>2, <2>s, <2>e, <2>c, <2>b
  <2>2. ASSUME NEW w \in Workers, Matching!SaveCommit(w) PROVE MatchingRest'
    <3> DEFINE x == work[w].of
    <3>1. IsSave(work[w]) /\ x \in Texts /\ version[x] \in Nat /\ version[x] < MaxSaves
      BY <2>2, <2>m, <2>v DEF Matching!SaveCommit, IsSave
    <3>2. /\ version' = [version EXCEPT ![x] = @ + 1]
          /\ queued' \subseteq queued \cup {x}
          /\ behind' \subseteq behind \cup {x} /\ unnoted' \subseteq unnoted \cup {x}
          /\ work' = [work EXCEPT ![w] = Matching!Idle]
          /\ UNCHANGED <<embedded, cache, ranked>>
      BY <2>2 DEF Matching!SaveCommit, Matching!End
    <3>3. version' \in V
      BY <1>0, <3>1, <3>2, <2>v
    <3>4. queued' \subseteq StoredIn(version')
      BY <3>1, <3>2, <2>q, <2>v DEF StoredIn
    <3>5. work' \in [Workers -> Matching!Work]
      BY <3>2, <2>w, <2>i
    <3>6. ASSUME NEW v \in Workers, IsSave(work'[v]) PROVE version'[work'[v].of] < MaxSaves
      <4>1. v # w /\ work'[v] = work[v]
        BY <3>2, <3>6, <2>i, <2>w
      <4>2. work[v].of \in Texts /\ work[v].of # x
        BY <3>1, <3>6, <4>1, <2>m DEF MatchingInv, MatchingShape
      <4> QED BY <3>2, <3>6, <4>1, <4>2, <2>m, <2>v
    <3> HIDE DEF x
    <3> QED BY <3>1, <3>2, <3>3, <3>4, <3>5, <3>6, <2>e, <2>c, <2>b
            DEF MatchingRest, IsSave, Matching!Versions, Matching!Fingerprints, Matching!Work
  <2>3. ASSUME NEW w \in Workers, NEW x \in Texts, Matching!EmbedRead(w, x) PROVE MatchingRest'
    <3>1. x \in StoredIn(version) /\ version[x] \in 1 .. MaxSaves
      BY <1>0, <2>3, <2>q, <2>v DEF Matching!EmbedRead, StoredIn
    <3> DEFINE t == [op |-> "embed", of |-> x, read |-> version[x], row |-> embedded[x]]
    <3>2. t \in Matching!Work /\ ~IsSave(t)
      BY <3>1, <2>e DEF Matching!Work, IsSave
    <3>3. /\ UNCHANGED <<version, embedded, cache, ranked, behind, unnoted>>
          /\ queued' \subseteq queued
          /\ work' = work \/ work' = [work EXCEPT ![w] = t]
      BY <2>3 DEF Matching!EmbedRead, Matching!Begin
    <3>4. PICK u \in Matching!Work : /\ work' = [work EXCEPT ![w] = u]
                                     /\ IsSave(u) => version[u.of] < MaxSaves
      <4> HIDE DEF t
      <4>1. work = [work EXCEPT ![w] = work[w]] /\ work[w] \in Matching!Work
        BY <2>w
      <4> QED BY <3>2, <3>3, <4>1, <2>m
    <3> QED BY <3>3, <3>4, <2>s, <2>e, <2>c, <2>b
  <2>4. ASSUME NEW w \in Workers, Matching!EmbedWrite(w) PROVE MatchingRest'
    <3>1. work[w].of \in Texts /\ work[w].read \in 1 .. MaxSaves
      BY <2>4, <2>w DEF Matching!EmbedWrite, Matching!Work, Matching!Idle
    <3>2. /\ \/ embedded' = embedded
             \/ embedded' = [embedded EXCEPT ![work[w].of] = work[w].read]
          /\ behind' \subseteq behind \cup {work[w].of}
          /\ work' = [work EXCEPT ![w] = Matching!Idle]
          /\ UNCHANGED <<version, queued, cache, ranked, unnoted>>
      <4>1. embedded' = [embedded EXCEPT ![work[w].of] = embedded[work[w].of]]
            \/ embedded' = [embedded EXCEPT ![work[w].of] = work[w].read]
        BY <2>4 DEF Matching!EmbedWrite
      <4> QED BY <2>4, <4>1, <2>e DEF Matching!EmbedWrite, Matching!End
    <3>3. embedded' \in [Texts -> (1 .. MaxSaves) \cup {NoRow}]
      BY <3>1, <3>2, <2>e
    <3> QED BY <3>1, <3>2, <3>3, <2>s, <2>i, <2>c, <2>b
  <2>5. ASSUME NEW w \in Workers, Matching!Ask(w) PROVE MatchingRest'
    <3> DEFINE t == [op |-> "ask", fingerprint |-> Matching!Fingerprint, stood |-> version]
    <3>1. t \in Matching!Work /\ ~IsSave(t)
      BY <2>f, <2>v DEF Matching!Work, IsSave
    <3>2. /\ work' = [work EXCEPT ![w] = t]
          /\ UNCHANGED <<version, queued, embedded, cache, ranked, behind, unnoted>>
      BY <2>5 DEF Matching!Ask, Matching!Begin
    <3> HIDE DEF t
    <3> QED BY <3>1, <3>2, <2>s, <2>e, <2>c, <2>b
  <2>6. ASSUME NEW w \in Workers, Matching!Look(w) PROVE MatchingRest'
    <3>1. work[w].fingerprint \in F /\ work[w].stood \in V
      BY <2>6, <2>w DEF Matching!Look, Matching!Work, Matching!Idle
    <3>u. UNCHANGED <<version, queued, embedded, cache, behind, unnoted>>
      BY <2>6 DEF Matching!Look
    <3>2. CASE Matching!SameFingerprint(work[w].fingerprint)
      <4>1. cache.documents \in V
        BY <3>2, <2>c DEF Matching!SameFingerprint
      <4>2. /\ ranked' = [stood |-> work[w].stood, by |-> cache.documents]
            /\ work' = [work EXCEPT ![w] = Matching!Idle]
        BY <2>6, <3>2 DEF Matching!Look, Matching!End
      <4>3. ranked' \in [stood : V, by : V] \cup {NoRow}
        BY <3>1, <4>1, <4>2
      <4> QED BY <3>u, <4>2, <4>3, <2>s, <2>i, <2>e, <2>c, <2>b
    <3>3. CASE ~Matching!SameFingerprint(work[w].fingerprint)
      <4> DEFINE t == [op |-> "build", fingerprint |-> work[w].fingerprint,
                       stood |-> work[w].stood, documents |-> version]
      <4>1. t \in Matching!Work /\ ~IsSave(t)
        BY <3>1, <2>v DEF Matching!Work, IsSave
      <4>2. work' = [work EXCEPT ![w] = t] /\ ranked' = ranked
        BY <2>6, <3>3 DEF Matching!Look
      <4> HIDE DEF t
      <4> QED BY <3>u, <4>1, <4>2, <2>s, <2>e, <2>c, <2>b
    <3> QED BY <3>2, <3>3
  <2>7. ASSUME NEW w \in Workers, Matching!Build(w) PROVE MatchingRest'
    <3>1. work[w].fingerprint \in F /\ work[w].stood \in V /\ work[w].documents \in V
      BY <2>7, <2>w DEF Matching!Build, Matching!Work, Matching!Idle
    <3>2. /\ cache' = [fingerprint |-> work[w].fingerprint, documents |-> work[w].documents]
          /\ ranked' = [stood |-> work[w].stood, by |-> work[w].documents]
          /\ work' = [work EXCEPT ![w] = Matching!Idle]
          /\ UNCHANGED <<version, queued, embedded, behind, unnoted>>
      BY <2>7 DEF Matching!Build, Matching!End
    <3>3. /\ cache' \in [fingerprint : F, documents : V] \cup {NoRow}
          /\ ranked' \in [stood : V, by : V] \cup {NoRow}
      BY <3>1, <3>2
    <3> QED BY <3>2, <3>3, <2>s, <2>i, <2>e, <2>b
  <2>8. CASE Matching!Restart
    <3>1. /\ UNCHANGED <<version, embedded, ranked, unnoted>> /\ queued' = {} /\ cache' = NoRow
          /\ work' = [w \in Workers |-> Matching!Idle]
      BY <2>8 DEF Matching!Restart
    <3>2. behind' \subseteq Texts
      BY <2>8, <2>b, <2>q DEF Matching!Restart, StoredIn
    <3>3. /\ work' \in [Workers -> Matching!Work]
          /\ \A w \in Workers : ~IsSave(work'[w])
      BY <3>1, <2>i
    <3> QED BY <3>1, <3>2, <3>3, <2>v, <2>e, <2>c, <2>b
            DEF MatchingRest, IsSave, Matching!Versions, Matching!Fingerprints, Matching!Work
  <2>9. CASE Matching!Backfill
    <3>1. /\ UNCHANGED <<version, queued, cache, ranked, work, unnoted>> /\ behind' = {}
          /\ embedded' = [x \in Texts |-> IF version[x] = 0 \/ Matching!Unchanged(x)
                                          THEN embedded[x] ELSE version[x]]
      BY <2>9 DEF Matching!Backfill
    <3>2. embedded' \in [Texts -> (1 .. MaxSaves) \cup {NoRow}]
      BY <1>0, <3>1, <2>e, <2>v
    <3> QED BY <3>1, <3>2, <2>v, <2>q, <2>w, <2>c, <2>b, <2>m
            DEF MatchingRest, IsSave, StoredIn, Matching!Versions, Matching!Fingerprints,
                Matching!Work
  <2>10. CASE Matching!Tick \/ UNCHANGED <<work, clock, matchingOwn>>
    <3>1. UNCHANGED <<version, queued, embedded, cache, ranked, work, behind, unnoted>>
      BY <2>10 DEF Matching!Tick, matchingOwn
    <3> QED BY <3>1, <2>v, <2>e, <2>q, <2>w, <2>c, <2>b, <2>m
            DEF MatchingRest, IsSave, StoredIn, Matching!Versions, Matching!Fingerprints,
                Matching!Work
  <2> QED BY <2>1, <2>2, <2>3, <2>4, <2>5, <2>6, <2>7, <2>8, <2>9, <2>10 DEF Matching!Next
<1> QED BY <1>1, <1>2, <1>3
----------------------------------------------------------------------------
(* The types of the parts, and of the desk *)

LEMMA RequestsTyped == Spec => [](part = "requests" => Requests!TypeOK)
<1>1. Init => (part = "requests" => RequestsRest)
  BY RequestsRuns, RequestsTypes
<1>2. (part = "requests" => RequestsInv) /\ (part = "requests" => RequestsRest) /\ [Next]_vars
      => (part = "requests" => RequestsRest)'
  <2> SUFFICES ASSUME part = "requests" => RequestsInv, part = "requests" => RequestsRest, [Next]_vars,
                      part' = "requests"
               PROVE  RequestsRest'
    OBVIOUS
  <2>1. part = "requests"
    BY DEF Next, vars
  <2> QED BY <2>1, RequestsRuns, RequestsTypes
<1>3. (part = "requests" => RequestsInv) /\ (part = "requests" => RequestsRest) => (part = "requests" => Requests!TypeOK)
  BY RequestsTypes
<1> QED BY <1>1, <1>2, <1>3, RequestsHold, PTL DEF Spec

LEMMA BoardTyped == Spec => [](part = "board" => Board!TypeOK)
<1>1. Init => (part = "board" => BoardRest)
  BY BoardRuns, BoardTypes
<1>2. (part = "board" => BoardInv) /\ (part = "board" => BoardRest) /\ [Next]_vars
      => (part = "board" => BoardRest)'
  <2> SUFFICES ASSUME part = "board" => BoardInv, part = "board" => BoardRest, [Next]_vars,
                      part' = "board"
               PROVE  BoardRest'
    OBVIOUS
  <2>1. part = "board"
    BY DEF Next, vars
  <2> QED BY <2>1, BoardRuns, BoardTypes
<1>3. (part = "board" => BoardInv) /\ (part = "board" => BoardRest) => (part = "board" => Board!TypeOK)
  BY BoardTypes
<1> QED BY <1>1, <1>2, <1>3, BoardHold, PTL DEF Spec

LEMMA NudgesTyped == Spec => [](part = "nudges" => Nudges!TypeOK)
<1>1. Init => (part = "nudges" => NudgesRest)
  BY NudgesRuns, NudgesTypes
<1>2. (part = "nudges" => NudgesInv) /\ (part = "nudges" => NudgesRest) /\ [Next]_vars
      => (part = "nudges" => NudgesRest)'
  <2> SUFFICES ASSUME part = "nudges" => NudgesInv, part = "nudges" => NudgesRest, [Next]_vars,
                      part' = "nudges"
               PROVE  NudgesRest'
    OBVIOUS
  <2>1. part = "nudges"
    BY DEF Next, vars
  <2> QED BY <2>1, NudgesRuns, NudgesTypes
<1>3. (part = "nudges" => NudgesInv) /\ (part = "nudges" => NudgesRest) => (part = "nudges" => Nudges!TypeOK)
  BY NudgesTypes
<1> QED BY <1>1, <1>2, <1>3, NudgesHold, PTL DEF Spec

LEMMA AccountsTyped == Spec => [](part = "accounts" => Accounts!TypeOK)
<1>1. Init => (part = "accounts" => AccountsRest)
  BY AccountsRuns, AccountsTypes
<1>2. (part = "accounts" => AccountsInv) /\ (part = "accounts" => AccountsRest) /\ [Next]_vars
      => (part = "accounts" => AccountsRest)'
  <2> SUFFICES ASSUME part = "accounts" => AccountsInv, part = "accounts" => AccountsRest, [Next]_vars,
                      part' = "accounts"
               PROVE  AccountsRest'
    OBVIOUS
  <2>1. part = "accounts"
    BY DEF Next, vars
  <2> QED BY <2>1, AccountsRuns, AccountsTypes, RolesAssumption
<1>3. (part = "accounts" => AccountsInv) /\ (part = "accounts" => AccountsRest) => (part = "accounts" => Accounts!TypeOK)
  BY AccountsTypes
<1> QED BY <1>1, <1>2, <1>3, AccountsHold, PTL DEF Spec

LEMMA SessionsTyped == Spec => [](part = "sessions" => Sessions!TypeOK)
<1>1. Init => (part = "sessions" => SessionsRest)
  BY SessionsRuns, SessionsTypes
<1>2. (part = "sessions" => SessionsInv) /\ (part = "sessions" => SessionsRest) /\ [Next]_vars
      => (part = "sessions" => SessionsRest)'
  <2> SUFFICES ASSUME part = "sessions" => SessionsInv, part = "sessions" => SessionsRest, [Next]_vars,
                      part' = "sessions"
               PROVE  SessionsRest'
    OBVIOUS
  <2>1. part = "sessions"
    BY DEF Next, vars
  <2> QED BY <2>1, SessionsRuns, SessionsTypes
<1>3. (part = "sessions" => SessionsInv) /\ (part = "sessions" => SessionsRest) => (part = "sessions" => Sessions!TypeOK)
  BY SessionsTypes
<1> QED BY <1>1, <1>2, <1>3, SessionsHold, PTL DEF Spec

LEMMA RegisterTyped == Spec => [](part = "register" => Register!TypeOK)
<1>1. Init => (part = "register" => RegisterRest)
  BY RegisterRuns, RegisterTypes
<1>2. (part = "register" => RegisterInv) /\ (part = "register" => RegisterRest) /\ [Next]_vars
      => (part = "register" => RegisterRest)'
  <2> SUFFICES ASSUME part = "register" => RegisterInv, part = "register" => RegisterRest, [Next]_vars,
                      part' = "register"
               PROVE  RegisterRest'
    OBVIOUS
  <2>1. part = "register"
    BY DEF Next, vars
  <2> QED BY <2>1, RegisterRuns, RegisterTypes
<1>3. (part = "register" => RegisterInv) /\ (part = "register" => RegisterRest) => (part = "register" => Register!TypeOK)
  BY RegisterTypes
<1> QED BY <1>1, <1>2, <1>3, RegisterHold, PTL DEF Spec

LEMMA ImportsTyped == Spec => [](part = "imports" => Imports!TypeOK)
<1>1. Init => (part = "imports" => ImportsRest)
  BY ImportsRuns, ImportsTypes
<1>2. (part = "imports" => ImportsInv) /\ (part = "imports" => ImportsRest) /\ [Next]_vars
      => (part = "imports" => ImportsRest)'
  <2> SUFFICES ASSUME part = "imports" => ImportsInv, part = "imports" => ImportsRest, [Next]_vars,
                      part' = "imports"
               PROVE  ImportsRest'
    OBVIOUS
  <2>1. part = "imports"
    BY DEF Next, vars
  <2> QED BY <2>1, ImportsRuns, ImportsTypes
<1>3. (part = "imports" => ImportsInv) /\ (part = "imports" => ImportsRest) => (part = "imports" => Imports!TypeOK)
  BY ImportsTypes
<1> QED BY <1>1, <1>2, <1>3, ImportsHold, PTL DEF Spec

LEMMA FiguresTyped == Spec => [](part = "figures" => Figures!TypeOK)
<1>1. Init => (part = "figures" => FiguresRest)
  BY FiguresRuns, FiguresTypes
<1>2. (part = "figures" => FiguresInv) /\ (part = "figures" => FiguresRest) /\ [Next]_vars
      => (part = "figures" => FiguresRest)'
  <2> SUFFICES ASSUME part = "figures" => FiguresInv, part = "figures" => FiguresRest, [Next]_vars,
                      part' = "figures"
               PROVE  FiguresRest'
    OBVIOUS
  <2>1. part = "figures"
    BY DEF Next, vars
  <2>2. Figures!Next \/ UNCHANGED <<discoverable, stage, opening, booking, day, moves>>
    <3>1. CASE Next
      BY <2>1, <3>1 DEF Next
    <3>2. CASE UNCHANGED vars
      BY <3>2 DEF vars, figureOwn
    <3> QED BY <3>1, <3>2
  <2> QED BY <2>1, <2>2, FiguresTypes
<1>3. (part = "figures" => FiguresInv) /\ (part = "figures" => FiguresRest) => (part = "figures" => Figures!TypeOK)
  BY FiguresTypes
<1> QED BY <1>1, <1>2, <1>3, FiguresHold, PTL DEF Spec

LEMMA MatchingTyped == Spec => [](part = "matching" => Matching!TypeOK)
<1>1. Init => (part = "matching" => MatchingRest)
  BY MatchingRuns, MatchingTypes
<1>2. (part = "matching" => MatchingInv) /\ (part = "matching" => MatchingRest) /\ [Next]_vars
      => (part = "matching" => MatchingRest)'
  <2> SUFFICES ASSUME part = "matching" => MatchingInv, part = "matching" => MatchingRest, [Next]_vars,
                      part' = "matching"
               PROVE  MatchingRest'
    OBVIOUS
  <2>1. part = "matching"
    BY DEF Next, vars
  <2> QED BY <2>1, MatchingRuns, MatchingTypes
<1>3. (part = "matching" => MatchingInv) /\ (part = "matching" => MatchingRest) => (part = "matching" => Matching!TypeOK)
  BY MatchingTypes
<1> QED BY <1>1, <1>2, <1>3, MatchingHold, PTL DEF Spec

LEMMA MergeTyped == Spec => [](part = "merge" => Merge!TypeOK)
<1>1. Init => (part = "merge" => MergeRest)
  BY MergeRuns, MergeTypes
<1>2. (part = "merge" => MergeInv) /\ (part = "merge" => MergeRest) /\ [Next]_vars
      => (part = "merge" => MergeRest)'
  <2> SUFFICES ASSUME part = "merge" => MergeInv, part = "merge" => MergeRest, [Next]_vars,
                      part' = "merge"
               PROVE  MergeRest'
    OBVIOUS
  <2>1. part = "merge"
    BY DEF Next, vars
  <2> QED BY <2>1, MergeRuns, MergeTypes
<1>3. (part = "merge" => MergeInv) /\ (part = "merge" => MergeRest) => (part = "merge" => Merge!TypeOK)
  BY MergeTypes
<1> QED BY <1>1, <1>2, <1>3, MergeHold, PTL DEF Spec

LEMMA RemindersTyped == Spec => [](part = "reminders" => Reminders!TypeOK)
<1>1. Init => (part = "reminders" => Reminders!TypeOK)
  BY RemindersRuns, RemindersTypes
<1>2. (part = "reminders" => RemindersInv) /\ (part = "reminders" => Reminders!TypeOK) /\ [Next]_vars
      => (part = "reminders" => Reminders!TypeOK)'
  <2> SUFFICES ASSUME part = "reminders" => RemindersInv, part = "reminders" => Reminders!TypeOK, [Next]_vars,
                      part' = "reminders"
               PROVE  Reminders!TypeOK'
    OBVIOUS
  <2>1. part = "reminders"
    BY DEF Next, vars
  <2> QED BY <2>1, RemindersRuns, RemindersTypes
<1> QED BY <1>1, <1>2, RemindersHold, PTL DEF Spec

\* Every row of every component at the desk has the columns and the values the code gives it:
\* the counts stay within their limits (an account's attempts, a rate limit's window), every
\* row refers to rows there are, and no stored choice is one the code does not know.
THEOREM DeskKeepsItsTypes == Spec => []TypeOK
<1>1. (part = "throttle" => ThrottleInv) => (part = "throttle" => Throttle!TypeOK)
  BY DEF ThrottleInv
<1>2. /\ (part = "requests" => Requests!TypeOK)
      /\ (part = "board" => Board!TypeOK)
      /\ (part = "nudges" => Nudges!TypeOK)
      /\ (part = "reminders" => Reminders!TypeOK)
      /\ (part = "accounts" => Accounts!TypeOK)
      /\ (part = "sessions" => Sessions!TypeOK)
      /\ (part = "throttle" => Throttle!TypeOK)
      /\ (part = "register" => Register!TypeOK)
      /\ (part = "imports" => Imports!TypeOK)
      /\ (part = "merge" => Merge!TypeOK)
      /\ (part = "figures" => Figures!TypeOK)
      /\ (part = "matching" => Matching!TypeOK)
      => TypeOK
  BY DEF TypeOK
<1> QED BY <1>1, <1>2, RequestsTyped, BoardTyped, NudgesTyped, RemindersTyped, AccountsTyped,
          SessionsTyped, ThrottleHold, RegisterTyped, ImportsTyped, MergeTyped, FiguresTyped,
          MatchingTyped, PTL
=============================================================================
