----------------------------- MODULE SettingsProofs -----------------------------
(***************************************************************************)
(* The storage of a dedicated database never shrinks, and a request that   *)
(* is reported successful is in force, whatever plans and parameters are   *)
(* and whatever RDS takes for it. Versions whose numbers have as many      *)
(* digits are upgraded without a refusal.                                  *)
(***************************************************************************)
EXTENDS Settings, SequenceTheorems, TLAPS

\* The settings of the database are complete from Provision on, and RDS is never
\* asked for less storage than there is.
SettingsAreComplete ==
    \/ settings = None /\ target = None
    \/ settings \in Settings /\ target \in Settings /\ target.storage >= settings.storage

\* What the broker asks for: details made of a plan are settings.
LEMMA DetailsAreSettings ==
    ASSUME NEW p \in Plans, NEW r \in Retentions \cup {None}
    PROVE  WithParameters(FromPlan(p), r) \in Settings
<1>1. p \in Plan /\ (r \in Nat \/ r = None)
    BY SettingsAssumption
<1>2. FromPlan(p) \in Settings
    BY <1>1 DEF FromPlan, Plan, Settings, Unset
<1>3. Decoded(r) \in Nat
    BY <1>1 DEF Decoded, Unset
<1>4. QED
    BY <1>2, <1>3 DEF WithParameters, Settings

\* What is due after a modification, and that it has not less storage.
LEMMA ModificationKeepsStorage ==
    ASSUME NEW p \in Plans, NEW r \in Retentions \cup {None},
           NEW old \in Settings, NEW coming \in Settings, coming.storage >= old.storage
    PROVE  /\ Requested(p, r, old, coming) \in Settings
           /\ Requested(p, r, old, coming).storage >= old.storage
<1>1. WithParameters(FromPlan(p), r) \in Settings
    BY DetailsAreSettings
<1>2. QED
    BY <1>1 DEF Requested, Modified, Storage, Given, Settings, Unset, NoVersion

\* A cluster keeps its storage.
LEMMA ClusterKeepsStorage ==
    ASSUME NEW p, NEW s \in Settings, NEW new \in Settings
    PROVE  /\ ClusterModified(s, p, new) \in Settings
           /\ ClusterModified(s, p, new).storage = s.storage
BY DEF ClusterModified, Settings

\* What RDS chooses for an instance to be created.
LEMMA DefaultsAreSettings ==
    /\ [Default EXCEPT !.storage = Unset] \in Settings
    /\ [Default EXCEPT !.storage = Unset].storage >= [Default EXCEPT !.storage = Unset].storage
<1>1. [Default EXCEPT !.storage = Unset] \in Settings
    BY SettingsAssumption DEF Settings, Unset
<1>2. QED
    BY <1>1 DEF Settings

\* Every step keeps the settings complete and their storage.
LEMMA StepKeepsSettings ==
    ASSUME SettingsAreComplete, [Next]_vars
    PROVE  /\ SettingsAreComplete'
           /\ settings # None => settings'.storage >= settings.storage
<1> USE DEF SettingsAreComplete
<1>1. None \notin Settings
    BY SettingsAssumption
<1>2. settings # None => settings.storage \in Nat /\ target.storage \in Nat
    BY DEF Settings
<1>3. ASSUME NEW p \in Plans, NEW r \in Retentions \cup {None}, Provision(p, r)
      PROVE  settings = None /\ settings' \in Settings /\ target' = settings'
    BY <1>3, DefaultsAreSettings, ModificationKeepsStorage DEF Provision
<1>4. ASSUME NEW p \in Plans, NEW r \in Retentions \cup {None}, Update(p, r)
      PROVE  /\ settings' \in Settings /\ target' \in Settings
             /\ settings'.storage = settings.storage /\ target'.storage >= settings.storage
    BY <1>4, ModificationKeepsStorage, ClusterKeepsStorage DEF Update, MaySend
<1>5. ASSUME NEW p \in Plans, NEW r \in Retentions \cup {None}, UpdateRefused(p, r)
      PROVE  /\ settings' \in Settings /\ target' \in Settings
             /\ settings'.storage = settings.storage /\ target'.storage = target.storage
    BY <1>5, ModificationKeepsStorage, ClusterKeepsStorage DEF UpdateRefused, MaySend
<1>6. CASE Rds
    BY <1>6, <1>1, <1>2 DEF Rds, RdsStarts, RdsApplies, RdsIsDone
<1>7. CASE Poll \/ GiveUp \/ UNCHANGED vars
    <2>1. settings' = settings /\ target' = target
        BY <1>7 DEF Poll, GiveUp, vars
    <2>2. QED
        BY <2>1, <1>2
<1>8. CASE \E p \in Plans, r \in Retentions \cup {None} : Provision(p, r)
    BY <1>8, <1>3 DEF Settings
<1>9. CASE \E p \in Plans, r \in Retentions \cup {None} : Update(p, r) \/ UpdateRefused(p, r)
    <2>1. settings # None /\ settings \in Settings
        BY <1>9 DEF Update, UpdateRefused, MaySend
    <2>2. QED
        BY <1>9, <1>4, <1>5, <1>2, <2>1
<1>10. QED
    BY <1>6, <1>7, <1>8, <1>9 DEF Next

\* The storage never shrinks through any plan changes, refused ones, late ones and
\* ones that overtake each other included (rds_db_instance.go,
\* buildModifyDBInstanceInput).
THEOREM StorageGrows == Spec => StorageNeverShrinks
<1>1. Init => SettingsAreComplete
    BY DEF Init, SettingsAreComplete
<1>2. SettingsAreComplete /\ [Next]_vars => SettingsAreComplete'
    BY StepKeepsSettings
<1>3. SettingsAreComplete /\ [Next]_vars =>
          [settings # None => settings'.storage >= settings.storage]_vars
    BY StepKeepsSettings
<1>4. QED
    BY <1>1, <1>2, <1>3, PTL DEF Spec, StorageNeverShrinks

-----------------------------------------------------------------------------
(* What success means.                                                     *)

TargetIsApplied == Applied(target)

\* What RDS was asked for is what the last request says, until that is refused; and
\* nothing of it is pending once the platform was told of success.
TargetIsAsked ==
    /\ outcome \in {"in progress", "succeeded"} => TargetIsApplied
    /\ outcome = "succeeded" => settings = target

SuccessInv == SettingsAreComplete /\ TargetIsAsked

\* What RDS is asked for is what the request says.
LEMMA RequestIsApplied ==
    ASSUME NEW p \in Plans, NEW r \in Retentions \cup {None},
           NEW old \in Settings, NEW coming \in Settings, coming.storage >= old.storage,
           target' = Requested(p, r, old, coming), plan' = p, asked' = r,
           (before' = None /\ coming = old) \/ (before' = old /\ due' = coming)
    PROVE  TargetIsApplied'
<1> DEFINE details == WithParameters(FromPlan(p), r)
<1>1. p \in Plan /\ (r = None \/ r \in Nat)
    BY SettingsAssumption
<1>2. /\ details \in Settings
      /\ details.storage = IF p.aurora THEN 0 ELSE p.storage
      /\ details.version = p.version
      /\ r # None /\ r > 0 => details.retention = r
      /\ r = None => details.retention = p.retention
    BY <1>1, DetailsAreSettings DEF WithParameters, FromPlan, Decoded, Unset, Plan, Settings
<1>3. target' = Modified(details, old, coming)
    BY DEF Requested
<1> HIDE DEF details
<1>4. /\ ~p.aurora => target'.storage >= p.storage
      /\ p.aurora \/ p.storage = 0 => target'.storage = coming.storage
    BY <1>1, <1>2, <1>3 DEF Modified, Storage, Unset, Plan, Settings
<1>5. /\ details.version # NoVersion /\ details.version # old.version =>
            target'.version = p.version
      /\ details.version \in {NoVersion, old.version} => target'.version = coming.version
    BY <1>2, <1>3 DEF Modified, Given
<1>6. /\ r # None /\ r > 0 => target'.retention = r
      /\ r = None /\ p.retention > 0 => target'.retention = p.retention
      /\ r = None /\ p.retention = 0 => target'.retention = coming.retention
    BY <1>1, <1>2, <1>3 DEF Modified, Given, Unset, Plan
<1>7. CASE before' = None /\ coming = old
    <2>1. p.version # NoVersion => target'.version = p.version
        BY <1>2, <1>5, <1>7
    <2>2. QED
        BY <2>1, <1>4, <1>6, <1>7 DEF TargetIsApplied, Applied
<1>8. CASE before' = old /\ due' = coming
    BY <1>2, <1>4, <1>5, <1>6, <1>8, SettingsAssumption DEF TargetIsApplied, Applied
<1>9. QED
    BY <1>7, <1>8

\* What RDS was asked for stays what it was while RDS works and the platform waits.
LEMMA StepKeepsSuccess == SuccessInv /\ [Next]_vars => SuccessInv'
<1> SUFFICES ASSUME SuccessInv, [Next]_vars
             PROVE  SuccessInv'
    OBVIOUS
<1>1. SettingsAreComplete'
    BY StepKeepsSettings DEF SuccessInv
<1> USE DEF SuccessInv, SettingsAreComplete, TargetIsAsked
<1>2. None \notin Settings
    BY SettingsAssumption
<1>3. ASSUME NEW p \in Plans, NEW r \in Retentions \cup {None}, Provision(p, r)
      PROVE  TargetIsAsked'
    <2> DEFINE start == [Default EXCEPT !.storage = Unset]
    <2>1. start \in Settings
        BY DefaultsAreSettings
    <2>2. start.storage >= start.storage
        BY DefaultsAreSettings
    <2>3. /\ target' = Requested(p, r, start, start) /\ plan' = p /\ asked' = r
          /\ before' = None /\ outcome' = "in progress"
        BY <1>3 DEF Provision, Asked
    <2> HIDE DEF start
    <2>4. TargetIsApplied'
        BY <2>1, <2>2, <2>3, RequestIsApplied
    <2>5. QED
        BY <2>3, <2>4
<1>4. ASSUME NEW p \in Plans, NEW r \in Retentions \cup {None}, Update(p, r)
      PROVE  TargetIsAsked'
    <2>1. /\ settings \in Settings /\ target \in Settings /\ target.storage >= settings.storage
          /\ target' = Requested(p, r, settings, target) /\ plan' = p /\ asked' = r
          /\ before' = settings /\ due' = target /\ outcome' = "in progress"
        BY <1>4 DEF Update, Asked, MaySend
    <2>2. TargetIsApplied'
        BY <2>1, RequestIsApplied
    <2>3. QED
        BY <2>1, <2>2
<1>5. ASSUME NEW p \in Plans, NEW r \in Retentions \cup {None}, UpdateRefused(p, r)
      PROVE  TargetIsAsked'
    BY <1>5 DEF UpdateRefused, Asked
<1>6. CASE Rds
    <2>1. UNCHANGED <<target, plan, asked, before, due, outcome>>
        BY <1>6 DEF Rds, RdsStarts, RdsApplies, RdsIsDone, request
    <2>2. TargetIsApplied' <=> TargetIsApplied
        BY <2>1 DEF TargetIsApplied, Applied
    <2>3. settings = target => settings' = target'
        BY <1>6, <2>1 DEF Rds, RdsStarts, RdsApplies, RdsIsDone
    <2>4. QED
        BY <1>1, <2>1, <2>2, <2>3
<1>7. CASE Poll
    BY <1>1, <1>7 DEF Poll, Report, State, PendingModifications, request, TargetIsApplied, Applied
<1>8. CASE GiveUp
    BY <1>1, <1>8 DEF GiveUp, request, TargetIsApplied, Applied
<1>9. CASE UNCHANGED vars
    BY <1>1, <1>9 DEF vars, TargetIsApplied, Applied
<1>10. QED
    BY <1>1, <1>3, <1>4, <1>5, <1>6, <1>7, <1>8, <1>9 DEF Next

\* What the platform is told has succeeded is in force (broker.go, LastOperation and
\* Update; rds_db_instance.go, Modify).
THEOREM SuccessIsInForce == Spec => []SuccessAppliesPlan
<1>1. Init => SuccessInv
    BY DEF Init, SuccessInv, SettingsAreComplete, TargetIsAsked
<1>2. SuccessInv /\ [Next]_vars => SuccessInv'
    BY StepKeepsSuccess
<1>3. SuccessInv => SuccessAppliesPlan
    BY DEF SuccessInv, TargetIsAsked, TargetIsApplied, SuccessAppliesPlan
<1>4. QED
    BY <1>1, <1>2, <1>3, PTL DEF Spec
-----------------------------------------------------------------------------
(* Upgrades, as long as the numbers of versions have as many digits.       *)

Width(n) == IF n < 10 THEN 1 ELSE 2

\* The versions that plans name and the one that RDS chooses.
Versions == ({p.version : p \in Plans} \ {NoVersion}) \cup {Default.version}

\* The first numbers of all versions have as many digits, and so have the second.
EqualWidths ==
    \A v, w \in Versions, i \in {1, 2} : v[i] \in 0 .. 99 /\ Width(v[i]) = Width(w[i])

\* What RDS has yet to do is something it accepts, and it has refused nothing else.
UpgradeInv ==
    /\ settings # None =>
          /\ settings.version \in Versions /\ target.version \in Versions
          /\ Accepts(target, settings)
    /\ UpgradesGoThrough

\* The digits of a number.
LEMMA DigitsOfNumber ==
    ASSUME NEW n \in 0 .. 99
    PROVE  /\ Digits(n) \in Seq(Nat)
           /\ Len(Digits(n)) = Width(n)
           /\ Width(n) \in 1 .. 2
BY DEF Digits, Width

\* Digits are in the order of the numbers.
LEMMA DigitsInOrder ==
    ASSUME NEW n \in 0 .. 99, NEW k \in 0 .. 99, Width(n) = Width(k), n > k
    PROVE  \E i \in 1 .. Width(n) :
              /\ Digits(n)[i] > Digits(k)[i]
              /\ \A j \in 1 .. i - 1 : Digits(n)[j] = Digits(k)[j]
<1>1. CASE n < 10
    <2>1. Digits(n) = <<n>> /\ Digits(k) = <<k>> /\ Width(n) = 1
        BY <1>1 DEF Digits, Width
    <2>2. <<n>>[1] > <<k>>[1] /\ 1 \in 1 .. 1 /\ \A j \in 1 .. 1 - 1 : FALSE
        OBVIOUS
    <2>3. QED
        BY <2>1, <2>2
<1>2. CASE n >= 10
    <2>1. Digits(n) = <<n \div 10, n % 10>> /\ Digits(k) = <<k \div 10, k % 10>> /\ Width(n) = 2
        BY <1>2 DEF Digits, Width
    <2>2. n \div 10 > k \div 10 \/ (n \div 10 = k \div 10 /\ n % 10 > k % 10)
        OBVIOUS
    <2>3. CASE n \div 10 > k \div 10
        <3>1. Digits(n)[1] > Digits(k)[1] /\ 1 \in 1 .. 2 /\ \A j \in 1 .. 1 - 1 : FALSE
            BY <2>1, <2>3
        <3>2. QED
            BY <2>1, <3>1
    <2>4. CASE n \div 10 = k \div 10 /\ n % 10 > k % 10
        <3>1. Digits(n)[2] > Digits(k)[2] /\ 2 \in 1 .. 2
            BY <2>1, <2>4
        <3>2. ASSUME NEW j \in 1 .. 2 - 1
              PROVE  Digits(n)[j] = Digits(k)[j]
            <4>1. j = 1
                OBVIOUS
            <4>2. QED
                BY <2>1, <2>4, <4>1
        <3>3. QED
            BY <2>1, <3>1, <3>2
    <2>5. QED
        BY <2>2, <2>3, <2>4
<1>3. QED
    BY <1>1, <1>2

\* The characters of the text of a version.
LEMMA TextOfVersion ==
    ASSUME NEW v, v[1] \in 0 .. 99, v[2] \in 0 .. 99
    PROVE  /\ Len(Text(v)) = Width(v[1]) + 1 + Width(v[2])
           /\ \A i \in 1 .. Width(v[1]) : Text(v)[i] = Digits(v[1])[i]
           /\ Text(v)[Width(v[1]) + 1] = 10
           /\ \A i \in 1 .. Width(v[2]) : Text(v)[Width(v[1]) + 1 + i] = Digits(v[2])[i]
<1> DEFINE s == Digits(v[1])
           t == Digits(v[2])
           colon == <<10>>
           u == s \o colon
           l == Width(v[1])
           m == Width(v[2])
<1>1. /\ s \in Seq(Nat) /\ Len(s) = l /\ l \in 1 .. 2
      /\ t \in Seq(Nat) /\ Len(t) = m /\ m \in 1 .. 2
    BY DigitsOfNumber
<1>2. colon \in Seq(Nat) /\ Len(colon) = 1 /\ colon[1] = 10
    OBVIOUS
<1>3. Text(v) = u \o t
    BY DEF Text
<1>4. /\ u \in Seq(Nat) /\ Len(u) = Len(s) + Len(colon)
      /\ \A i \in 1 .. Len(s) + Len(colon) :
            u[i] = IF i <= Len(s) THEN s[i] ELSE colon[i - Len(s)]
    <2> HIDE DEF s, colon
    <2>1. QED
        BY <1>1, <1>2, ConcatProperties
<1> HIDE DEF s, t, l, m, colon, u
<1>5. /\ Len(u) = l + 1
      /\ \A i \in 1 .. l : u[i] = s[i]
      /\ u[l + 1] = 10
    <2>1. Len(u) = l + 1 /\ \A i \in 1 .. l : i \in 1 .. l + 1 /\ i <= l
        BY <1>1, <1>2, <1>4
    <2>2. l + 1 \in 1 .. l + 1 /\ ~(l + 1 <= l) /\ l + 1 - l = 1
        BY <1>1
    <2>3. \A i \in 1 .. l + 1 : u[i] = IF i <= l THEN s[i] ELSE colon[i - l]
        BY <1>1, <1>2, <1>4
    <2>4. u[l + 1] = colon[1]
        BY <1>1, <2>2, <2>3
    <2>5. QED
        BY <1>2, <2>1, <2>3, <2>4
<1>6. /\ Len(u \o t) = Len(u) + Len(t)
      /\ \A i \in 1 .. Len(u) + Len(t) :
            (u \o t)[i] = IF i <= Len(u) THEN u[i] ELSE t[i - Len(u)]
    BY <1>1, <1>4, ConcatProperties
<1>7. Len(u \o t) = l + 1 + m
    BY <1>1, <1>5, <1>6
<1>8. \A i \in 1 .. l + 1 : (u \o t)[i] = u[i]
    <2>1. \A i \in 1 .. l + 1 : i \in 1 .. l + 1 + m /\ i <= l + 1
        BY <1>1
    <2>2. QED
        BY <1>1, <1>5, <1>6, <2>1
<1>9. ASSUME NEW i \in 1 .. m
      PROVE  (u \o t)[l + 1 + i] = t[i]
    <2>1. /\ l + 1 + i \in 1 .. l + 1 + m /\ ~(l + 1 + i <= l + 1)
          /\ l + 1 + i - (l + 1) = i
        BY <1>1
    <2>2. QED
        BY <1>1, <1>5, <1>6, <2>1
<1>10. \A i \in 1 .. l : (u \o t)[i] = s[i]
    <2>1. \A i \in 1 .. l : i \in 1 .. l + 1
        BY <1>1
    <2>2. QED
        BY <1>5, <1>8, <2>1
<1>11. (u \o t)[l + 1] = 10
    BY <1>1, <1>5, <1>8
<1>12. /\ Len(Text(v)) = l + 1 + m
       /\ \A i \in 1 .. l : Text(v)[i] = s[i]
       /\ Text(v)[l + 1] = 10
       /\ \A i \in 1 .. m : Text(v)[l + 1 + i] = t[i]
    BY <1>3, <1>7, <1>9, <1>10, <1>11
<1>13. QED
    BY <1>12 DEF s, t, l, m

\* The texts of such versions are in the order of the versions.
LEMMA NewerIsAllowed ==
    ASSUME NEW v, NEW w, Newer(v, w),
           \A i \in {1, 2} : v[i] \in 0 .. 99 /\ w[i] \in 0 .. 99 /\ Width(v[i]) = Width(w[i])
    PROVE  AllowMajorVersionUpgrade(v, w)
<1> DEFINE l == Width(v[1])
           m == Width(v[2])
<1>1. /\ v[1] \in 0 .. 99 /\ v[2] \in 0 .. 99 /\ w[1] \in 0 .. 99 /\ w[2] \in 0 .. 99
      /\ l = Width(w[1]) /\ m = Width(w[2]) /\ l \in 1 .. 2 /\ m \in 1 .. 2
    BY DigitsOfNumber
<1>2. /\ Len(Text(v)) = l + 1 + m /\ Len(Text(w)) = l + 1 + m
      /\ \A i \in 1 .. l : Text(v)[i] = Digits(v[1])[i] /\ Text(w)[i] = Digits(w[1])[i]
      /\ Text(v)[l + 1] = Text(w)[l + 1]
      /\ \A i \in 1 .. m : /\ Text(v)[l + 1 + i] = Digits(v[2])[i]
                           /\ Text(w)[l + 1 + i] = Digits(w[2])[i]
    BY <1>1, TextOfVersion
<1> HIDE DEF l, m
<1>3. CASE v[1] > w[1]
    <2>1. PICK i \in 1 .. l : /\ Digits(v[1])[i] > Digits(w[1])[i]
                              /\ \A j \in 1 .. i - 1 : Digits(v[1])[j] = Digits(w[1])[j]
        BY <1>1, <1>3, DigitsInOrder DEF l
    <2>2. /\ Text(v)[i] > Text(w)[i] /\ i \in 1 .. Len(Text(v))
          /\ \A j \in 1 .. i - 1 : j <= Len(Text(w)) /\ Text(v)[j] = Text(w)[j]
        BY <1>1, <1>2, <2>1
    <2>3. QED
        BY <2>2 DEF AllowMajorVersionUpgrade, After
<1>4. CASE v[1] = w[1] /\ v[2] > w[2]
    <2>1. PICK i \in 1 .. m : /\ Digits(v[2])[i] > Digits(w[2])[i]
                              /\ \A j \in 1 .. i - 1 : Digits(v[2])[j] = Digits(w[2])[j]
        BY <1>1, <1>4, DigitsInOrder DEF m
    <2>2. ASSUME NEW j \in 1 .. (l + 1 + i) - 1
          PROVE  j <= Len(Text(w)) /\ Text(v)[j] = Text(w)[j]
        <3> DEFINE k == j - (l + 1)
        <3>1. j \in 1 .. l \/ j = l + 1 \/ (k \in 1 .. i - 1 /\ k \in 1 .. m)
            BY <1>1, <2>1
        <3>2. l + 1 + k = j /\ j <= l + 1 + m
            BY <1>1, <2>1
        <3> HIDE DEF k
        <3>3. CASE j \in 1 .. l
            BY <1>2, <1>4, <3>2, <3>3
        <3>4. CASE j = l + 1
            BY <1>2, <3>2, <3>4
        <3>5. CASE k \in 1 .. i - 1 /\ k \in 1 .. m
            <4>1. Text(v)[l + 1 + k] = Digits(v[2])[k] /\ Text(w)[l + 1 + k] = Digits(w[2])[k]
                BY <1>2, <3>5
            <4>2. QED
                BY <1>2, <2>1, <3>2, <3>5, <4>1
        <3>6. QED
            BY <3>1, <3>3, <3>4, <3>5
    <2>3. Text(v)[l + 1 + i] > Text(w)[l + 1 + i] /\ l + 1 + i \in 1 .. Len(Text(v))
        BY <1>1, <1>2, <2>1
    <2>4. QED
        BY <2>2, <2>3 DEF AllowMajorVersionUpgrade, After
<1>5. QED
    BY <1>3, <1>4 DEF Newer

\* The version an Update asks for: that of the plan, or what is due already.
LEMMA RequestedVersion ==
    ASSUME NEW p, NEW r, NEW old, NEW coming
    PROVE  LET v == Requested(p, r, old, coming).version
           IN  v = coming.version \/ (v = p.version /\ v # NoVersion)
<1>1. WithParameters(FromPlan(p), r).version = p.version
    BY DEF WithParameters, FromPlan
<1>2. QED
    BY <1>1 DEF Requested, Modified, Given

\* RDS looks at the versions only.
LEMMA AcceptsVersions ==
    ASSUME NEW x, NEW y, NEW s, NEW t, x.version = s.version, y.version = t.version
    PROVE  Accepts(x, y) <=> Accepts(s, t)
BY DEF Accepts

LEMMA ClusterKeepsVersion ==
    ASSUME NEW p, NEW s, NEW new
    PROVE  ClusterModified(s, p, new).version = s.version
BY DEF ClusterModified

LEMMA StepKeepsUpgrades ==
    ASSUME EqualWidths, SettingsAreComplete, UpgradeInv, [Next]_vars
    PROVE  UpgradeInv'
<1> USE DEF UpgradeInv
<1>0. SettingsAreComplete'
    BY StepKeepsSettings
<1>1. None \notin Settings
    BY SettingsAssumption
<1>2. ASSUME NEW p \in Plans, NEW r \in Retentions \cup {None}, Provision(p, r)
      PROVE  UpgradeInv'
    <2> DEFINE start == [Default EXCEPT !.storage = Unset]
    <2> DEFINE new == Requested(p, r, start, start)
    <2>1. settings' = new /\ target' = settings' /\ outcome' = "in progress"
        BY <1>2 DEF Provision, Asked
    <2>2. start.version = Default.version
        BY SettingsAssumption DEF Settings
    <2> HIDE DEF start
    <2>3. new.version = start.version \/ (new.version = p.version /\ p.version # NoVersion)
        BY RequestedVersion
    <2> HIDE DEF new
    <2>4. settings'.version \in Versions
        BY <2>1, <2>2, <2>3 DEF Versions
    <2>5. QED
        BY <2>1, <2>4 DEF Accepts, UpgradesGoThrough
<1>3. ASSUME NEW p \in Plans, NEW r \in Retentions \cup {None}, Update(p, r)
      PROVE  UpgradeInv'
    <2> DEFINE new == Requested(p, r, settings, target)
    <2>1. /\ settings # None
          /\ target' = new /\ Accepts(new, settings)
          /\ settings' = ClusterModified(settings, p, new)
          /\ outcome' = "in progress"
        BY <1>3 DEF Update, Asked, MaySend
    <2>2. new.version = target.version \/ (new.version = p.version /\ p.version # NoVersion)
        BY RequestedVersion
    <2> HIDE DEF new
    <2>3. settings'.version = settings.version
        BY <2>1, ClusterKeepsVersion
    <2>4. target'.version \in Versions
        BY <2>1, <2>2 DEF Versions
    <2>5. Accepts(target', settings')
        BY <2>1, <2>3, AcceptsVersions
    <2>6. Accepts(target, settings)' <=> Accepts(target', settings')
        BY DEF Accepts
    <2>7. QED
        BY <2>1, <2>3, <2>4, <2>5, <2>6 DEF UpgradesGoThrough
<1>4. ASSUME NEW p \in Plans, NEW r \in Retentions \cup {None}, UpdateRefused(p, r)
      PROVE  UpgradeInv'
    <2> DEFINE new == Requested(p, r, settings, target)
    <2>1. /\ settings # None
          /\ status = "available" => ~Accepts(new, settings)
          /\ settings' = ClusterModified(settings, p, new)
          /\ target' = ClusterModified(target, p, new)
          /\ plan' = p /\ before' = settings
          /\ outcome' = "refused" => status = "available"
        BY <1>4 DEF UpdateRefused, Asked, MaySend
    <2>2. new.version = target.version \/ (new.version = p.version /\ p.version # NoVersion)
        BY RequestedVersion
    <2> HIDE DEF new
    <2>3. settings'.version = settings.version /\ target'.version = target.version
        BY <2>1, ClusterKeepsVersion
    <2>4. Accepts(target', settings')
        BY <2>1, <2>3, AcceptsVersions
    <2>5. ASSUME outcome' = "refused"
          PROVE  Newer(settings.version, p.version) \/ Major(p.version) = Major(settings.version)
        <3>1. new.version # target.version
            BY <2>1, <2>5, AcceptsVersions
        <3>2. p.version \in Versions /\ settings.version \in Versions
            BY <2>1, <2>2, <3>1 DEF Versions
        <3>3. \A i \in {1, 2} :
                 /\ p.version[i] \in 0 .. 99 /\ settings.version[i] \in 0 .. 99
                 /\ Width(p.version[i]) = Width(settings.version[i])
            BY <3>2 DEF EqualWidths
        <3>4. ~Newer(p.version, settings.version)
            BY <2>1, <2>2, <2>5, <3>1, <3>3, NewerIsAllowed DEF Accepts
        <3>5. /\ p.version[1] \in Nat /\ settings.version[1] \in Nat
              /\ p.version[2] \in Nat /\ settings.version[2] \in Nat
            BY <3>3
        <3> DEFINE v == p.version
        <3> DEFINE w == settings.version
        <3> HIDE DEF v, w
        <3>6. v[1] \in Nat /\ w[1] \in Nat /\ v[2] \in Nat /\ w[2] \in Nat /\ ~Newer(v, w)
            BY <3>4, <3>5 DEF v, w
        <3>7. Newer(w, v) \/ (v[1] = w[1] /\ v[2] = w[2])
            BY <3>6 DEF Newer
        <3>8. Newer(w, v) \/ Major(v) = Major(w)
            BY <3>7 DEF Major
        <3>9. QED
            BY <3>8 DEF v, w
    <2>6. UpgradesGoThrough'
        BY <2>1, <2>5 DEF UpgradesGoThrough
    <2>7. Accepts(target, settings)' <=> Accepts(target', settings')
        BY DEF Accepts
    <2>8. QED
        BY <2>1, <2>3, <2>4, <2>6, <2>7
<1>5. CASE Rds
    <2>1. /\ target' = target /\ UNCHANGED request /\ outcome' = outcome
          /\ settings' = settings \/ settings' = target
        BY <1>5 DEF Rds, RdsStarts, RdsApplies, RdsIsDone
    <2>2. settings' # None => settings # None
        BY <2>1, <1>1 DEF SettingsAreComplete
    <2>3. UpgradesGoThrough'
        BY <2>1 DEF UpgradesGoThrough, request
    <2>4. Accepts(target, settings)' <=> Accepts(target', settings')
        BY DEF Accepts
    <2>5. Accepts(target, target)
        BY DEF Accepts
    <2>6. QED
        BY <2>1, <2>2, <2>3, <2>4, <2>5
<1>6. CASE Poll \/ GiveUp \/ UNCHANGED vars
    <2>1. /\ UNCHANGED <<settings, target, plan, before>>
          /\ outcome' = "refused" => outcome = "refused"
        BY <1>6 DEF Poll, GiveUp, vars, request, Report, State
    <2>2. UpgradesGoThrough'
        BY <2>1 DEF UpgradesGoThrough
    <2>3. Accepts(target, settings)' <=> Accepts(target, settings)
        BY <2>1 DEF Accepts
    <2>4. QED
        BY <2>1, <2>2, <2>3
<1>7. QED
    BY <1>2, <1>3, <1>4, <1>5, <1>6 DEF Next

\* As long as the numbers of all versions have as many digits, RDS refuses no upgrade
\* that a plan asks for, whatever is pending: where 9 meets 10 it may
\* (rds_db_instance.go, allowMajorVersionUpgrade, which compares texts).
THEOREM EvenUpgradesGoThrough ==
    ASSUME EqualWidths
    PROVE  Spec => []UpgradesGoThrough
<1>1. Init => SettingsAreComplete /\ UpgradeInv
    BY DEF Init, SettingsAreComplete, UpgradeInv, UpgradesGoThrough
<1>2. SettingsAreComplete /\ UpgradeInv /\ [Next]_vars => (SettingsAreComplete /\ UpgradeInv)'
    BY StepKeepsSettings, StepKeepsUpgrades
<1>3. UpgradeInv => UpgradesGoThrough
    BY DEF UpgradeInv
<1>4. QED
    BY <1>1, <1>2, <1>3, PTL DEF Spec
=============================================================================
