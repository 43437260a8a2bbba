-------------------------- MODULE PreferencesProofs --------------------------
(* The preference store keeps its promises for every set of preferences with   *)
(* valid defaults: what is stored gives back what is shown, and what is shown   *)
(* is within its limits.                                                       *)
EXTENDS Preferences, TLAPS

(* What the store holds is a fixed point of the normalisation, and what is     *)
(* stored is its difference from the defaults.                                 *)
Settled ==
  /\ prefs = [f \in Fields |-> prefs[f]]
  /\ \A f \in Fields : prefs[f] \in Raw(f) /\ NormalValue(f, prefs[f]) = prefs[f]
  /\ storedPrefs = diffFromDefaultPreferences(prefs)

(* The range of a number, and its default within it (DEFAULT_PREFERENCES).     *)
LEMMA NumberRange ==
  ASSUME DefaultsAreValid, NEW n \in Numbers
  PROVE  /\ n \in Fields
         /\ Low[n] \in Int /\ High[n] \in Int /\ Default[n] \in Int
         /\ Low[n] =< Default[n] /\ Default[n] =< High[n]
<1>1. /\ Numbers \subseteq Fields
      /\ Low \in [Numbers -> Int]
      /\ High \in [Numbers -> Int]
      /\ Default[n] \in Low[n] .. High[n]
  BY Zenon DEF DefaultsAreValid
<1> QED BY <1>1

(* A value the store has made valid is of the field's kind and is not changed  *)
(* again (normalizePreferences).                                               *)
LEMMA NormalValueIdempotent ==
  ASSUME DefaultsAreValid, NEW f \in Fields, NEW v \in Raw(f)
  PROVE  /\ NormalValue(f, v) \in Raw(f)
         /\ NormalValue(f, NormalValue(f, v)) = NormalValue(f, v)
<1>1. CASE f \in Numbers
  <2>1. v \in Int /\ Low[f] \in Int /\ High[f] \in Int /\ Low[f] =< High[f]
    BY <1>1, NumberRange DEF Raw
  <2>2. Clamp(f, v) \in Int /\ Clamp(f, Clamp(f, v)) = Clamp(f, v)
    BY <2>1 DEF Clamp
  <2> QED BY <1>1, <2>2 DEF NormalValue, Raw
<1>2. CASE f \notin Numbers
  <2>1. Default[f] \in Raw(f)
    BY <1>2 DEF DefaultsAreValid, Raw
  <2>2. f \in DOMAIN Accepted => Default[f] \in Accepted[f]
    BY DEF DefaultsAreValid
  <2> QED BY <1>2, <2>1, <2>2 DEF NormalValue
<1> QED BY <1>1, <1>2

(* The defaults are valid already. *)
LEMMA DefaultIsNormal ==
  ASSUME DefaultsAreValid, NEW f \in Fields
  PROVE  Default[f] \in Raw(f) /\ NormalValue(f, Default[f]) = Default[f]
<1>1. CASE f \in Numbers
  <2>1. Default[f] \in Int /\ Low[f] \in Int /\ High[f] \in Int
        /\ Low[f] =< Default[f] /\ Default[f] =< High[f]
    BY <1>1, NumberRange
  <2> QED BY <1>1, <2>1 DEF NormalValue, Clamp, Raw
<1>2. CASE f \notin Numbers
  BY <1>2 DEF DefaultsAreValid, NormalValue, Raw
<1> QED BY <1>1, <1>2

(* Laying a partial record over settled preferences and storing the difference *)
(* leaves them settled (setPreferences).                                       *)
LEMMA SetSettles ==
  ASSUME DefaultsAreValid, Settled,
         NEW patch, \A f \in DOMAIN patch : f \in Fields => patch[f] \in Raw(f),
         setPreferences(patch)
  PROVE  Settled'
<1> DEFINE merged(f) == IF f \in DOMAIN patch THEN patch[f] ELSE prefs[f]
<1>1. prefs' = [f \in Fields |-> NormalValue(f, merged(f))]
  BY DEF setPreferences, normalizePreferences
<1>2. ASSUME NEW f \in Fields
      PROVE  prefs'[f] \in Raw(f) /\ NormalValue(f, prefs'[f]) = prefs'[f]
  <2>1. merged(f) \in Raw(f)
    BY DEF Settled
  <2>2. prefs'[f] = NormalValue(f, merged(f))
    BY <1>1
  <2> QED BY <2>1, <2>2, NormalValueIdempotent
<1>3. prefs' = [f \in Fields |-> prefs'[f]]
  BY <1>1
<1>4. storedPrefs' = diffFromDefaultPreferences(prefs')
  BY DEF setPreferences
<1>5. \A f \in Fields : /\ prefs'[f] \in Raw(f)
                        /\ NormalValue(f, prefs'[f]) = prefs'[f]
  BY <1>2
<1> QED BY <1>3, <1>4, <1>5 DEF Settled, Raw, NormalValue, Clamp, diffFromDefaultPreferences

(* The defaults, stored as such, are settled (createPreferenceStore and        *)
(* resetPreferences).                                                          *)
LEMMA DefaultsSettle ==
  ASSUME DefaultsAreValid, prefs = Default, storedPrefs = diffFromDefaultPreferences(Default)
  PROVE  Settled
<1>1. Default = [f \in Fields |-> Default[f]]
  BY DEF DefaultsAreValid
<1>2. \A f \in Fields : Default[f] \in Raw(f) /\ NormalValue(f, Default[f]) = Default[f]
  BY DefaultIsNormal
<1> QED BY <1>1, <1>2 DEF Settled

(* Settled preferences are what reading the storage again gives.               *)
LEMMA SettledRoundTrip == Settled => RoundTrip
<1> SUFFICES ASSUME Settled PROVE ReadStored = prefs
  BY DEF RoundTrip
<1> DEFINE read(f) == IF f \in DOMAIN storedPrefs THEN storedPrefs[f] ELSE Default[f]
<1>1. \A f \in Fields : read(f) = prefs[f]
  BY DEF Settled, diffFromDefaultPreferences
<1>2. ReadStored = [f \in Fields |-> NormalValue(f, read(f))]
  BY DEF ReadStored, normalizePreferences
<1>3. \A f \in Fields : NormalValue(f, read(f)) = prefs[f]
  BY <1>1 DEF Settled
<1>4. ReadStored = [f \in Fields |-> prefs[f]]
  BY <1>2, <1>3
<1> QED BY <1>4 DEF Settled

(* ... and are within the limits of the store.                                 *)
LEMMA SettledIsNormalized == DefaultsAreValid /\ Settled => Normalized
<1> SUFFICES ASSUME DefaultsAreValid, Settled PROVE Normalized
  OBVIOUS
<1>1. ASSUME NEW n \in Numbers PROVE prefs[n] \in Low[n] .. High[n]
  <2>1. n \in Fields /\ Low[n] \in Int /\ High[n] \in Int /\ Low[n] =< High[n]
    BY NumberRange
  <2>2. prefs[n] \in Int /\ Clamp(n, prefs[n]) = prefs[n]
    BY <2>1 DEF Settled, Raw, NormalValue
  <2> QED BY <2>1, <2>2 DEF Clamp
<1>2. ASSUME NEW c \in DOMAIN Accepted PROVE prefs[c] \in Accepted[c]
  <2>1. c \in Fields /\ c \notin Numbers /\ Default[c] \in Accepted[c]
    BY DEF DefaultsAreValid
  <2> QED BY <2>1 DEF Settled, NormalValue
<1> QED BY <1>1, <1>2 DEF Normalized

(* Every step of the store keeps settled preferences settled.                  *)
LEMMA SettledInductive == DefaultsAreValid /\ Settled /\ [PreferencesNext]_prefVars => Settled'
<1> SUFFICES ASSUME DefaultsAreValid, Settled, [PreferencesNext]_prefVars PROVE Settled'
  OBVIOUS
<1>1. CASE \E S \in SUBSET Fields : \E patch \in [S -> UNION {Raw(f) : f \in S}] :
             (\A f \in S : patch[f] \in Raw(f)) /\ setPreferences(patch)
  <2>1. PICK S \in SUBSET Fields : \E patch \in [S -> UNION {Raw(f) : f \in S}] :
          (\A f \in S : patch[f] \in Raw(f)) /\ setPreferences(patch)
    BY <1>1
  <2>2. PICK patch \in [S -> UNION {Raw(f) : f \in S}] :
          (\A f \in S : patch[f] \in Raw(f)) /\ setPreferences(patch)
    BY <2>1
  <2>3. \A f \in DOMAIN patch : f \in Fields => patch[f] \in Raw(f)
    BY <2>2
  <2> QED BY <2>2, <2>3, SetSettles
<1>2. CASE resetPreferences
  <2>1. prefs' = Default /\ storedPrefs' = diffFromDefaultPreferences(Default)
    BY <1>2 DEF resetPreferences
  <2>2. Default = [f \in Fields |-> Default[f]]
    BY DEF DefaultsAreValid
  <2>3. \A f \in Fields : Default[f] \in Raw(f) /\ NormalValue(f, Default[f]) = Default[f]
    BY DefaultIsNormal
  <2> QED BY <2>1, <2>2, <2>3 DEF Settled, Raw, NormalValue, Clamp, diffFromDefaultPreferences
<1>3. CASE ReloadPreferences
  <2>1. prefs' = prefs /\ storedPrefs' = storedPrefs
    BY <1>3, SettledRoundTrip DEF ReloadPreferences, RoundTrip
  <2> QED BY <2>1 DEF Settled, Raw, NormalValue, Clamp, diffFromDefaultPreferences
<1>4. CASE UNCHANGED prefVars
  BY <1>4 DEF prefVars, Settled, Raw, NormalValue, Clamp, diffFromDefaultPreferences
<1> QED BY <1>1, <1>2, <1>3, <1>4 DEF PreferencesNext

(* A window that is loaded again has the preferences it had, whatever was set, *)
(* reset and read before, for any fields, ranges and values (preferences.ts).  *)
THEOREM PreferencesRoundTrip ==
  ASSUME DefaultsAreValid
  PROVE  PreferencesSpec => []RoundTrip
<1>1. createPreferenceStore => Settled
  BY DefaultsSettle DEF createPreferenceStore
<1>2. Settled /\ [PreferencesNext]_prefVars => Settled'
  BY SettledInductive
<1> QED BY <1>1, <1>2, SettledRoundTrip, PTL DEF PreferencesSpec

(* The preferences shown are always within the limits of the store.            *)
THEOREM PreferencesNormalized ==
  ASSUME DefaultsAreValid
  PROVE  PreferencesSpec => []Normalized
<1>1. createPreferenceStore => Settled
  BY DefaultsSettle DEF createPreferenceStore
<1>2. Settled /\ [PreferencesNext]_prefVars => Settled'
  BY SettledInductive
<1>3. Settled => Normalized
  BY SettledIsNormalized
<1> QED BY <1>1, <1>2, <1>3, PTL DEF PreferencesSpec
==============================================================================
