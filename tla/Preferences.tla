---------------------------- MODULE Preferences ----------------------------
(* The preference store of the web front end, web/src/store/preferences.ts:
   the preferences in memory, and their difference from the defaults kept in
   the browser's local storage.

   A preference is a member of Fields.  The numbers among them (Numbers) have a
   range, the fields of DOMAIN Accepted a set of values the store accepts; the
   others are taken as they are.                                           *)
EXTENDS Integers

CONSTANTS Fields,     \* the keys of AdminPreferences
          Dom,        \* the values of each field that is not a number
          Default,    \* DEFAULT_PREFERENCES
          Numbers,    \* the fields normalizePreferences clamps
          Low, High,  \* their ranges
          Accepted     \* the values accepted of LAYOUTS, POSITIONS, TRANSITIONS

(* The defaults are themselves in range: assumed of the constants. *)
DefaultsAreValid ==
  /\ Numbers \subseteq Fields
  /\ Default = [f \in Fields |-> Default[f]]
  /\ \A f \in Fields \ Numbers : Default[f] \in Dom[f]
  /\ Low \in [Numbers -> Int]
  /\ High \in [Numbers -> Int]
  /\ \A n \in Numbers : Default[n] \in Low[n] .. High[n]
  /\ DOMAIN Accepted \subseteq Fields \ Numbers
  /\ \A c \in DOMAIN Accepted : Default[c] \in Accepted[c]

VARIABLES prefs,        \* preferenceStore's preferences
          storedPrefs   \* local storage: a function on the fields that differ

prefVars == <<prefs, storedPrefs>>

(* What a caller may hand to the store: any number, any value of the others. *)
Raw(f) == IF f \in Numbers THEN Int ELSE Dom[f]

(* A number below Low[f] becomes Low[f], one above High[f] becomes High[f]. *)
Clamp(f, v) == IF v < Low[f] THEN Low[f] ELSE IF v > High[f] THEN High[f] ELSE v

NormalValue(f, v) ==
  IF f \in Numbers THEN Clamp(f, v)
  ELSE IF f \in DOMAIN Accepted /\ v \notin Accepted[f] THEN Default[f]
  ELSE v

(* A partial record laid over a whole one, and the result made valid. *)
normalizePreferences(next, base) ==
  [f \in Fields |-> NormalValue(f, IF f \in DOMAIN next THEN next[f] ELSE base[f])]

diffFromDefaultPreferences(p) == [f \in {g \in Fields : p[g] # Default[g]} |-> p[f]]

ReadStored == normalizePreferences(storedPrefs, Default)
-----------------------------------------------------------------------------
createPreferenceStore ==
  /\ prefs = Default
  /\ storedPrefs = diffFromDefaultPreferences(Default)

(* Every change is written through to local storage at once. *)
setPreferences(patch) ==
  /\ prefs' = normalizePreferences(patch, prefs)
  /\ storedPrefs' = diffFromDefaultPreferences(prefs')

(* A plausible slip: the defaults are shown and not stored. *)
resetInMemory == prefs' = Default /\ UNCHANGED storedPrefs

resetPreferences ==
  /\ prefs' = Default
  /\ storedPrefs' = diffFromDefaultPreferences(Default)

(* The page is loaded again: the store starts from what was stored. *)
ReloadPreferences ==
  /\ prefs' = ReadStored
  /\ UNCHANGED storedPrefs

PreferencesNext ==
  \/ \E S \in SUBSET Fields : \E patch \in [S -> UNION {Raw(f) : f \in S}] :
       (\A f \in S : patch[f] \in Raw(f)) /\ setPreferences(patch)
  \/ resetPreferences
  \/ ReloadPreferences

PreferencesSpec == createPreferenceStore /\ [][PreferencesNext]_prefVars
-----------------------------------------------------------------------------
(* Every number is in its range and every choice one the store knows: no
   write, import or stored value puts the layout outside its limits
   (normalizePreferences, preferences.ts:198).                             *)
Normalized ==
  /\ \A n \in Numbers : prefs[n] \in Low[n] .. High[n]
  /\ \A c \in DOMAIN Accepted : prefs[c] \in Accepted[c]

(* Loading the page again gives back the preferences as they were: what is
   stored is never older than what is shown, and leaving out the defaults
   loses nothing (writeStoredPreferences, createPreferenceStore).          *)
RoundTrip == ReadStored = prefs
=============================================================================
