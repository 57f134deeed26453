------------------------------ MODULE AutoSave ------------------------------
(***************************************************************************)
(* useAutoSave, the console's debounced save of a form (the prompt and the *)
(* personas of channels), from the first render of a form until it is left *)
(* and its requests are over.  An edit is named by its number; undoing it  *)
(* brings back the value of an earlier one.                                *)
(***************************************************************************)
EXTENDS Naturals

CONSTANTS
  MaxEdit,    \* bound: different values of the form
  NoSave      \* no save under way

VARIABLES
  data,       \* dataRef: what the form shows
  lastSaved,  \* lastSaved: what the hook takes the bridge to have
  timer,      \* a debounce is running
  saving,     \* the value of the save in flight (savingRef), NoSave for none
  flushed,    \* the value of the save sent when the form was left
  lost,       \* the values of saves given up without an answer
  stored,     \* what the tenant's row has
  status,     \* what the form shows of it
  mounted     \* the form is on the page

asvars == <<data, lastSaved, timer, saving, flushed, lost, stored, status, mounted>>

Edit == 0 .. MaxEdit

AutoSaveTypeOK ==
  /\ data \in Edit /\ lastSaved \in Edit /\ stored \in Edit /\ lost \subseteq Edit
  /\ timer \in BOOLEAN /\ mounted \in BOOLEAN
  /\ saving \in Edit \cup {NoSave} /\ flushed \in Edit \cup {NoSave}
  /\ status \in {"idle", "saving", "saved", "error"}

AutoSaveInit ==
  /\ data = 0 /\ lastSaved = 0 /\ stored = 0
  /\ timer = FALSE /\ saving = NoSave /\ flushed = NoSave /\ lost = {}
  /\ status = "idle" /\ mounted = TRUE

\* The user changes the form: the effect of the old value clears its debounce,
\* that of the new one starts another if there is something to save.
Change(e) ==
  /\ mounted /\ e # data
  /\ data' = e
  /\ timer' = (e # lastSaved)
  /\ UNCHANGED <<lastSaved, saving, flushed, lost, stored, status, mounted>>

\* doSave, when the debounce ends: nothing while a save is in flight, nothing
\* when there is nothing to save.
DoSave ==
  /\ timer
  /\ timer' = FALSE
  /\ IF saving # NoSave \/ data = lastSaved
     THEN UNCHANGED <<saving, status>>
     ELSE saving' = data /\ status' = "saving"
  /\ UNCHANGED <<data, lastSaved, flushed, lost, stored, mounted>>

\* The server action's PATCH is made, or is refused, or its answer is lost; only
\* an answer moves lastSaved, and any outcome makes way for the next save.
Saved ==
  /\ saving # NoSave
  /\ saving' = NoSave
  /\ \/ stored' = saving /\ lastSaved' = saving /\ status' = "saved" /\ UNCHANGED lost
     \/ /\ status' = "error" /\ UNCHANGED <<lastSaved, stored>>
        /\ lost' \in {lost, lost \cup {saving}}
  /\ UNCHANGED <<data, timer, flushed, mounted>>

\* The server goes on with a PATCH the form has given up, and may come to it only
\* after newer ones (how many PATCHes of one value were given up is not counted).
Land(e) ==
  /\ e \in lost
  /\ stored' = e
  /\ UNCHANGED <<data, lastSaved, timer, saving, flushed, lost, status, mounted>>

\* "saved" is cleared after two seconds.
ClearStatus ==
  /\ status = "saved" /\ status' = "idle"
  /\ UNCHANGED <<data, lastSaved, timer, saving, flushed, lost, stored, mounted>>

\* The form is left: the debounce is cleared, and what is not saved is sent
\* without waiting for an answer, unless a save is in flight.
Leave ==
  /\ mounted /\ mounted' = FALSE
  /\ timer' = FALSE
  /\ flushed' = IF data # lastSaved /\ saving = NoSave THEN data ELSE NoSave
  /\ UNCHANGED <<data, lastSaved, saving, lost, stored, status>>

\* The last save arrives, or is lost with nobody to tell.
Flush ==
  /\ flushed # NoSave /\ flushed' = NoSave
  /\ stored' \in {stored, flushed}
  /\ UNCHANGED <<data, lastSaved, timer, saving, lost, status, mounted>>

AutoSaveNext ==
  (\E e \in Edit : Change(e) \/ Land(e)) \/ DoSave \/ Saved \/ ClearStatus \/ Leave \/ Flush

\* A debounce that runs ends and a request that is sent ends; users need not
\* type or leave.
AutoSaveFairSpec ==
  /\ AutoSaveInit /\ [][AutoSaveNext]_asvars
  /\ WF_asvars(DoSave) /\ WF_asvars(Saved) /\ WF_asvars(Flush)

-----------------------------------------------------------------------------
\* useAutoSave.ts:12: "Watches `data` for changes and persists after `delay` ms
\* of inactivity."  A user who stops typing and stays has the last edit saved, or
\* is told of an error, as long as the answer of no save is lost.
InactivityPersists ==
  \A e \in Edit : (mounted /\ data = e)
                   ~> (stored = e \/ data # e \/ ~mounted \/ status = "error" \/ lost # {})

\* While the form is on the page and tells of no error, the row has what the hook
\* takes for saved, whatever was refused, edited or undone meanwhile; or it has
\* the value of a save whose answer was lost, which may land after a newer one.
FormHonest == (mounted /\ status \in {"idle", "saved"}) => stored \in {lastSaved} \cup lost
=============================================================================
