---------------------------- MODULE MissingFonts ----------------------------
(***************************************************************************)
(* The process-wide flag that poppler could not find a display font. Only  *)
(* redaction resets and reads it; any thread that draws or extracts text   *)
(* may set it, and on POSIX a scan extracts text without PopplerMutex.     *)
(***************************************************************************)
EXTENDS FiniteSets

CONSTANTS
  Redactors,     (* threads in RenderRedactedPage                           *)
  Drawers,       (* other threads that draw under PopplerMutex              *)
  Readers,       (* threads of a scan                                       *)
  Nobody

ASSUME FontAssumption == Nobody \notin Redactors

VARIABLES
  step,          (* of each redactor                                        *)
  poppler,       (* who has PopplerMutex                                    *)
  flag,          (* g_poppler_missing_display_font                          *)
  blank          (* the last drawing of a redactor lacked a font            *)

fontVars == <<step, poppler, flag, blank>>

FontInit ==
  /\ step = [r \in Redactors |-> "idle"]
  /\ poppler = Nobody
  /\ flag = FALSE
  /\ blank = [r \in Redactors |-> FALSE]

Step(r, from, to) ==
  /\ step[r] = from
  /\ step' = [step EXCEPT ![r] = to]

Lock(r) ==
  /\ poppler = Nobody
  /\ Step(r, "idle", "reset")
  /\ poppler' = r
  /\ UNCHANGED <<flag, blank>>

\* Mutant: the mutex is given back before the flag is reset.
ResetUnlocked(r) ==
  /\ Step(r, "reset", "draw")
  /\ poppler' = Nobody
  /\ flag' = FALSE
  /\ UNCHANGED blank

ResetPopplerMissingDisplayFont(r) ==
  /\ \/ Step(r, "reset", "draw")
     \/ Step(r, "reset again", "draw again")
  /\ flag' = FALSE
  /\ UNCHANGED <<poppler, blank>>

\* A drawing that lacks a font reports it; the second one, after another pass over
\* the bundled fonts, may find what the first did not.
Draw(r) ==
  /\ \/ Step(r, "draw", "check")
     \/ Step(r, "draw again", "check again")
  /\ \E missing \in BOOLEAN :
       /\ blank' = [blank EXCEPT ![r] = missing]
       /\ flag' = (flag \/ missing)
  /\ UNCHANGED poppler

\* The page is taken, drawn again, or refused.
Accept(r) ==
  /\ ~flag
  /\ Step(r, "check", "taken") \/ Step(r, "check again", "taken")
  /\ poppler' = Nobody
  /\ UNCHANGED <<flag, blank>>

Retry(r) ==
  /\ flag
  /\ Step(r, "check", "reset again")
  /\ UNCHANGED <<poppler, flag, blank>>

Refuse(r) ==
  /\ flag
  /\ Step(r, "check again", "refused")
  /\ poppler' = Nobody
  /\ UNCHANGED <<flag, blank>>

\* The next page.
Again(r) ==
  /\ Step(r, "taken", "idle") \/ Step(r, "refused", "idle")
  /\ UNCHANGED <<poppler, flag, blank>>

\* A drawing for text recognition, a thumbnail and the like is one critical section.
DrawOther(d) ==
  /\ poppler = Nobody
  /\ flag' = TRUE
  /\ UNCHANGED <<step, poppler, blank>>

\* PopplerDocGuard locks nothing on POSIX.
ReadUnlocked(t) ==
  /\ flag' = TRUE
  /\ UNCHANGED <<step, poppler, blank>>

FontNext ==
  \/ \E r \in Redactors :
       \/ Lock(r) \/ ResetPopplerMissingDisplayFont(r) \/ Draw(r)
       \/ Accept(r) \/ Retry(r) \/ Refuse(r) \/ Again(r)
  \/ \E d \in Drawers : DrawOther(d)
  \/ \E t \in Readers : ReadUnlocked(t)

FontSpec == FontInit /\ [][FontNext]_fontVars

-----------------------------------------------------------------------------
\* A redacted page that is taken was drawn with all of its fonts, whatever other
\* threads report meanwhile: they can only have it refused (RenderRedactedPage).
FontsPresent == \A r \in Redactors : step[r] = "taken" => ~blank[r]
=============================================================================
