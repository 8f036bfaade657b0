----------------------------- MODULE GroupSettings -----------------------------
(***************************************************************************)
(* The settings of one group (ChatGroup, app/models.py) and the requests   *)
(* that change them: the menu of the bot (app/bot/routers/settings.py),    *)
(* the Mini App (app/services/group_settings.py, app/repositories/         *)
(* groups_v2.py), the panel of the owner (app/repositories/owner_panel.py) *)
(* and a premium theme (app/repositories/miniapp_gamification.py).         *)
(*                                                                         *)
(* None of them locks the row.  Each gets it, sets attributes and commits, *)
(* and only attributes that differ from those it got are written.  The     *)
(* menu computes the next value from settings that it has read before, in  *)
(* two transactions of their own.  Whoever is no administrator is turned   *)
(* away without a step.                                                    *)
(***************************************************************************)
EXTENDS Integers, Sequences, WrittenRows

CONSTANTS
    MenuOrder,              \* the values of each choice, in the order of the menu
    Premium,                \* PREMIUM_REPORT_THEMES
    PanelFields,            \* ALLOWED_GROUP_FIELDS
    DayHours, HourMinutes,
    Shifts,                 \* the minutes a button of the menu adds
    SettingRequests,
    MaxSettings             \* bound: requests

Choosable == DOMAIN MenuOrder
Theme == "report_card_theme"
Clock == {"report_hour", "report_minute"}
Fields == Choosable \union Clock
Offered(f) == {MenuOrder[f][i] : i \in DOMAIN MenuOrder[f]}

ASSUME SettingsAssumption ==
    /\ {Theme, "is_paused"} \union PanelFields \subseteq Choosable /\ Choosable \intersect Clock = {}
    /\ \A f \in Choosable : MenuOrder[f] \in Seq(Offered(f)) /\ Len(MenuOrder[f]) > 0
    /\ DayHours \in Nat \ {0} /\ HourMinutes \in Nat \ {0}
    /\ Shifts \subseteq Int /\ MaxSettings \in Nat

VARIABLES
    settings,           \* the row
    change,             \* the requests in progress
    submitted,          \* requests so far
    expected,           \* history: the row if each request had been done at its commit
    outrun              \* history: the attributes that a request committed which
                        \* had read them, or the row, before another changed them

settingsVars == <<settings, change, submitted, expected, outrun>>

ValuesOf(f) ==
    CASE f = "report_hour" -> 0..(DayHours - 1)
      [] f = "report_minute" -> 0..(HourMinutes - 1)
      [] f = Theme -> Offered(f) \union Premium
      [] OTHER -> Offered(f)

FirstRow == [f \in Fields |-> IF f \in Clock THEN 0 ELSE MenuOrder[f][1]]

\* kind: "set" to given values, "next" of a choice, "shift" of the time.  read is what
\* the menu goes by, found the row its transaction got.
NoChange == [step |-> "idle", kind |-> "set", to |-> <<>>, field |-> Theme, by |-> 0,
             read |-> FirstRow, found |-> FirstRow]

SettingsTypeOK ==
    /\ \A f \in Fields : settings[f] \in ValuesOf(f)
    /\ \A r \in SettingRequests : change[r].step \in {"idle", "half", "read", "found"}
    /\ submitted \in 0..MaxSettings
    /\ outrun \subseteq Fields

SettingsInit ==
    /\ settings = FirstRow /\ expected = FirstRow
    /\ change = [r \in SettingRequests |-> NoChange]
    /\ submitted = 0 /\ outrun = {}

-----------------------------------------------------------------------------
(* The values a request writes. *)

\* The value behind v in the menu; the menu takes one that it does not have for its first.
NextOf(f, v) ==
    LET at == {i \in DOMAIN MenuOrder[f] : MenuOrder[f][i] = v}
        i == IF at = {} THEN 1 ELSE CHOOSE i \in at : TRUE
    IN  MenuOrder[f][(i % Len(MenuOrder[f])) + 1]

Shifted(row, by) ==
    LET minutes == row["report_hour"] * HourMinutes + row["report_minute"] + by
        total == minutes % (DayHours * HourMinutes)
    IN  [f \in Clock |-> IF f = "report_hour" THEN total \div HourMinutes
                                              ELSE total % HourMinutes]

\* What q makes of a row: the attributes it sets.
Made(q, row) ==
    CASE q.kind = "set" -> q.to
      [] q.kind = "next" -> [f \in {q.field} |-> NextOf(f, row[f])]
      [] q.kind = "shift" -> Shifted(row, q.by)

\* cycle_report_theme goes by the row of its own transaction.
Base(q) == IF q.kind = "next" /\ q.field = Theme THEN q.found ELSE q.read

-----------------------------------------------------------------------------
(* Requests. *)

Submit(r, q) ==
    /\ change[r].step = "idle" /\ submitted < MaxSettings
    /\ submitted' = submitted + 1
    /\ change' = [change EXCEPT ![r] = q]
    /\ UNCHANGED <<settings, expected, outrun>>

Setting(r, to) == Submit(r, [NoChange EXCEPT !.step = "read", !.to = to])

\* A PATCH sets the theme, another choice, or both.
Patch(r, fields, themes) ==
    \/ \E v \in themes : Setting(r, [g \in {Theme} |-> v])
    \/ \E f \in fields \ {Theme} : \E w \in ValuesOf(f) : Setting(r, [g \in {f} |-> w])
    \/ \E f \in fields \ {Theme}, v \in themes : \E w \in ValuesOf(f) :
            Setting(r, [g \in {f, Theme} |-> IF g = Theme THEN v ELSE w])

\* The Mini App refuses a premium theme, whoever asks, and then sets nothing.
UpdateSettings(r) == Patch(r, Choosable, ValuesOf(Theme) \ Premium)

\* The panel of the owner
UpdateGroup(r) == Patch(r, PanelFields, Offered(Theme))

\* The pause and the resume of the analytics
SetPaused(r) == \E v \in ValuesOf("is_paused") : Setting(r, [g \in {"is_paused"} |-> v])

\* The theme of one whose account allows it
UpdateReportTheme(r) == \E v \in Premium : Setting(r, [g \in {Theme} |-> v])

\* /setreporttime, and report_time of the Mini App
SetReportTime(r) ==
    \E h \in ValuesOf("report_hour"), m \in ValuesOf("report_minute") :
        Setting(r, [f \in Clock |-> IF f = "report_hour" THEN h ELSE m])

\* settings_callback: get_group_settings of merged_settings ...
Press(r) ==
    \/ \E f \in Choosable : Submit(r, [NoChange EXCEPT !.step = "half", !.kind = "next", !.field = f,
                                                     !.read = settings])
    \/ \E by \in Shifts : Submit(r, [NoChange EXCEPT !.step = "half", !.kind = "shift", !.by = by,
                                                     !.read = settings])

\* ... and get_group_extras.
ReadExtras(r) ==
    /\ change[r].step = "half"
    /\ change' = [change EXCEPT ![r].step = "read",
                                ![r].read["report_minute"] = settings["report_minute"],
                                ![r].read[Theme] = settings[Theme]]
    /\ UNCHANGED <<settings, submitted, expected, outrun>>

\* session.get in the transaction that writes
GetGroup(r) ==
    /\ change[r].step = "read"
    /\ change' = [change EXCEPT ![r].step = "found", ![r].found = settings]
    /\ UNCHANGED <<settings, submitted, expected, outrun>>

\* Faulty: the row is written as a whole.
EveryField(q, new) ==
    [f \in Fields |-> IF f \in DOMAIN new THEN new[f] ELSE q.found[f]]

\* The UPDATE at the end of the transaction: the row as it then is.
Updated(q, new) ==
    [f \in Fields |-> IF f \in DOMAIN new THEN Written(new[f], q.found[f], settings[f])
                                          ELSE settings[f]]

\* Another request has changed what q goes by, or what it got.
Outrun(q, new) ==
    \E f \in DOMAIN new : \/ q.found[f] # settings[f]
                          \/ q.kind # "set" /\ Base(q)[f] # settings[f]

CommitSettings(r) ==
    LET q == change[r]
        new == Made(q, Base(q))
        wanted == Made(q, expected)
        bad == outrun \intersect DOMAIN new
    IN  /\ q.step = "found"
        /\ settings' = Updated(q, new)
        /\ expected' = [f \in Fields |-> IF f \in DOMAIN new THEN wanted[f] ELSE expected[f]]
        /\ outrun' = IF Outrun(q, new) \/ (q.kind # "set" /\ bad # {})
                        THEN outrun \union DOMAIN new ELSE outrun \ DOMAIN new
        /\ change' = [change EXCEPT ![r] = NoChange]
        /\ UNCHANGED submitted

\* An error of the database, or a process that dies.
GiveUp(r) ==
    /\ change[r].step # "idle"
    /\ change' = [change EXCEPT ![r] = NoChange]
    /\ UNCHANGED <<settings, submitted, expected, outrun>>

SettingsNext ==
    \E r \in SettingRequests :
        \/ UpdateSettings(r) \/ UpdateGroup(r) \/ SetPaused(r) \/ UpdateReportTheme(r)
        \/ SetReportTime(r) \/ Press(r) \/ ReadExtras(r) \/ GetGroup(r) \/ CommitSettings(r) \/ GiveUp(r)

SettingsSpec == SettingsInit /\ [][SettingsNext]_settingsVars

-----------------------------------------------------------------------------
(* Properties. *)

\* Requests that overlap on a group change what they were asked to and leave the other
\* settings alone: an attribute has the value that the requests would have given it one
\* after another, but where one of them was outrun on that very attribute (a toggle of
\* the menu is computed from an earlier read, app/bot/routers/settings.py:316; hour and
\* minute are one there, line 342).
SettingsAddUp == \A f \in Fields \ outrun : settings[f] = expected[f]

================================================================================
