------------------------------ MODULE MCMembers ------------------------------
(***************************************************************************)
(* What the service keeps of users and groups, and tells users: XP of      *)
(* messages, streaks, achievements, those that are pinned, the status of   *)
(* the bot in a group and its settings, the measures of administrators and *)
(* who may take them, and reminders in private.  The parts share no state  *)
(* that the modules tell apart, so that a behaviour of the run is one of   *)
(* one part, chosen at the start.                                          *)
(***************************************************************************)
EXTENDS Streaks, Achievements, FeaturedAchievements, GroupStatus, UserControl,
        Reminders, StaffActions, GroupSettings, MessageRules, TLC

VARIABLE part

membersVars == <<streakVars, achievementVars, featuredVars, statusVars,
                 controlVars, remindersVars, staffVars, settingsVars,
                 ruleVars, part>>

Parts == {"streak", "achievement", "featured", "status", "control",
          "reminder", "staff", "settings", "rules"}

MembersTypeOK ==
    /\ part \in Parts
    /\ part = "streak" => StreakTypeOK
    /\ part = "achievement" => AchievementTypeOK
    /\ part = "featured" => FeaturedTypeOK
    /\ part = "status" => StatusTypeOK
    /\ part = "control" => ControlTypeOK
    /\ part = "reminder" => RemindersTypeOK
    /\ part = "staff" => StaffTypeOK
    /\ part = "settings" => SettingsTypeOK
    /\ part = "rules" => RulesTypeOK

MembersInit ==
    /\ part \in Parts
    /\ StreakInit /\ AchievementInit /\ FeaturedInit /\ StatusInit
    /\ ControlInit /\ RemindersInit /\ StaffInit /\ SettingsInit /\ RulesInit
    /\ part # "achievement" => legacy = {}
    /\ part # "featured" => earned = {}

MembersNext ==
    /\ UNCHANGED part
    /\ \/ /\ part = "streak" /\ StreakNext
          /\ UNCHANGED <<achievementVars, featuredVars, statusVars,
                         controlVars, remindersVars, staffVars, settingsVars,
                         ruleVars>>
       \/ /\ part = "achievement" /\ AchievementNext
          /\ UNCHANGED <<streakVars, featuredVars, statusVars, controlVars,
                         remindersVars, staffVars, settingsVars, ruleVars>>
       \/ /\ part = "featured" /\ FeaturedNext
          /\ UNCHANGED <<streakVars, achievementVars, statusVars, controlVars,
                         remindersVars, staffVars, settingsVars, ruleVars>>
       \/ /\ part = "status" /\ StatusNext
          /\ UNCHANGED <<streakVars, achievementVars, featuredVars,
                         controlVars, remindersVars, staffVars, settingsVars,
                         ruleVars>>
       \/ /\ part = "control" /\ ControlNext
          /\ UNCHANGED <<streakVars, achievementVars, featuredVars,
                         statusVars, remindersVars, staffVars, settingsVars,
                         ruleVars>>
       \/ /\ part = "reminder" /\ RemindersNext
          /\ UNCHANGED <<streakVars, achievementVars, featuredVars,
                         statusVars, controlVars, staffVars, settingsVars,
                         ruleVars>>
       \/ /\ part = "staff" /\ StaffNext
          /\ UNCHANGED <<streakVars, achievementVars, featuredVars,
                         statusVars, controlVars, remindersVars, settingsVars,
                         ruleVars>>
       \/ /\ part = "settings" /\ SettingsNext
          /\ UNCHANGED <<streakVars, achievementVars, featuredVars,
                         statusVars, controlVars, remindersVars, staffVars,
                         ruleVars>>
       \/ /\ part = "rules" /\ RulesNext
          /\ UNCHANGED <<streakVars, achievementVars, featuredVars,
                         statusVars, controlVars, remindersVars, staffVars,
                         settingsVars>>

MembersSpec == MembersInit /\ [][MembersNext]_membersVars

\* Two dates to a month: the gap between the first and the last reaches over both.
MCMonthOf(d) == (d + 1) \div 2
MCChats == <<"g1", "g2">>
MCLiveCodes == <<"level">>
MCRankingCodes == <<"top">>
MCWeeklyCodes == <<"days">>
\* A switch, a choice of three and the themes: the menu has not all of them.
MCOrder == [is_paused |-> <<FALSE, TRUE>>, report_weekday |-> <<0, 1, 2>>,
            report_card_theme |-> <<"dark_pulse", "telegram_wave">>]
MCPremium == {"telegram_wave", "aurora_gold"}
MCShifts == {-1, 1}

\* The key of a streak at risk has the day: hours 0 and 1 are of one, 2 of the next.
MCStreakKey == [h \in Hours |-> IF h < 2 THEN <<"streak", 0>> ELSE <<"streak", 1>>]
MCExpiry == [u \in Users |-> 1]

\* A text, an answer, a photo like the text, a spoken answer, and the answer again; the
\* last in time has more than BurstSteps[3] in its window.
MCMessageDate == [m1 |-> 0, m2 |-> 1, m3 |-> 2, m4 |-> 3, m5 |-> 4]
MCContent ==
    [m1 |-> [text |-> TRUE, media |-> "none", reply |-> FALSE, print |-> "a", hash |-> "p"],
     m2 |-> [text |-> TRUE, media |-> "none", reply |-> TRUE, print |-> "b", hash |-> "q"],
     m3 |-> [text |-> FALSE, media |-> "photo", reply |-> FALSE, print |-> "c", hash |-> "r"],
     m4 |-> [text |-> TRUE, media |-> "voice", reply |-> TRUE, print |-> "d", hash |-> "s"],
     m5 |-> [text |-> TRUE, media |-> "none", reply |-> TRUE, print |-> "b", hash |-> "q"]]
MCRuleMessages == DOMAIN MCContent
MCNearHashes == {{"p", "r"}}
MCBurstSteps == <<1, 2, 3>>

=============================================================================
