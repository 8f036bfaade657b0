------------------------------ MODULE MessageRules ------------------------------
(***************************************************************************)
(* What a message of one user in one group is worth: classify_message of   *)
(* the bot (app/bot/routers/groups.py), the rules of                       *)
(* app/services/gamification.py and award_message_xp_in_session            *)
(* (app/repositories/gamification.py), against messages that come late or  *)
(* again.                                                                  *)
(*                                                                         *)
(* An award locks the row of the group and of the member until it is       *)
(* committed and reads the user's other messages behind that lock, so that *)
(* it is one step here.  An adjustment (user_control/xp.py) and the reward *)
(* of an achievement behind a weekly report (gamification_v2.py) lock      *)
(* nothing: they read the member, and commit what has changed in the       *)
(* attributes they have read, over what awards have written meanwhile.     *)
(* XpTransactions has the locks and the totals; here are the levels.  One  *)
(* day is modelled, with the cap of the group; dates are seconds.          *)
(***************************************************************************)
EXTENDS Integers, FiniteSets, Sequences, WrittenRows

CONSTANTS
    RuleMessages,
    MessageDate,        \* date
    Content,            \* [text, media, reply, print, hash] as content_fingerprints finds it
    NoPrint,            \* of a message without text and media
    NearHashes,         \* the pairs of hashes that differ in at most three bits
    XpCooldown,         \* XP_COOLDOWN_SECONDS
    BurstWindow,        \* BURST_WINDOW_MINUTES
    BurstSteps,         \* 20, 30 and 40 messages
    XpCap,              \* GROUP_DAILY_XP_CAP
    LevelUnit,          \* 50
    Changers,           \* adjustments and reports in progress
    MaxRedeliveries,    \* bound
    MaxXpChanges        \* bound: adjustments and rewards that are committed

\* MessageActivity as classify_message makes it.
Classified(c) ==
    /\ c.text \in BOOLEAN /\ c.reply \in BOOLEAN
    /\ c.media \in {"none", "photo", "voice", "other"}

\* content_fingerprints: a text that counts and a medium have a print.
Fingerprinted(c) == c.text \/ c.media # "none" => c.print # NoPrint

ASSUME RulesAssumption ==
    /\ \A m \in RuleMessages : Classified(Content[m]) /\ Fingerprinted(Content[m])
    /\ MessageDate \in [RuleMessages -> Nat]
    /\ XpCooldown \in Nat /\ BurstWindow \in Nat /\ XpCooldown <= BurstWindow
    /\ BurstSteps \in [1..3 -> Nat] /\ XpCap \in Nat /\ LevelUnit \in Nat \ {0}
    /\ MaxRedeliveries \in Nat /\ MaxXpChanges \in Nat

VARIABLES
    authors,            \* the rows of MessageAuthor
    gained,             \* xp_awarded of each
    dayXp,              \* xp_earned of the day
    total, level,       \* xp_total and level of the member
    totalChange,        \* the adjustments and rewards in progress, with what they have read
    redelivered, adjusted,
    awards,             \* history: the messages that were given XP, in that order
    levelMissed         \* history: the last change of the total had read another level

ruleVars == <<authors, gained, dayXp, total, level, totalChange, redelivered, adjusted, awards,
              levelMissed>>

-----------------------------------------------------------------------------
(* The rules. *)

MessageBaseXp(c) ==
    LET media == IF c.media \in {"photo", "voice"} THEN 2 ELSE 0
    IN  (IF c.text THEN 1 ELSE 0) + media + (IF c.reply /\ (c.text \/ media > 0) THEN 2 ELSE 0)

\* burst_multiplier, in quarters
Multiplier(recent) ==
    IF recent <= BurstSteps[1] THEN 4
    ELSE IF recent <= BurstSteps[2] THEN 2
    ELSE IF recent <= BurstSteps[3] THEN 1
    ELSE 0

AdjustedXp(base, recent) ==
    IF base = 0 \/ Multiplier(recent) = 0 THEN 0
    ELSE LET xp == (base * Multiplier(recent)) \div 4 IN IF xp < 1 THEN 1 ELSE xp

XpThreshold(l) == LevelUnit * (l - 1) * l

\* Exact arithmetic; for the sums of _level_for_xp the floating point is exact enough.
LevelOf(xp) == CHOOSE l \in 1..(xp + 1) : XpThreshold(l) <= xp /\ xp < XpThreshold(l + 1)

\* level_for_xp: a root in floating point, which may be off by one, and two loops that
\* mend it.
Raised(l, xp) == CHOOSE k \in l..(l + xp + 1) :
    XpThreshold(k + 1) > xp /\ \A j \in l..(k - 1) : XpThreshold(j + 1) <= xp
Lowered(l, xp) == CHOOSE k \in 1..l :
    (k = 1 \/ XpThreshold(k) <= xp) /\ \A j \in (k + 1)..l : XpThreshold(j) > xp
LevelForXp(guess, xp) == Lowered(Raised(guess, xp), xp)
Guesses(xp) == {l \in (LevelOf(xp) - 1)..(LevelOf(xp) + 1) : l >= 1}

Similar(m, n) ==
    /\ Content[m].print # NoPrint
    /\ \/ Content[m].print = Content[n].print
       \/ {Content[m].hash, Content[n].hash} \in NearHashes

\* The user's other messages of the window that ends with m.
Recent(m) == {n \in authors \ {m} : /\ MessageDate[n] >= MessageDate[m] - BurstWindow
                                 /\ MessageDate[n] <= MessageDate[m]}

\* Faulty: the rows come in the order of their dates.
EarliestAwarded(S) == {n \in S : gained[n] > 0 /\
                          \A o \in S : gained[o] > 0 => MessageDate[n] <= MessageDate[o]}

\* latest_awarded, or several of one date, or none
LatestAwarded(S) == {n \in S : gained[n] > 0 /\
                        \A o \in S : gained[o] > 0 => MessageDate[o] <= MessageDate[n]}

CoolingDown(m) == \E n \in LatestAwarded(Recent(m)) : MessageDate[m] - MessageDate[n] < XpCooldown

RequestedXp(m) ==
    IF CoolingDown(m) \/ \E n \in Recent(m) : Similar(m, n) THEN 0
    ELSE AdjustedXp(MessageBaseXp(Content[m]), Cardinality(Recent(m)) + 1)

-----------------------------------------------------------------------------
(* Updates, adjustments and rewards. *)

Adjustments == {-2 * LevelUnit, 2 * LevelUnit, 6 * LevelUnit - 1}
Rewards == {LevelUnit}
TotalChange == [amount : Int, total : Nat, level : Nat \ {0}, new : Nat \ {0}]

RulesTypeOK ==
    /\ authors \subseteq RuleMessages
    /\ gained \in [RuleMessages -> 0..XpCap]
    /\ dayXp \in 0..XpCap /\ total \in Nat /\ level \in Nat \ {0}
    /\ \A c \in Changers : totalChange[c] \subseteq TotalChange
    /\ redelivered \in 0..MaxRedeliveries /\ adjusted \in 0..MaxXpChanges
    /\ \A i \in DOMAIN awards : awards[i] \in RuleMessages
    /\ levelMissed \in BOOLEAN

RulesInit ==
    /\ authors = {} /\ gained = [m \in RuleMessages |-> 0]
    /\ dayXp = 0 /\ total = 0 /\ level = 1
    /\ totalChange = [c \in Changers |-> {}]
    /\ redelivered = 0 /\ adjusted = 0 /\ awards = <<>> /\ levelMissed = FALSE

\* min of what is asked for and what the cap leaves
Granted(m) == LET xp == RequestedXp(m)
                  room == XpCap - dayXp
              IN  IF xp <= room THEN xp ELSE room

\* track_group_message: commands and messages of bots never come so far, and one that the
\* group does not track changes nothing.
Track(m) ==
    /\ m \in authors => redelivered < MaxRedeliveries
    /\ redelivered' = IF m \in authors THEN redelivered + 1 ELSE redelivered
    /\ authors' = authors \union {m}
    /\ LET xp == IF gained[m] > 0 THEN 0 ELSE Granted(m) IN
         /\ gained' = [gained EXCEPT ![m] = @ + xp]
         /\ dayXp' = dayXp + xp /\ total' = total + xp
         /\ awards' = IF xp > 0 THEN Append(awards, m) ELSE awards
         /\ IF xp > 0 THEN \E guess \in Guesses(total + xp) : level' = LevelForXp(guess, total + xp)
                      ELSE UNCHANGED level
         /\ levelMissed' = (levelMissed /\ xp = 0)
    /\ UNCHANGED <<totalChange, adjusted>>

\* A change of the total reads the member and computes the level that goes with it.
ReadTotal(c, amount, new) ==
    /\ totalChange[c] = {}
    /\ total + amount >= 0
    /\ totalChange' = [totalChange EXCEPT ![c] =
                          {[amount |-> amount, total |-> total, level |-> level, new |-> new]}]
    /\ UNCHANGED <<authors, gained, dayXp, total, level, redelivered, adjusted, awards, levelMissed>>

\* Faulty: an adjustment leaves the level.
ReadUnlevelled(c) == \E amount \in Adjustments : ReadTotal(c, amount, level)

\* adjust_xp of an administrator, with its own formula
ReadAdjusted(c) == \E amount \in Adjustments : ReadTotal(c, amount, LevelOf(total + amount))

\* _apply_achievement_rewards behind a weekly report
ReadRewarded(c) == \E amount \in Rewards : \E guess \in Guesses(total + amount) :
                       ReadTotal(c, amount, LevelForXp(guess, total + amount))

\* Its commit.
ChangeTotal(c) ==
    \E q \in totalChange[c] :
       /\ adjusted < MaxXpChanges /\ adjusted' = adjusted + 1
       /\ total' = Written(q.total + q.amount, q.total, total)
       /\ level' = Written(q.new, q.level, level)
       /\ levelMissed' = (q.level # level)
       /\ totalChange' = [totalChange EXCEPT ![c] = {}]
       /\ UNCHANGED <<authors, gained, dayXp, redelivered, awards>>

\* An error, or the process dies.
DropChange(c) ==
    /\ totalChange[c] # {}
    /\ totalChange' = [totalChange EXCEPT ![c] = {}]
    /\ UNCHANGED <<authors, gained, dayXp, total, level, redelivered, adjusted, awards, levelMissed>>

RulesNext ==
    \/ \E m \in RuleMessages : Track(m)
    \/ \E c \in Changers : ReadAdjusted(c) \/ ReadRewarded(c) \/ ChangeTotal(c) \/ DropChange(c)

RulesSpec == RulesInit /\ [][RulesNext]_ruleVars

-----------------------------------------------------------------------------
(* Properties. *)

\* XP comes "not more often than once in 5 seconds" and "exact and nearly equal messages
\* are blocked" (README.md:89, README.md:91): of two messages that were given XP, one
\* behind the other, the second is a cooldown later and not similar, unless it has the
\* earlier date: a message that comes late is compared with those before it only
\* (app/repositories/gamification.py:195).  A message that got nothing and comes again
\* is given XP only by the same rule.
SpamEarnsNothing ==
    \A j \in DOMAIN awards : \A i \in 1..(j - 1) :
        LET gap == MessageDate[awards[j]] - MessageDate[awards[i]] IN
        gap >= 0 => /\ gap >= XpCooldown
                    /\ gap <= BurstWindow => ~Similar(awards[j], awards[i])

\* "Level L begins at a total of 50 (L - 1) L" (README.md:97) and "levels match final XP
\* totals" (2026-07-26-chatpulse-architecture-2-0-design.md:119).  It does not hold of
\* every state: an adjustment overwrites the total of an award that came between its read
\* and its write, and leaves the level, which is the one it had read.
LevelFits == XpThreshold(level) <= total /\ total < XpThreshold(level + 1)

\* XP is earned, and the level is that of the total, whichever of the two formulas has set
\* it and wherever the root is rounded to, whatever an adjustment or a reward overlaps
\* with: but where the last of them had read another level than it found at its commit
\* (user_control/xp.py:41, gamification_v2.py:93).  The next award mends that.
XpIsEarned == SpamEarnsNothing /\ (~levelMissed => LevelFits)

===============================================================================
