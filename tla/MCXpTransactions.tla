--------------------------- MODULE MCXpTransactions ---------------------------
EXTENDS XpTransactions, TLC

CONSTANTS c1, c2, u1, u2, m1, m2, m3, d1, d2, m1sent, m2sent, m3sent, liked, report, adjusted

MCJobOf(kind, c, u, m, delta, earners) ==
    [kind |-> kind, chat |-> c, user |-> u, msg |-> m,
     day |-> IF c = c2 THEN d2 ELSE d1, gday |-> d1,
     delta |-> delta, earners |-> earners]

\* Two authors in one group, one of them in a second group too, where the date is
\* already the next one; a reaction, the rewards of a weekly report and an
\* adjustment meet the same member.
MCAllJobs ==
    m1sent :> MCJobOf("message", c1, u1, m1, 0, << >>)
 @@ m2sent :> MCJobOf("message", c1, u2, m2, 0, << >>)
 @@ m3sent :> MCJobOf("message", c2, u1, m3, 0, << >>)
 @@ liked :> MCJobOf("reaction", c1, u1, m1, 1, << >>)
 @@ report :> MCJobOf("weekly", c1, u1, m1, 0, <<u1>>)
 @@ adjusted :> MCJobOf("adjust", c1, u1, m1, -1, << >>)
MCJob == [t \in Txns |-> MCAllJobs[t]]
=============================================================================
