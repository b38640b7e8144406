----------------------------- MODULE Gamification -----------------------------
(***************************************************************************)
(* The two competitions of the traders.  Scores, badges, streaks,          *)
(* challenges and rewards, counter/gamification.rs: every part adds to one *)
(* score per user, which decides the tier and the place on the             *)
(* leaderboard, and the tier and the streak decide what a challenge pays.  *)
(* Trading seasons, counter/src/seasons.rs, with the badges of counter/    *)
(* src/rewards.rs, have a board of their own each.  The two share no       *)
(* state, but their boards are kept alike.                                 *)
(*                                                                         *)
(* A claimer gets a tenth of the reward pool times two multipliers and the *)
(* pool is not reduced: more than the pool may be paid.  The end time of a *)
(* season is stored and read by nothing: a season ends when end_season is  *)
(* called, trades go on counting for it after that, and its badges stay.   *)
(***************************************************************************)
EXTENDS Integers, Sequences, FiniteSets, FiniteSetsExt, Sums

CONSTANTS
    Users, BoardSize,
    TradingBadges, OtherBadges, Points,  \* points of a badge; TradingBadges lead to Master
    Master, Champion, ChampionWins,      \* MasterTrader; ChallengeChampion, after 3 wins
    StreakBonuses,          \* <<length, points>>: 25 points from five wins on, ..
    TierScores,             \* from which score a tier starts, the first 0
    TierParts, StreakStep,  \* reward multiplier of a tier; 5 wins for a tenth more
    Day,
    Target, Completion,     \* of the objective of a challenge, and its points
    Pools, Places, Durations, MaxChallenges, MaxScore, MaxStreak, MaxTime,  \* bounds
    Traders, SeasonPlaces,  \* of the seasons: who trades, and the size of their boards
    Podium,                 \* 3: how many are honoured
    Volumes, MaxVolume, MaxSeasons  \* bounds

GamificationAssumption ==
    /\ {BoardSize, SeasonPlaces, StreakStep, Target, MaxTime} \subseteq Nat \ {0}
    /\ Champion \in OtherBadges /\ IsFiniteSet(TradingBadges) /\ IsFiniteSet(OtherBadges)
    /\ Points \in [TradingBadges \cup OtherBadges \cup {Master, Champion} -> Nat \ {0}]
    /\ StreakBonuses \in Seq(Nat \X Nat)
    /\ TierScores \in Seq(Nat) /\ TierParts \in Seq(Nat) /\ Len(TierScores) = Len(TierParts)
    /\ TierScores # <<>> /\ TierScores[1] = 0
    /\ {Day, Completion, Podium, ChampionWins} \subseteq Nat
    /\ Pools \subseteq Nat /\ Places \subseteq Nat /\ Durations \subseteq Nat /\ Volumes \subseteq Nat

VARIABLES
    profiles, badges,
    board,          \* by score; the other metrics have no writer
    challenges,     \* in the order of their ids
    progress,       \* of a challenge: user -> ChallengeProgress, for those who joined
    history,        \* RewardDistribution
    now,
    ended,          \* of every season, in the order of their ids
    scores,         \* by season, UserSeasonScore: score and volume are one
    boards,
    topTraders,     \* who has Badge::TopTrader
    podiums         \* history: by season, whom its end honoured

gameVars == <<profiles, badges, board, challenges, progress, history, now>>
seasonVars == <<ended, scores, boards, topTraders, podiums>>
vars == <<gameVars, seasonVars>>

Profile == [score : Nat, streak : Nat, daily : Nat, bestDaily : Nat, seen : Nat, won : Nat,
            joined : Nat, earned : Nat, pending : Nat]
Challenge == [pool : Nat, places : Nat, tier : Nat, joined : Nat, end : Nat, active : BOOLEAN]
Progress == [done : Nat, met : BOOLEAN, claimed : BOOLEAN]

Init ==
    /\ profiles = [u \in Users |-> [score |-> 0, streak |-> 0, daily |-> 0, bestDaily |-> 0,
                      seen |-> 0, won |-> 0, joined |-> 0, earned |-> 0, pending |-> 0]]
    /\ badges = [u \in Users |-> {}] /\ board = <<>>
    /\ challenges = <<>> /\ progress = <<>> /\ history = <<>> /\ now = 1
    /\ ended = <<>> /\ scores = <<>> /\ boards = <<>> /\ topTraders = {} /\ podiums = <<>>

TypeOK ==
    /\ profiles \in [Users -> Profile] /\ \A u \in Users : badges[u] \subseteq DOMAIN Points
    /\ challenges \in Seq(Challenge) /\ Len(progress) = Len(challenges) /\ now \in 1..MaxTime
    /\ \A c \in DOMAIN progress :
          /\ DOMAIN progress[c] \subseteq Users
          /\ \A u \in DOMAIN progress[c] : progress[c][u] \in Progress
    /\ ended \in Seq(BOOLEAN) /\ topTraders \subseteq Traders
    /\ Len(scores) = Len(ended) /\ Len(boards) = Len(ended) /\ Len(podiums) = Len(ended)

-----------------------------------------------------------------------------
(* The boards.                                                             *)

\* Mutation: the user's earlier entry stays
Kept(list, u) == list

\* The list without u's entry, the first if there were several
Without(list, u) ==
    IF \E i \in DOMAIN list : list[i].user = u
    THEN LET i == CHOOSE i \in DOMAIN list :
                     list[i].user = u /\ \A j \in 1..i - 1 : list[j].user # u
         IN  SubSeq(list, 1, i - 1) \o SubSeq(list, i + 1, Len(list))
    ELSE list

\* How many of the list a new last entry does not pass on its way up
Above(list, score) ==
    CHOOSE k \in 0..Len(list) :
        /\ \A i \in k + 1..Len(list) : list[i].score < score
        /\ k > 0 => list[k].score >= score

\* The list with u's entry put back above the lower ones, cut at its size
Placed(list, u, score, size) ==
    LET others == Without(list, u)
        above == Above(others, score)
        all == SubSeq(others, 1, above) \o <<[user |-> u, score |-> score]>>
                 \o SubSeq(others, above + 1, Len(others))
    IN  IF Len(all) > size THEN SubSeq(all, 1, size) ELSE all

-----------------------------------------------------------------------------
(* Scores, streaks and badges.                                             *)

\* calculate_tier of the lifetime score; score and lifetime score are one
Tier(score) == CHOOSE i \in DOMAIN TierScores :
    TierScores[i] <= score /\ \A j \in i + 1..Len(TierScores) : score < TierScores[j]

\* add_score to a profile already changed, with the leaderboard
Scored(u, profile, points) ==
    /\ profile.score + points <= MaxScore
    /\ profiles' = [profiles EXCEPT ![u] = [profile EXCEPT !.score = @ + points]]
    /\ board' = IF points = 0 THEN board
                ELSE Placed(board, u, profile.score + points, BoardSize)

PointsOf(set) == SetTotal(Points, set)

\* A streak of days grows by a call within a day, also the second of the same day
RecordActivity(u) ==
    LET p == profiles[u]
        elapsed == now - p.seen
        daily == IF p.seen = 0 \/ elapsed > 2 * Day THEN 1
                 ELSE IF elapsed \in 1..Day THEN p.daily + 1 ELSE p.daily
    IN  /\ profiles' = [profiles EXCEPT ![u].daily = daily, ![u].seen = now,
                           ![u].bestDaily = Max({@, daily})]
        /\ UNCHANGED <<badges, board, challenges, progress, history, now>>

\* check_and_award_achievements: the caller tells which conditions are met
AwardAchievements(u, met) ==
    LET had == badges[u]
        all == had \cup met
        master == IF TradingBadges \subseteq all THEN {Master} ELSE {}
        new == (met \cup master) \ had
    IN  /\ badges' = [badges EXCEPT ![u] = @ \cup new]
        /\ Scored(u, profiles[u], PointsOf(new))
        /\ UNCHANGED <<challenges, progress, history, now>>

\* The points of a length are given by every win from there on
StreakPoints(streak) ==
    Total([k \in DOMAIN StreakBonuses |->
              IF streak >= StreakBonuses[k][1] THEN StreakBonuses[k][2] ELSE 0],
          Len(StreakBonuses))

RecordProfitableTrade(u) ==
    LET p == [profiles[u] EXCEPT !.streak = @ + 1]
    IN  /\ p.streak <= MaxStreak
        /\ Scored(u, p, StreakPoints(p.streak))
        /\ UNCHANGED <<badges, challenges, progress, history, now>>

RecordLosingTrade(u) ==
    /\ profiles' = [profiles EXCEPT ![u].streak = 0]
    /\ UNCHANGED <<badges, board, challenges, progress, history, now>>

-----------------------------------------------------------------------------
(* Challenges.                                                             *)

CreateChallenge(pool, places, tier, duration) ==
    /\ Len(challenges) < MaxChallenges
    /\ challenges' = Append(challenges, [pool |-> pool, places |-> places, tier |-> tier,
                               joined |-> 0, end |-> now + duration, active |-> TRUE])
    /\ progress' = Append(progress, <<>>)
    /\ UNCHANGED <<profiles, badges, board, history, now>>

Joined(u, c) == u \in DOMAIN progress[c]

WithProgress(u, c, p) ==
    [progress EXCEPT ![c] = [v \in DOMAIN progress[c] \cup {u} |->
                                IF v = u THEN p ELSE progress[c][v]]]

\* Zero places: any number may join
JoinChallenge(u, c) ==
    LET ch == challenges[c]
    IN  /\ ch.active /\ now <= ch.end
        /\ Tier(profiles[u].score) >= ch.tier
        /\ ch.places > 0 => ch.joined < ch.places
        /\ ~Joined(u, c)
        /\ progress' = WithProgress(u, c, [done |-> 0, met |-> FALSE, claimed |-> FALSE])
        /\ challenges' = [challenges EXCEPT ![c].joined = @ + 1]
        /\ profiles' = [profiles EXCEPT ![u].joined = @ + 1]
        /\ UNCHANGED <<badges, board, history, now>>

UpdateProgress(u, c) ==
    LET p == [progress[c][u] EXCEPT !.done = @ + 1]
    IN  /\ challenges[c].active /\ now <= challenges[c].end
        /\ Joined(u, c) /\ ~progress[c][u].met
        /\ IF p.done >= Target
           THEN /\ Scored(u, profiles[u], Completion)
                /\ progress' = WithProgress(u, c, [p EXCEPT !.met = TRUE])
           ELSE /\ progress' = WithProgress(u, c, p)
                /\ UNCHANGED <<profiles, board>>
        /\ UNCHANGED <<badges, challenges, history, now>>

Reward(u, c) ==
    LET p == profiles[u]
        streakParts == 10000 + Min({(p.streak \div StreakStep) * 1000, 10000})
    IN  ((challenges[c].pool \div 10) * TierParts[Tier(p.score)] * streakParts)
           \div (10000 * 10000)

\* Mutation: the claim is not noted
ClaimNoted(p) == p

\* claim_challenge_reward notes the claim
Claimed(p) == [p EXCEPT !.claimed = TRUE]

\* Also after the challenge has ended; the third win brings a badge
ClaimChallengeReward(u, c) ==
    LET p == profiles[u]
        paid == [p EXCEPT !.pending = @ + Reward(u, c), !.won = @ + 1]
        champion == paid.won >= ChampionWins /\ Champion \notin badges[u]
    IN  /\ Joined(u, c) /\ progress[c][u].met /\ ~progress[c][u].claimed
        /\ progress' = WithProgress(u, c, Claimed(progress[c][u]))
        /\ history' = Append(history, [user |-> u, amount |-> Reward(u, c), challenge |-> c])
        /\ Scored(u, paid, IF champion THEN Points[Champion] ELSE 0)
        /\ badges' = [badges EXCEPT ![u] = @ \cup (IF champion THEN {Champion} ELSE {})]
        /\ UNCHANGED <<challenges, now>>

FinalizeExpiredChallenges ==
    /\ challenges' = [c \in DOMAIN challenges |->
          [challenges[c] EXCEPT !.active = @ /\ now <= challenges[c].end]]
    /\ UNCHANGED <<profiles, badges, board, progress, history, now>>

\* The claim is recorded too, under no challenge
ClaimRewards(u) ==
    /\ profiles[u].pending > 0
    /\ profiles' = [profiles EXCEPT ![u].pending = 0, ![u].earned = @ + profiles[u].pending]
    /\ history' = Append(history, [user |-> u, amount |-> profiles[u].pending, challenge |-> 0])
    /\ UNCHANGED <<badges, board, challenges, progress, now>>

Tick == now < MaxTime /\ now' = now + 1
        /\ UNCHANGED <<profiles, badges, board, challenges, progress, history>>

-----------------------------------------------------------------------------
(* Seasons.                                                                *)

StartSeason ==
    /\ ended # <<>> => ended[Len(ended)]
    /\ Len(ended) < MaxSeasons
    /\ ended' = Append(ended, FALSE)
    /\ scores' = Append(scores, [u \in Traders |-> 0])
    /\ boards' = Append(boards, <<>>)
    /\ podiums' = Append(podiums, {})
    /\ UNCHANGED topTraders

EndSeason ==
    LET s == Len(ended)
        honoured == {boards[s][i].user : i \in {j \in DOMAIN boards[s] : j <= Podium}}
    IN  /\ s > 0 /\ ~ended[s]
        /\ ended' = [ended EXCEPT ![s] = TRUE]
        /\ topTraders' = topTraders \cup honoured
        /\ podiums' = [podiums EXCEPT ![s] = honoured]
        /\ UNCHANGED <<scores, boards>>

UpdateUserScore(u, v) ==
    LET s == Len(ended)
        score == scores[s][u] + v
    IN  /\ s > 0 /\ score <= MaxVolume
        /\ scores' = [scores EXCEPT ![s][u] = score]
        /\ boards' = [boards EXCEPT ![s] = Placed(@, u, score, SeasonPlaces)]
        /\ UNCHANGED <<ended, topTraders, podiums>>

-----------------------------------------------------------------------------
GamesNext ==
    \/ \E u \in Users :
          \/ RecordActivity(u) \/ RecordProfitableTrade(u) \/ RecordLosingTrade(u)
          \/ \E met \in SUBSET (TradingBadges \cup OtherBadges) :
                met # {} /\ AwardAchievements(u, met)
          \/ ClaimRewards(u)
    \/ \E pool \in Pools, n \in Places, t \in DOMAIN TierScores, d \in Durations :
          CreateChallenge(pool, n, t, d)
    \/ \E u \in Users, c \in DOMAIN challenges :
          JoinChallenge(u, c) \/ UpdateProgress(u, c) \/ ClaimChallengeReward(u, c)
    \/ FinalizeExpiredChallenges \/ Tick

SeasonsNext == StartSeason \/ EndSeason \/ \E u \in Traders, v \in Volumes : UpdateUserScore(u, v)

Next ==
    \/ GamesNext /\ UNCHANGED seasonVars
    \/ SeasonsNext /\ UNCHANGED gameVars

Spec == Init /\ [][Next]_vars

-----------------------------------------------------------------------------
\* A board ranks the users by their scores and leaves out nobody who is better than the
\* last on it
Ranks(list, points, size) ==
    /\ \A i \in DOMAIN list : list[i].score = points[list[i].user]
    /\ \A i, j \in DOMAIN list : i < j =>
          list[i].user # list[j].user /\ list[i].score >= list[j].score
    /\ \A u \in DOMAIN points : \/ \E i \in DOMAIN list : list[i].user = u
                                \/ points[u] = 0
                                \/ Len(list) = size /\ points[u] <= list[size].score

\* The leaderboard ranks the scores, whichever part of the system earned them.
BoardRanksScores == Ranks(board, [u \in Users |-> profiles[u].score], BoardSize)

\* The board of every season ranks the traders by what they traded, to the last place
\* and after any number of overtakings, and a badge was won on a podium.
SeasonsRankTraders ==
    /\ \A s \in DOMAIN boards : Ranks(boards[s], scores[s], SeasonPlaces)
    /\ topTraders = UNION {podiums[s] : s \in DOMAIN podiums}

\* What the history shows as paid to u under the ids, of challenges or 0 for a claim
Paid(u, ids) ==
    Total([i \in DOMAIN history |->
              IF history[i].user = u /\ history[i].challenge \in ids
              THEN history[i].amount ELSE 0],
          Len(history))

\* Every reward is paid once: the history has at most one payment per user and challenge,
\* of somebody who joined it within its places, what it shows as won is what is pending
\* or claimed, and what it shows as claimed is what the profile has earned.
RewardsPaidOnce ==
    /\ \A i, j \in DOMAIN history :
          history[i].challenge > 0 /\ history[i].user = history[j].user
             /\ history[i].challenge = history[j].challenge => i = j
    /\ \A u \in Users :
          /\ Paid(u, Nat \ {0}) = profiles[u].pending + profiles[u].earned
          /\ Paid(u, {0}) = profiles[u].earned
    /\ \A c \in DOMAIN challenges :
          /\ challenges[c].joined = Cardinality(DOMAIN progress[c])
          /\ challenges[c].places > 0 => challenges[c].joined <= challenges[c].places
=============================================================================
