---------------------------- MODULE MCGovernance -----------------------------
(***************************************************************************)
(* Instances of Governance for TLC.                                        *)
(***************************************************************************)
EXTENDS Governance

CONSTANTS ann, ben, cyd, v1, v2

Act(kind, who, value) == [kind |-> kind, who |-> who, value |-> value]

\* Two founders, listed once each
Pair == {<<ann, ben>>}

\* Rules change: a third signer comes, a founder goes, the threshold drops to 0
RuleActions == {Act("AddSigner", cyd, 0), Act("RemoveSigner", ann, 0),
                Act("SetThreshold", None, 0), Act("SetTimelockDelay", None, 0)}

\* The proxy: upgrades and the pause switch, by proposal and directly
ProxyActions == {Act("Upgrade", v1, 0), Act("Upgrade", v2, 0),
                 Act("Pause", None, 0), Act("Unpause", None, 0)}
=============================================================================
