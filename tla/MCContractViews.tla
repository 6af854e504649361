---------------------------- MODULE MCContractViews ----------------------------
(* The configuration has a contract of each type, two smoothing functions, *)
(* and as many pulse contracts as the sums of totals need to differ.       *)
EXTENDS ContractViews

CONSTANTS o, e, s, t, c, p, q, r

Contract(type, smoothing, address) == [type |-> type, smoothing |-> smoothing, address |-> address]

MCConfig ==
  <<Contract("oldEnergy", "cvadratic", o), Contract("energy", "cvadratic", e),
    Contract("tokenSnapshot", "linear", s), Contract("tokenSnapshot", "cvadratic", t),
    Contract("onChain", "linear", c),
    Contract("pulse", "linear", p), Contract("pulse", "linear", q), Contract("pulse", "linear", r)>>

\* Votes that are over, under way or to come when the first epoch runs.
MCVotings == {v \in [start : 1 .. 3, end : 1 .. 3] : v.start <= v.end}
=============================================================================
