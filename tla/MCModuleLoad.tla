---------------------------- MODULE MCModuleLoad ----------------------------
(* An instance of ModuleLoad for TLC: see ModelStore.cfg. *)
EXTENDS ModuleLoad, TLC

CONSTANTS lm, cond, dit, vae, wq, wv, wn
CONSTANTS MaxHolds,  \* bound: how often one handle is held at a time
          MaxLost    \* bound: refused loads that kept their backends

AddrSymmetry == Permutations(Addrs)

Bounded ==
    /\ \A a \in Addrs : held[a] <= MaxHolds
    /\ stray["pool"] <= MaxLost

KindOf == lm :> "lm" @@ cond :> "cond" @@ dit :> "dit" @@ vae :> "vae_dec"

\* An adapter for two weights, wq and wv, or wn, which is not staged; of each weight
\* it holds all parts, none, or all but one, or one of an odd shape.
Halves == {[a |-> "fits", b |-> "fits", m |-> "fits"], [a |-> "none", b |-> "none", m |-> "none"],
           [a |-> "fits", b |-> "fits", m |-> "none"], [a |-> "fits", b |-> "none", m |-> "none"],
           [a |-> "none", b |-> "fits", m |-> "none"], [a |-> "odd", b |-> "fits", m |-> "none"],
           [a |-> "fits", b |-> "fits", m |-> "odd"]}
None == [a |-> "none", b |-> "none", m |-> "none"]

AFile(x, y, z, dir, dora, targets) ==
    [dir |-> dir, lokr |-> FALSE, alias |-> FALSE, config |-> TRUE, dora |-> dora,
     targets |-> targets,
     a |-> wq :> x.a @@ wv :> y.a @@ wn :> z.a,
     b |-> wq :> x.b @@ wv :> y.b @@ wn :> z.b,
     m |-> wq :> x.m @@ wv :> y.m @@ wn :> z.m]

Targets == {{{wq, wv}}, {{wq}, {wv}}, {{wq}}, {{wq, wv}, {wn}}}

Plain == {AFile(x, y, None, TRUE, dora, t) : x \in Halves, y \in Halves, dora \in BOOLEAN, t \in Targets}
            \cup {AFile(x, y, z, FALSE, FALSE, {}) : x \in Halves, y \in Halves,
                    z \in {None, [a |-> "fits", b |-> "fits", m |-> "none"]}}
AdapterFiles ==
    Plain \cup {[f EXCEPT !.lokr = TRUE] : f \in Plain} \cup {[f EXCEPT !.alias = TRUE] : f \in Plain}
          \cup {[f EXCEPT !.config = FALSE] : f \in Plain}

Modes == {[functional |-> FALSE, normalized |-> FALSE, zero |-> FALSE],
          [functional |-> TRUE, normalized |-> FALSE, zero |-> FALSE],
          [functional |-> FALSE, normalized |-> TRUE, zero |-> FALSE],
          [functional |-> TRUE, normalized |-> TRUE, zero |-> TRUE]}
=============================================================================
