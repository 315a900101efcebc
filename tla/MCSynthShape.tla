---------------------------- MODULE MCSynthShape ----------------------------
(* Instances of SynthShape for TLC: see the .cfg files. *)
EXTENDS SynthShape

\* Sizes below, at and above the limit, and the values clamped up to one.
SomeSizes == {-1, 2, 4}

Plainly == [task |-> "text2music", src |-> "none", ref |-> FALSE, n |-> 0, start |-> 0,
            end |-> -1, codes |-> <<-1, -1>>, dur |-> 0, steps |-> 2, custom |-> 0,
            strength |-> 2, noise |-> FALSE]

\* Codes: no field, one without a number, one and two codes.
TextAsks ==
    {[Plainly EXCEPT !.codes = c] : c \in {<<-1, -1>>, <<-1, 2>>, <<0, -1>>, <<0, 1>>}}
    \cup {[Plainly EXCEPT !.codes = <<1, 2>>, !.strength = h] : h \in 0 .. 1}
    \cup {[Plainly EXCEPT !.dur = d, !.ref = TRUE] : d \in {10, 80}}

\* A source of whole frames and one that ends within a frame.
CoverAsks ==
    {[Plainly EXCEPT !.task = t, !.src = s, !.n = 18, !.strength = h, !.noise = z,
                     !.steps = IF h = 0 THEN 0 ELSE 9, !.custom = IF z THEN 4 ELSE 1] :
        t \in {"cover", "extract"}, s \in {"audio", "latents"}, h \in 0 .. 1, z \in BOOLEAN}
    \cup {[Plainly EXCEPT !.task = "cover"]}

\* Six samples are a frame and a half, and the end of <<-6, 9>> is the last
\* sample of a frame of the padded source.
Regions == {<<0, -1>>, <<0, 13>>, <<7, 18>>, <<-6, -1>>, <<-6, 9>>, <<-10, 8>>, <<8, 34>>,
            <<10, 8>>}

RegionAsks(tasks) ==
    {[Plainly EXCEPT !.task = t, !.src = s, !.n = 23, !.start = r[1], !.end = r[2]] :
        t \in tasks, s \in {"audio", "latents"}, r \in Regions}

SomeAsks == TextAsks \cup CoverAsks \cup RegionAsks({"repaint", "lego"})
LegoAsks == RegionAsks({"lego"})
=============================================================================
