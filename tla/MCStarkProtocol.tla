-------------------------- MODULE MCStarkProtocol --------------------------
(* Parameters of StarkProtocol for TLC. *)
EXTENDS StarkProtocol

(* Masks over one trace of one or two columns and over two traces of one   *)
(* and two columns; rows repeat, go back and wrap around, columns are left *)
(* and come back.                                                          *)
MaskOf(widths) ==
  CASE widths = <<2>>    -> << <<0, 1>>, <<1, 0>>, <<5, 1>>, <<0, 0>> >>
    [] widths = <<1, 2>> -> << <<0, 1>>, <<0, 0>>, <<1, 2>>, <<2, 0>>, <<0, 2>>, <<3, 1>> >>
    [] widths = <<1, 1>> -> << <<0, 1>>, <<1, 0>> >>
    [] OTHER             -> << <<0, 0>>, <<1, 0>> >>

Params(widths, extension, nBreaks, logSize, logTrace, friSteps, nQueries, powBits) ==
  [widths |-> widths, nInteraction |-> 2, mask |-> MaskOf(widths), extension |-> extension,
   nBreaks |-> nBreaks, logSize |-> logSize, logTrace |-> logTrace, friSteps |-> friSteps,
   nQueries |-> nQueries, powBits |-> powBits]

(* All shapes of the protocol: with and without interaction and work, one  *)
(* to three FRI layers, steps of zero, one and two.  An extension field    *)
(* excludes the interaction.  The trace is long enough for the steps.      *)
AllShapes ==
  {Params(widths, widths = <<2>> /\ powBits = 1, nBreaks, 3, 2, friSteps, 2, powBits) :
     widths \in {<<2>>, <<1, 2>>}, nBreaks \in {1, 2}, powBits \in {0, 1},
     friSteps \in {<<0>>, <<2>>, <<1, 1>>, <<0, 2>>, <<0, 1, 1>>, <<1, 0>>}}
    \union
  {Params(widths, FALSE, nBreaks, 4, 3, <<1, 2>>, 2, powBits) :
     widths \in {<<2>>, <<1, 2>>}, nBreaks \in {1, 2}, powBits \in {0, 1}}

(* Three queries to up to three layers of a domain of sixteen, and two to  *)
(* layers whose second has all of it.                                      *)
ManyQueries ==
  {Params(<<1>>, FALSE, 1, 4, 3, friSteps, 3, 0) : friSteps \in {<<1, 1, 1>>, <<1, 2>>}}
    \union {Params(<<1>>, FALSE, 1, 5, 4, <<0, 2, 2>>, 2, 0)}

CutShapes ==
  {Params(<<1, 1>>, FALSE, 1, 4, 3, <<1, 1, 1>>, 2, 1),
   Params(<<1>>, TRUE, 1, 3, 2, <<0, 2>>, 2, 0)}

MCParameters == AllShapes \union ManyQueries \union CutShapes
=============================================================================
