------------------------------ MODULE MCPot2po ------------------------------
(* Small message lists for Pot2po.                                         *)
EXTENDS Pot2po

CONSTANTS Open, Opens, Quit, Menu, Place1, Place2

Message(source, context) == NewUnit(source, context)
At(place, message) == [message EXCEPT !.locations = <<place>>]

(* "Open" and "Opens" are similar, "Quit" is like neither. *)
MCSimilarity ==
  [pair \in {Open, Opens, Quit} \X {Open, Opens, Quit} |->
     IF pair[1] = pair[2] THEN 100
     ELSE IF Quit \in {pair[1], pair[2]} THEN 10 ELSE 80]

(* Messages without contexts come and go, with fuzzy matching. *)
PlainPots ==
  { <<At(Place1, Message(Open, NoContext))>>,
    <<Message(Opens, NoContext), Message(Quit, NoContext)>>,
    <<Message(Quit, NoContext), Message(Open, NoContext), Message(Opens, NoContext)>> }

(* The same source with and without a context. *)
ContextPots ==
  { <<Message(Open, NoContext), Message(Open, Menu)>>,
    <<Message(Open, Menu)>>,
    <<Message(Open, NoContext)>> }

(* The messages of one place change. *)
LocationPots ==
  { <<At(Place1, Message(Open, NoContext)), At(Place2, Message(Open, Menu))>>,
    <<At(Place1, Message(Open, Menu)), At(Place2, Message(Quit, NoContext))>>,
    <<At(Place2, Message(Open, NoContext))>> }

(* One project has plain messages; the other has messages with and without *)
(* contexts, merged on ids, and messages that move from place to place,    *)
(* merged on locations, and matches nothing fuzzily.                       *)
MovingPots == ContextPots \cup LocationPots
AllPots == PlainPots \cup MovingPots
MCFollowing ==
  [p \in Pots |-> (Pots \cap (IF p \in PlainPots THEN PlainPots ELSE MovingPots)) \ {p}]
MCFuzzyMatching == [p \in Pots |-> p \in PlainPots]
MCMergeOn == [p \in Pots |-> IF p \in LocationPots THEN "location" ELSE "id"]

(* A compendium with one entry. *)
CONSTANT FromTM
NoTM == << >>
OneTM == << [NewUnit(Opens, NoContext) EXCEPT !.target = FromTM] >>

ASSUME PlainProjects
=============================================================================
