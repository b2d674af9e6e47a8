---------------------------- MODULE MCInstructions ----------------------------
(***************************************************************************)
(* The machines of the run about instructions and program arguments.       *)
(***************************************************************************)
EXTENDS MCMachine

(* Arguments that fit the stack of four words, and two that do not; with   *)
(* the text and a page of kernel data they take the last page.             *)
MCArgumentVectors ==
    {<<>>, <<<<5>>>>, <<<<5>>, <<>>>>, <<<<5, 6>>, <<>>>>, <<<<>>, <<>>, <<>>>>,
     <<<<5, 5, 5, 5>>, <<6>>>>}

ArgumentCases ==
    {Case(argv, kernel, <<>>, code) :
        argv \in MCArgumentVectors, kernel \in {{}, {64}}, code \in ProgramsOf(21 .. 38, 1)}

(* Instructions: every program of three about arithmetic and control that  *)
(* goes on after its first, every program of three about memory, and, with *)
(* arguments, of one.                                                      *)
EndsAtOnce == {6, 15, 16, 18}    \* trap, jr and jalr to the sentinel, break

InstructionCodes ==
    {code \in ProgramsOf(1 .. 38, 3) : /\ code[1] \notin EndsAtOnce
                                       /\ code[2] \div 21 = code[1] \div 21
                                       /\ code[3] \div 21 = code[1] \div 21}

InstructionCases ==
    {case \in ArgumentCases : Builds(case)} \cup Plain(InstructionCodes)

InstructionBoots == BootsOf(InstructionCases)

(* The machines of this run are such as the theorems about Loader speak of.*)
ASSUME InstructionsAreBuilt == AreBuilt(InstructionCases)

=============================================================================
