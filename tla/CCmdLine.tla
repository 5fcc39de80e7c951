------------------------------ MODULE CCmdLine ------------------------------
(***************************************************************************)
(* The command line of the C programs (CmdLine.c): a program adds the      *)
(* options it knows with their defaults, has the arguments it was started  *)
(* with parsed, and reads the value of each option.                        *)
(*                                                                         *)
(* Names are sequences of letters, for an option may be named by a prefix  *)
(* of another's name.  A "number" stands for the numeric types, whose      *)
(* parsers return 0 when they fail, and a "text" for Booleans, characters  *)
(* and strings, whose value is left alone when the text does not fit.      *)
(***************************************************************************)
EXTENDS Integers, Sequences
LOCAL INSTANCE SequencesExt

CONSTANTS
  OptionName,   \* the names of options
  OptionValue,  \* the values that can be written on a command line
  MaxOptions,   \* utilCmdLine_MAX_ARGS
  MaxArgv       \* bound on the arguments of a command line

OptionKind == {"number", "text"}

(* An argument whose value cannot be read as the type of its option, and   *)
(* what the numeric parsers make of it.                                    *)
Unreadable == -1
Zero == 0

ASSUME CCmdLineAssumption ==
  /\ OptionName \subseteq Seq(Nat)
  /\ OptionValue \subseteq Nat \ {Zero}
  /\ MaxOptions \in Nat
  /\ MaxArgv \in Nat

VARIABLES
  defs,       \* utilCmdLineImpl.defs, in the order the options were added
  given,      \* history: the arguments that were parsed
  cmdStatus   \* the status of the last call

cmdVars == <<defs, given, cmdStatus>>

CCmdLineInit ==
  /\ defs = <<>>
  /\ given = <<>>
  /\ cmdStatus = "NO_ERROR"

-----------------------------------------------------------------------------
(* utilCmdLine_add* and addValue, which takes a name twice. *)
AddOption(name, kind, dflt) ==
  /\ given = <<>>
  /\ Len(defs) < MaxOptions
  /\ defs' = Append(defs, [name |-> name, kind |-> kind, value |-> dflt, dflt |-> dflt])
  /\ cmdStatus' = "NO_ERROR"
  /\ UNCHANGED given

AddOptionTooMany ==
  /\ Len(defs) = MaxOptions
  /\ cmdStatus' = "TOO_MANY"
  /\ UNCHANGED <<defs, given>>

(* What is compared with the start of an argument, "--name=", ends with a  *)
(* sign no name holds; and a comparison that leaves it out.                *)
MatchesStart(d, arg) == IsPrefix(d.name, arg.name)
Matches(d, arg) == d.name = arg.name

(* The loop over the definitions: the first one that matches, if any. *)
FirstMatching(ds, arg) ==
  SelectInSeq(ds, LAMBDA d : Matches(d, arg))

(* The switch over the types: the value of a definition and the status,    *)
(* which a number that can be read resets and a text that fits leaves.     *)
ValueFrom(d, v) ==
  IF v # Unreadable THEN v ELSE IF d.kind = "number" THEN Zero ELSE d.value

StatusFrom(d, v, status) ==
  IF v = Unreadable THEN "TYPE_MISMATCH"
  ELSE IF d.kind = "number" THEN "NO_ERROR" ELSE status

(* One turn of the loop over argv. *)
ParseArgument(acc, arg) ==
  LET i == FirstMatching(acc.defs, arg) IN
  IF i = 0 THEN [acc EXCEPT !.status = "NOT_FOUND"]
  ELSE [defs   |-> [acc.defs EXCEPT ![i].value = ValueFrom(acc.defs[i], arg.value)],
        status |-> StatusFrom(acc.defs[i], arg.value, acc.status)]

(* The loop: the definitions and the status after each argument. *)
Turns(argv) ==
  LET turn[n \in 0 .. Len(argv)] ==
        IF n = 0 THEN [defs |-> defs, status |-> "NO_ERROR"]
        ELSE ParseArgument(turn[n - 1], argv[n])
  IN  turn

(* utilCmdLine_parse, which a program calls once it has added its options. *)
Parse(argv) ==
  LET parsed == Turns(argv)[Len(argv)] IN
  /\ given = <<>>
  /\ defs' = parsed.defs
  /\ cmdStatus' = parsed.status
  /\ given' = argv

(***************************************************************************)
(* getValue: the first definition whose name starts the name asked for,    *)
(* since only the length of the definition's name is compared.             *)
(***************************************************************************)
Candidate(d, name) == IsPrefix(d.name, name)

GetValue(name, kind) ==
  LET i == SelectInSeq(defs, LAMBDA d : Candidate(d, name)) IN
  IF i = 0 THEN [status |-> "NOT_FOUND", value |-> Unreadable]
  ELSE IF defs[i].kind = kind THEN [status |-> "NO_ERROR", value |-> defs[i].value]
  ELSE [status |-> "TYPE_MISMATCH", value |-> Unreadable]

Argument == [name : OptionName, value : OptionValue \cup {Unreadable}]

CCmdLineNext ==
  \/ \E n \in OptionName, k \in OptionKind, v \in OptionValue : AddOption(n, k, v)
  \/ AddOptionTooMany
  \/ \E argv \in SeqOf(Argument, MaxArgv) : argv # <<>> /\ Parse(argv)

CCmdLineSpec == CCmdLineInit /\ [][CCmdLineNext]_cmdVars

-----------------------------------------------------------------------------
(* The value an option has after the arguments given: that of the last one *)
(* that bears its name, 0 if it is a number and that one cannot be read,   *)
(* the one before if it is a text, and the default if there is none.       *)
Meant(d) ==
  LET mine == {i \in DOMAIN given : given[i].name = d.name}
      fit  == {i \in mine : d.kind = "number" \/ given[i].value # Unreadable}
  IN  IF fit = {} THEN d.dflt
      ELSE IF given[Max(fit)].value = Unreadable THEN Zero
      ELSE given[Max(fit)].value

(***************************************************************************)
(* An option is read back with the value the command line meant for it,    *)
(* whatever other options there are and in whatever order the arguments    *)
(* came, as long as the name of no earlier option starts its own name.     *)
(***************************************************************************)
OptionsReadBack ==
  \A i \in DOMAIN defs :
    (\A j \in 1 .. (i - 1) : ~IsPrefix(defs[j].name, defs[i].name)) =>
      GetValue(defs[i].name, defs[i].kind) =
        [status |-> "NO_ERROR", value |-> Meant(defs[i])]
=============================================================================
