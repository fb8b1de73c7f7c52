------------------------------ MODULE MCConfig ------------------------------
(***************************************************************************)
(* Config for TLC, on a machine with small integers: every option with     *)
(* every short number, and every short command line over a few arguments.  *)
(***************************************************************************)
EXTENDS Config, SequencesExt

CONSTANTS
  MaxNumber,      \* longest number
  MaxArguments    \* longest command line

Options == { << OptionFor[field] >> : field \in DOMAIN OptionFor }
           \cup { << "--unknown" >> }

NumberUnits == {"0", "1", "5", "6", "-", "SP"}

Numbers == SeqOf(NumberUnits, MaxNumber)

SomeArguments ==
  { << "--port" >>, << "--max-headers" >>, << "--header-name-max" >>,
    << "--root" >>, << "1" >>, << "7" >>, << "x" >> }

MCUnit ==
  { option[1] : option \in Options } \cup NumberUnits \cup {"7", "x"}

MCArguments ==
  (Options \X Numbers) \cup SeqOf(SomeArguments, MaxArguments)

=============================================================================
