----------------------------- MODULE MCAbiStubs -----------------------------
(***************************************************************************)
(* Values for the constants of HostApi and AbiStubs.                       *)
(***************************************************************************)
EXTENDS AbiStubs

U(s) == Underscore(s)

exit_    == <<"exit">>
write_   == <<"write">>
printf_  == <<"printf">>
tolower_ == <<"tolower">>

\* Function of the system libraries, one for each way types are mapped.
MCAbi ==
  [s \in {printf_, tolower_, U(tolower_), U(U(tolower_)), <<"lseek">>, <<"qsort">>,
          <<"mach_msg">>, write_, exit_} |->
     CASE s = printf_ -> [args |-> <<"*", "^?">>, ret |-> "i"]
       [] s = <<"lseek">> -> [args |-> <<"i", "q", "i">>, ret |-> "q"]
       [] s = <<"qsort">> -> [args |-> <<"*", "q", "q", "^?">>, ret |-> "v"]
       [] s = <<"mach_msg">> -> [args |-> <<"*", "i", "i", "i", "i", "i", "i">>, ret |-> "i"]
       [] s = write_ -> [args |-> <<"i", "*", "q">>, ret |-> "q"]
       [] s = exit_ -> [args |-> <<"i">>, ret |-> "v"]
       [] OTHER -> [args |-> <<"i">>, ret |-> "i"]]

MCRequests ==
  {{write_, exit_}, {write_, exit_, printf_}, {write_, exit_, tolower_}, {write_, <<"nosuch">>}}

MCGuests ==
  {exit_, U(exit_), U(U(exit_)), <<US, "Exit">>, write_, U(write_), U(U(write_)),
   printf_, U(printf_), <<"execve">>, tolower_, U(tolower_), <<"lseek">>, U(<<"lseek">>),
   <<"mach_msg">>, <<"getenv">>, <<"Exit">>}

\* A Linux tunnel that renames nothing, one for Mach-O spellings, and one that
\* emits its aliases with the ambient prefix.
Same(names) == [s \in names |-> s]
Linux == [symbols |-> Same({exit_, U(exit_), write_, printf_, <<"getenv">>}), prefix |-> NoName]
MachO == [symbols |-> [s \in {U(printf_), U(write_), printf_, tolower_, <<"Exit">>} |-> Bare(s)],
          prefix |-> NoName]
MCTunnels == {Linux, MachO, [Linux EXCEPT !.prefix = AmbientPrefix]}

exit_write_only == {write_, exit_, U(exit_)}
MCPolicies == {exit_write_only, {printf_, <<"getenv">>, write_}}

\* A shim, an alias that stays one, and an import that no manifest has.
MCHooks ==
  {[s \in {<<"getenv">>, exit_, printf_} |->
      CASE s = exit_ -> Ambient
        [] s = printf_ -> WasmImport(<<"puts">>)
        [] OTHER -> NativeShim(s)]}
NoCustom == {}
=============================================================================
