----------------------------- MODULE MCShimCalls -----------------------------
(***************************************************************************)
(* Values for ShimCalls: documents and uses of the generator.              *)
(***************************************************************************)
EXTENDS ShimCalls

MCAlphabet == <<"abort", "bsearch", "calloc", "dlopen", "execve", "exit", "qsort", "strlen", "write">>

Slot(tag, type) ==
  [tag |-> tag, type |-> type, function_pointer |-> FALSE, variable_array |-> FALSE, name |-> "",
   short |-> TRUE, children |-> <<>>]

Arg(type) == Slot("arg", type)
Ret(type) == Slot("retval", type)
Long(slot) == [slot EXCEPT !.short = FALSE]

Item(tag, name, children) == [tag |-> tag, name |-> name, short |-> FALSE, children |-> children]
Function(name, children)  == Item("function", name, children)

calloc_ == Function("calloc", <<Arg("Q"), Arg("Q"), Ret("^v")>>)
execve_ == Function("execve", <<Arg("*"), Long(Arg("^*")), [Arg("^i") EXCEPT !.variable_array = TRUE], Ret("i")>>)
dlopen_ == Function("dlopen", <<Arg("*"), Arg("i"), Ret("^v")>>)
strlen_ == Function("strlen", <<Arg("*"), Ret("Q")>>)
under_  == Function("_exit", <<Arg("i"), Ret("v")>>)
exit_f  == Function("exit", <<Arg("i"), Ret("v")>>)
qsort_  == Function("qsort", <<Arg("^v"), Arg("Q"), [Arg("^v") EXCEPT !.function_pointer = TRUE]>>)
write_f == Function("write", <<Arg("i"), Arg("^v"), Arg("Q"), Long(Ret("q"))>>)

Constant == Item("constant", "kIOBase", <<>>)
Nameless == Function(None, <<Arg("i")>>)

\* Functions with nothing inside, and with the type of a callback.
abort_ == [Function("abort", <<>>) EXCEPT !.short = TRUE]
bsearch_ ==
  Function("bsearch",
           <<Arg("^v"), [Slot("arg", "^?") EXCEPT !.short = FALSE, !.children = <<Arg("^v"), Ret("i")>>], Ret("^v")>>)

Document(root, items) == [tag |-> root, short |-> FALSE, children |-> items]

MCDocuments ==
  {Document("signatures", <<write_f, Constant, execve_>>),
   Document("signatures", <<exit_f, calloc_>>),
   Document("signatures", <<qsort_, Function("exit", <<Ret("v")>>), exit_f>>),
   Document("signatures", <<exit_f, Nameless, write_f>>),
   Document("signatures", <<bsearch_, abort_, exit_f>>),
   Document("signatures", <<dlopen_, strlen_, under_>>),
   Document("dictionary", <<exit_f>>)}

\* Of the functions above, those of unistd.h, stdlib.h and string.h.
MCHostHeaders == {"_exit", "abort", "bsearch", "calloc", "execve", "exit", "qsort", "strlen", "write"}

MCDlfcn == "dlopen" :> Types(<<"const char *", "int">>, "void *")

Use(kinds, with_daemon, symbols) == [kinds |-> kinds, with_daemon |-> with_daemon, symbols |-> symbols]

Core   == {"Core"}
Bridge == {"InterposerBridge"}

\* Bridges alone are the same with the daemon and without.
MCUses ==
  {Use(Bridge, TRUE, AllSymbols), Use(Bridge, FALSE, {"write", "exit"})}
  \cup {Use(Core, with_daemon, AllSymbols) : with_daemon \in BOOLEAN}
  \cup [kinds : {Core \cup Bridge}, with_daemon : BOOLEAN, symbols : {AllSymbols, {"write", "exit"}}]
=============================================================================
