---------------------------- MODULE BridgeSupport ----------------------------
(***************************************************************************)
(* os-abi-spec: a BridgeSupport document, read event by event into an      *)
(* AbiSpec.  The file may end anywhere, which the reader does not report,  *)
(* or stop being XML, which it does.                                       *)
(***************************************************************************)
EXTENDS Naturals, Sequences, SequencesExt

CONSTANTS
  Alphabet,   \* the names of functions, in their order
  Documents,  \* trees: the element at the root
  None        \* Option::None

VARIABLES
  document,      \* the document
  open,          \* elements that were started, the innermost first
  in_signatures,
  cur_fn,        \* PartialFunction, or None
  functions,     \* of the AbiSpec
  parsing        \* "reads", or the result: "Ok", "Xml", "UnexpectedRoot"

parserVars == <<document, open, in_signatures, cur_fn, functions, parsing>>

-----------------------------------------------------------------------------
(***************************************************************************)
(* External: documents and the events of quick_xml.  An element has a tag  *)
(* and children; a function has a name, or None, and its children have the *)
(* attributes of an argument or result, and children of their own when     *)
(* they are function pointers.  What has no children may be written short. *)
(***************************************************************************)
Inside(node) == {node.children[i] : i \in DOMAIN node.children}

\* Of an element that was started, the children that were read.
Opened(node) == [node |-> node, read |-> 0]

Beginning == <<Opened([tag |-> "", children |-> <<document>>])>>

\* What the next event is about: the next child, or the element that ends.
HasChild == Head(open).read < Len(Head(open).node.children)
Node     == IF HasChild THEN Head(open).node.children[Head(open).read + 1] ELSE Head(open).node

Event ==
  IF HasChild THEN IF Node.short /\ Node.children = <<>> THEN "Empty" ELSE "Start"
  ELSE IF Len(open) > 1 THEN "End" ELSE "Eof"

-----------------------------------------------------------------------------
\* The kind of an argument or a result.  Unknown has no type.
parse_arg(node) ==
  LET function_pointer == node.function_pointer \/ node.type = "^?"
      pointer          == node.type \in {"^v", "^*", "^?", "*"} \/ node.variable_array
  IN  [type |-> node.type,
       kind |-> CASE function_pointer -> "FunctionPointer"
                  [] ~function_pointer /\ node.type = "@" -> "Object"
                  [] ~function_pointer /\ node.type # "@" /\ pointer -> "Pointer"
                  [] ~function_pointer /\ ~pointer /\ node.type = "v" -> "Void"
                  [] ~function_pointer /\ ~pointer /\ node.type = None -> "Unknown"
                  [] OTHER -> "Scalar"]

void == [type |-> None, kind |-> "Void"]

finish(pf) == [pf EXCEPT !.retval = IF @ = None THEN void ELSE @]

sort_by_name(fs) ==
  FlattenSeq([i \in DOMAIN Alphabet |-> SelectSeq(fs, LAMBDA f : f.name = Alphabet[i])])

\* An argument or result, of whatever element it is a child.
Part(node) ==
  cur_fn' = IF cur_fn = None THEN None
            ELSE CASE node.tag = "arg" -> [cur_fn EXCEPT !.args = Append(@, parse_arg(node))]
                   [] node.tag = "retval" -> [cur_fn EXCEPT !.retval = parse_arg(node)]
                   [] OTHER -> cur_fn

ParserInit ==
  /\ document \in Documents
  /\ open = Beginning
  /\ in_signatures = FALSE
  /\ cur_fn = None
  /\ functions = <<>>
  /\ parsing = "reads"

NextEvent(event) ==
  /\ parsing = "reads"
  /\ Event = event
  /\ LET around == <<[Head(open) EXCEPT !.read = @ + 1]>> \o Tail(open)
     IN  open' = CASE event = "Start" -> <<Opened(Node)>> \o around
                   [] event = "Empty" -> around
                   [] event = "End"   -> Tail(open)

StartSignatures ==
  /\ NextEvent("Start")
  /\ Node.tag = "signatures"
  /\ in_signatures' = TRUE
  /\ UNCHANGED <<document, cur_fn, functions, parsing>>

IsFunction == in_signatures /\ Node.tag = "function"

StartFunction ==
  /\ NextEvent("Start")
  /\ IsFunction
  /\ IF Node.name = None THEN parsing' = "Xml" /\ UNCHANGED cur_fn
     ELSE cur_fn' = [name |-> Node.name, args |-> <<>>, retval |-> None] /\ UNCHANGED parsing
  /\ UNCHANGED <<document, in_signatures, functions>>

StartPart ==
  /\ NextEvent("Start")
  /\ Node.tag # "signatures" /\ ~IsFunction
  /\ Part(Node)
  /\ UNCHANGED <<document, in_signatures, functions, parsing>>

\* Mutant: an element that is written short is an argument.
EmptyPartArgs ==
  /\ NextEvent("Empty")
  /\ IF Node.tag = "arg" THEN Part(Node) ELSE UNCHANGED cur_fn
  /\ UNCHANGED <<document, in_signatures, functions, parsing>>

EmptyPart ==
  /\ NextEvent("Empty")
  /\ Part(Node)
  /\ UNCHANGED <<document, in_signatures, functions, parsing>>

EndFunction ==
  /\ NextEvent("End")
  /\ Node.tag = "function"
  /\ functions' = IF cur_fn = None THEN functions ELSE Append(functions, finish(cur_fn))
  /\ cur_fn' = None
  /\ UNCHANGED <<document, in_signatures, parsing>>

EndOther ==
  /\ NextEvent("End")
  /\ Node.tag # "function"
  /\ in_signatures' = (in_signatures /\ Node.tag # "signatures")
  /\ UNCHANGED <<document, cur_fn, functions, parsing>>

\* The text has "<signatures": what was read of it has it.
HasSignatures == document.tag = "signatures" /\ open # Beginning

\* The end of the document, or of a file that was cut off here.
Eof ==
  /\ parsing = "reads"
  /\ IF ~in_signatures /\ functions = <<>> /\ ~HasSignatures
     THEN parsing' = "UnexpectedRoot" /\ UNCHANGED functions
     ELSE parsing' = "Ok" /\ functions' = sort_by_name(functions)
  /\ UNCHANGED <<document, open, in_signatures, cur_fn>>

ReaderFails ==
  /\ parsing = "reads"
  /\ parsing' = "Xml"
  /\ UNCHANGED <<document, open, in_signatures, cur_fn, functions>>

ParserNext ==
  \/ StartSignatures \/ StartFunction \/ StartPart \/ EmptyPart
  \/ EndFunction \/ EndOther \/ Eof \/ ReaderFails

-----------------------------------------------------------------------------
(***************************************************************************)
(* What the document says, read as a tree.                                 *)
(***************************************************************************)
\* Items of the root that were read to their ends.
ItemsRead ==
  IF Len(open) > 1 THEN open[Len(open) - 1].read - (IF Len(open) > 2 THEN 1 ELSE 0)
  ELSE IF open = Beginning THEN 0 ELSE Len(document.children)

\* Of the first n children, the arguments or the results.
Parts(node, n, tag) ==
  FlattenSeq([i \in 1..n |-> IF node.children[i].tag = tag THEN <<parse_arg(node.children[i])>> ELSE <<>>])

Declared(item) ==
  LET retvals == Parts(item, Len(item.children), "retval")
  IN  [name   |-> item.name,
       args   |-> Parts(item, Len(item.children), "arg"),
       retval |-> IF retvals = <<>> THEN void ELSE Last(retvals)]

\* Functions with nothing inside may be written short, and are then left out.
LeftOut(item) == item.tag # "function" \/ (item.short /\ item.children = <<>>)

Declarations(n) ==
  FlattenSeq([i \in 1..n |-> IF LeftOut(document.children[i]) THEN <<>> ELSE <<Declared(document.children[i])>>])

\* Functions are below the root, and what they are made of has no children.
Plain ==
  /\ document.tag # "function"
  /\ \A item \in Inside(document) : \A part \in Inside(item) :
       part.tag # "function" /\ part.children = <<>>

Said == IF document.tag = "signatures" THEN Declarations(ItemsRead) ELSE <<>>

\* A specification has the functions of the document, each with its own
\* arguments and result, in the order of their names and the first of a name
\* first; of a document that was cut off, the functions before the cut and no
\* part of one (parse_bridgesupport, bridgesupport.rs:26-84).  Claimed of
\* documents without the types of callbacks.
ReadsTheDocument == parsing = "Ok" /\ Plain => functions = sort_by_name(Said)

\* The same of all documents ("Apple BridgeSupport XML ingestion
\* (`BridgeSupport.5`)", bridgesupport.rs:1).
IngestsTheDocument == parsing = "Ok" => functions = sort_by_name(Said)

-----------------------------------------------------------------------------
\* A function of which the first n children were read.
PartRead(item, n) ==
  LET retvals == Parts(item, n, "retval")
  IN  [name   |-> item.name,
       args   |-> Parts(item, n, "arg"),
       retval |-> IF retvals = <<>> THEN None ELSE Last(retvals)]

\* Elements are trees, with signatures at the root only, and None is no
\* element's.
ASSUME DocumentsAssumption ==
  \A root \in Documents :
    /\ root.children \in Seq(Inside(root))
    /\ \A item \in Inside(root) :
         /\ item.tag # "signatures"
         /\ item.children \in Seq(Inside(item))
         /\ item.tag = "function" => \A n \in 0..Len(item.children) : PartRead(item, n) # None
         /\ \A part \in Inside(item) :
              /\ part.tag # "signatures"
              /\ item.tag = "function" /\ part.tag \in {"arg", "retval"} => parse_arg(part) # None
=============================================================================
