--------------------------- MODULE GeneratedTools ---------------------------
(***************************************************************************)
(* The tools of an agent process and the files they come from              *)
(* (create_tool.py, registry.py, tools/__init__.py): a process registers   *)
(* the built-in tools and loads the generated ones when it starts, and     *)
(* create_tool adds to both while it runs.                                 *)
(*                                                                         *)
(* A tool's name is its place in alphabetical order, the order in which    *)
(* files are loaded.  A file's content is what executing it does: it       *)
(* registers one name (@tool(name=...) may give another one than the       *)
(* function's, and _validate does not look at it), it raises, it ends the  *)
(* process (SystemExit is no Exception), or it is not a whole module.      *)
(***************************************************************************)
EXTENDS Integers

CONSTANTS
  NameCount,  \* the names there are
  Early,      \* built-in tools registered before the generated files are loaded
  Late        \* built-in tools registered after that: insert_text, skill_view, ...

ToolNames == 1 .. NameCount

ASSUME NamesAssumption ==
  /\ NameCount \in Nat
  /\ Early \subseteq ToolNames /\ Late \subseteq ToolNames
  /\ Early \cap Late = {}

VARIABLES
  files,     \* tools/generated: what the file of each name holds
  registry,  \* registry._REGISTRY: where the function of each name comes from
  offered,   \* state["tools"], the specifications the model is given
  making     \* the create_tool in progress

tools == <<files, registry, offered, making>>

NoFile == 0
Torn == NameCount + 1
Raises == NameCount + 2
Exits == NameCount + 3
Contents == ToolNames \cup {Raises, Exits}

Nobody == 0
Builtin == NameCount + 1

Idle == [step |-> "idle", name |-> 0, code |-> 0]

ToolsOK ==
  /\ files \in [ToolNames -> Contents \cup {NoFile, Torn}]
  /\ registry \in [ToolNames -> ToolNames \cup {Nobody, Builtin}]
  /\ offered \in [ToolNames -> ToolNames \cup {Nobody, Builtin}]
  /\ making \in {Idle} \cup [step : {"opened", "written"}, name : ToolNames,
                             code : Contents]

Registered(name) == registry[name] # Nobody

-----------------------------------------------------------------------------
(* A process starts.                                                       *)

\* Variant of _load_persisted: the loop ends at the first file that fails.
LoadersUntilError(name) ==
  {file \in ToolNames \ Early :
     files[file] = name /\ \A other \in 1 .. file - 1 : files[other] \in {NoFile, other}}

\* The files whose execution registers the name; one that has a built-in
\* tool's name is skipped.
Loaders(name) == {file \in ToolNames \ Early : files[file] = name}

Last(S) == CHOOSE x \in S : \A y \in S : y <= x

\* tools/__init__.py: builtin, then the modules in alphabetical order;
\* create_tool is the first and runs _load_persisted.  A file that fails is
\* logged, but what it had registered stays.
LoadedRegistry ==
  [name \in ToolNames |->
     IF name \in Late THEN Builtin
     ELSE IF Loaders(name) # {} THEN Last(Loaders(name))
     ELSE IF name \in Early THEN Builtin ELSE Nobody]

\* Nothing catches a SystemExit on the way.
Loadable == \A file \in ToolNames \ Early : files[file] # Exits

NoTools == [name \in ToolNames |-> Nobody]

ToolsInit ==
  /\ files = [name \in ToolNames |-> NoFile]
  /\ registry = NoTools
  /\ offered = NoTools
  /\ making = Idle

LoadTools ==
  /\ Loadable
  /\ registry' = LoadedRegistry
  /\ offered' = registry'
  /\ making' = Idle
  /\ UNCHANGED files

\* With the process goes all but the files.
ForgetTools ==
  /\ registry' = NoTools
  /\ offered' = NoTools
  /\ making' = Idle

-----------------------------------------------------------------------------
(* create_tool.                                                            *)

\* Name and code pass the checks, the name is free, and no file is in the way:
\* the file is opened for writing, ...
OpenFile(name, code) ==
  /\ making = Idle
  /\ ~Registered(name)
  /\ files[name] = NoFile
  /\ files' = [files EXCEPT ![name] = Torn]
  /\ making' = [step |-> "opened", name |-> name, code |-> code]
  /\ UNCHANGED <<registry, offered>>

\* ... written, ...
WriteFile ==
  /\ making.step = "opened"
  /\ files' = [files EXCEPT ![making.name] = making.code]
  /\ making' = [making EXCEPT !.step = "written"]
  /\ UNCHANGED <<registry, offered>>

\* (the disk is full; this is before the `try` that removes the file)
WriteFails ==
  /\ making.step = "opened"
  /\ making' = Idle
  /\ UNCHANGED <<files, registry, offered>>

\* Executing the file puts into the registry what it registers.
Execute(name, code) ==
  registry' = IF code \in ToolNames THEN [registry EXCEPT ![code] = name]
                                    ELSE registry

\* Variant: a file that could not be loaded is kept.
LoadAndKeep ==
  /\ making.step = "written"
  /\ making.code # Exits
  /\ Execute(making.name, making.code)
  /\ making' = Idle
  /\ UNCHANGED <<files, offered>>

\* ... and loaded; when that raises, or leaves the name unregistered, the file
\* is removed.
LoadFile ==
  /\ making.step = "written"
  /\ making.code # Exits
  /\ Execute(making.name, making.code)
  /\ files' = IF making.code = making.name
                THEN files ELSE [files EXCEPT ![making.name] = NoFile]
  /\ making' = Idle
  /\ UNCHANGED offered

\* Variant: the specifications are read again if a tool was created.
OfferCreated ==
  offered' = [name \in ToolNames |->
                IF offered[name] = Nobody THEN registry[name] ELSE offered[name]]

\* tool_node: "tools": tools_spec().
Offer == offered' = registry
=============================================================================
