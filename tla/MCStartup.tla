----------------------------- MODULE MCStartup -----------------------------
(***************************************************************************)
(* Instances of Startup for TLC: the command lines, environments and files *)
(* of one machine.                                                         *)
(***************************************************************************)
EXTENDS Startup, Sequences

CONSTANTS x1, x2

NoVariables == [k \in {} |-> NoPath]

Plain == [config |-> NoPath, dbPath |-> NoPath, ephemeral |-> FALSE,
          rebuild |-> FALSE, env |-> NoVariables, xdg |-> "unset", hfCache |-> NoPath]

\* A user's file that names a database, and one that does not parse.
MachineFiles ==
    [f \in {"platform", "broken"} |->
        IF f = "broken" THEN Malformed ELSE [k \in {"path"} |-> "mine"]]

MachineLaunches ==
    {Plain,
     [Plain EXCEPT !.rebuild = TRUE],
     [Plain EXCEPT !.ephemeral = TRUE, !.dbPath = "mine"],
     [Plain EXCEPT !.config = "broken", !.env = [k \in {"path"} |-> "mine"]],
     [Plain EXCEPT !.config = "typo"]}

-----------------------------------------------------------------------------
(* The look-ups against their documented order, over small inputs.         *)

Paths == {"cwd", "platform", "xdg"}

Settings == DOMAIN Defaults

Layers == UNION {[ks -> {"mine", "temp"}] : ks \in SUBSET {"path", "cache"}}

\* types.rs: built-in defaults < file < environment, setting by setting.
ASSUME PrecedenceOfSettings ==
    \A file, env \in Layers, key \in Settings :
        LoadFrom(file, env)[key] =
            IF key \in DOMAIN env THEN env[key]
            ELSE IF key \in DOMAIN file THEN file[key]
            ELSE Defaults[key]

\* A file that does not parse, or a port that is none, costs the whole file but
\* not the database path of the environment.
ASSUME FallbackKeepsPath ==
    \A env \in Layers : "path" \in DOMAIN env =>
        LoadFrom(Malformed, env).path = env["path"]

\* xdg.rs: the first of the sources that is given.
ASSUME PrecedenceOfCaches ==
    \A d, c, h \in {NoPath, "mine", "temp"} :
        GlinerCache(d, c, h, "xdg") =
            LET given == SelectSeq(<<d, c, h, "xdg">>, LAMBDA p : p # NoPath)
            IN given[1]

\* discovery.rs: without --config, the working directory's file comes before
\* the user's, and a path that is found is the path of a file.
ASSUME PrecedenceOfFiles ==
    \A home \in Paths :
        LET found == DiscoverConfig(NoPath, home)
        IN /\ (found = NoPath) = (~Exists("cwd") /\ ~Exists(home))
           /\ found # NoPath => Exists(found) /\ (Exists("cwd") => found = "cwd")
=============================================================================
