--------------------------- MODULE Configuration ---------------------------
(***************************************************************************)
(* What a start of the program runs with: which zakhor.toml is read, how   *)
(* its values, the ZAKHOR_* environment and the built-in defaults are      *)
(* layered, and where the model caches are.  Pure functions of the command *)
(* line, the environment and the files that exist.                         *)
(*                                                                         *)
(* Source: crates/zakhor-common/src/config, crates/zakhor-common/src/paths.*)
(* A layer is a function from some of the settings to values.  Settings    *)
(* that nothing here depends on (thresholds, labels, pool sizes) are left  *)
(* out: they are merged like the others and read by nobody or by models.   *)
(***************************************************************************)
EXTENDS Naturals, FiniteSets

CONSTANTS
    ConfigFiles, \* [path -> layer]: the zakhor.toml files that exist
    Malformed,   \* the layer of a file that does not parse
    NoPath       \* an option or variable that is not given

Over(upper, lower) ==
    [k \in DOMAIN upper \cup DOMAIN lower |->
        IF k \in DOMAIN upper THEN upper[k] ELSE lower[k]]

Given(layer, key) == IF key \in DOMAIN layer THEN layer[key] ELSE NoPath

-----------------------------------------------------------------------------
(* Discovery.                                                              *)

\* $XDG_..._HOME counts if it is absolute, then the platform's directory,
\* then one below the home directory; the variable as it is comes last.
HomeFrom(xdg, platform, home) ==
    CASE xdg = "absolute"          -> "xdg"
      [] xdg # "absolute" /\ platform # NoPath -> platform
      [] xdg # "absolute" /\ platform = NoPath /\ home # NoPath -> home
      [] OTHER                     -> "cwd"

Candidates(configHome) == <<"cwd", configHome>>

Exists(path) == path \in DOMAIN ConfigFiles

\* NoPath stands for ConfigSource::DefaultsOnly, "missing" for the error.
DiscoverConfig(explicit, configHome) ==
    LET found == {i \in DOMAIN Candidates(configHome) :
                     Exists(Candidates(configHome)[i])}
    IN IF explicit # NoPath
       THEN IF Exists(explicit) THEN explicit ELSE "missing"
       ELSE IF found = {} THEN NoPath
       ELSE Candidates(configHome)[CHOOSE i \in found : \A j \in found : i <= j]

-----------------------------------------------------------------------------
(* Layering.  "bad" is the value of a ZAKHOR_HTTP_PORT that is no port.    *)

Defaults == [path |-> "default", port |-> 3000, cache |-> NoPath, modelDir |-> NoPath]

\* ZAKHOR_* variables that map_env_key sends to a setting.
FromEnvironment(env) ==
    [k \in DOMAIN env \cap {"path", "port", "cache"} |-> env[k]]

Extractable(file, env) == file # Malformed /\ Given(env, "port") # "bad"

\* Config::apply_env, the fallback: it knows path and port only.
ApplyEnv(env) ==
    LET usable == {k \in DOMAIN env \cap {"path", "port"} : env[k] # "bad"}
    IN Over([k \in usable |-> env[k]], Defaults)

LoadFrom(file, env) ==
    IF Extractable(file, env)
    THEN Over(FromEnvironment(env), Over(file, Defaults))
    ELSE ApplyEnv(env)

NoFile == [k \in {} |-> NoPath]

Load(path, env) == LoadFrom(IF path = NoPath THEN NoFile ELSE ConfigFiles[path], env)

-----------------------------------------------------------------------------
(* Model caches: FastEmbed's, and GLiNER's with two more sources.          *)

FirstGiven(first, second) == IF first # NoPath THEN first ELSE second

ModelsCache(configured, cacheHome) == FirstGiven(configured, cacheHome)

GlinerCache(modelDir, configured, hfCache, cacheHome) ==
    FirstGiven(modelDir, FirstGiven(configured, FirstGiven(hfCache, cacheHome)))

-----------------------------------------------------------------------------
(* What a launch resolves to.  A launch is                                 *)
(* [config, dbPath, ephemeral, rebuild, env, xdg, hfCache].                *)

Source(l) == DiscoverConfig(l.config, HomeFrom(l.xdg, "platform", "home"))

\* Seeded: --ephemeral first, then the path of the command line.
CliOverEphemeral(l) ==
    FirstGiven(l.dbPath, IF l.ephemeral THEN "temp" ELSE Load(Source(l), l.env).path)

\* --db-path over the configuration, --ephemeral over both.
DatabaseDir(l) ==
    IF l.ephemeral THEN "temp" ELSE FirstGiven(l.dbPath, Load(Source(l), l.env).path)

\* The loaded configuration, with the path overridden, and the flags.
Resolve(l) ==
    LET cfg  == Load(Source(l), l.env)
        home == HomeFrom(l.xdg, "platform", "home")
    IN [dir       |-> DatabaseDir(l),
        models    |-> ModelsCache(cfg.cache, home),
        gliner    |-> GlinerCache(cfg.modelDir, cfg.cache, l.hfCache, home),
        ephemeral |-> l.ephemeral,
        rebuild   |-> l.rebuild]
=============================================================================
