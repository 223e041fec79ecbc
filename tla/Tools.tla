-------------------------------- MODULE Tools --------------------------------
(***************************************************************************)
(* ToolRegistry::invoke() (tool_registry.cpp) as the Workers' threads call   *)
(* it: the built-in tools of tool_set.cpp over one directory, the ToolCache  *)
(* (tool_cache.cpp) in front of the idempotent ones, and the tools that      *)
(* create_tool leaves on disk for the next process.                          *)
(*                                                                          *)
(* A file's content is the number of the modification that made it; a file's *)
(* time is in whole seconds, as time_t.  The cache has no lock: once two     *)
(* threads race in it the program's behaviour is undefined and the model     *)
(* stops (raced).                                                           *)
(***************************************************************************)
EXTENDS Naturals, Sequences, FiniteSets, SequencesExt

CONSTANTS Callers,     \* threads that invoke tools
          Files,       \* paths of files in the current directory
          Names,       \* tools that are called
          CacheSize,   \* ToolCache::max_size_
          MaxSeconds,  \* bound: the clock and the times of files
          MaxWrites    \* bound: modifications of files

ASSUME ToolsAssumption ==
    /\ CacheSize \in Nat \ {0} /\ MaxSeconds \in Nat /\ MaxWrites \in Nat
    /\ "." \notin Files

VARIABLES
    disk,     \* [Files -> content and time; time 0 when there is no file]
    dirTime,  \* modification time of the directory
    second,   \* the clock
    writes,   \* bound: modifications so far
    saved,    \* ./workspace/tools holds a definition
    dynamic,  \* load_dynamic_tools() has registered that tool
    cache,    \* cache_
    lru,      \* lru_, most recently used first
    tpc,      \* [Callers -> where its invoke() is]
    call,     \* [Callers -> name and input]
    key,      \* [Callers -> the CacheKey it has built]
    answer,   \* [Callers -> what the tool returned]
    raced,    \* two threads have raced in the cache
    stamps,   \* history: <<path, time>> such that the path has had it in this process
    doubt     \* history: the stamps that do not tell the path's contents apart

fileVars == <<disk, dirTime, writes, stamps, doubt>>
cacheVars == <<cache, lru, raced>>
invokeVars == <<tpc, call, key, answer>>
toolsVars == <<fileVars, second, saved, dynamic, cacheVars, invokeVars>>

Idempotent ==
    {"read_file", "list_dir", "stat_file", "find_files",
     "get_current_dir", "get_sysinfo", "get_env"}

\* An input is the path of a file or "." for the directory, as it is, or not a
\* path for stat(2): with the quotes or ~/ that resolve_path() removes, or
\* "dir\npattern", or the name of a variable.
In(p, e) == [path |-> p, exact |-> e]

Calls ==
    {[tool |-> n, input |-> In(f, e)] : n \in Names \cap {"read_file", "stat_file"},
                                        f \in Files, e \in BOOLEAN}
    \cup {[tool |-> n, input |-> In(".", TRUE)] : n \in Names \cap {"list_dir"}}
    \cup {[tool |-> n, input |-> In(f, TRUE)] :
            n \in Names \cap {"write_file", "delete_file"}, f \in Files}
    \cup {[tool |-> n, input |-> In(".", FALSE)] :
            n \in Names \ {"read_file", "stat_file", "list_dir", "write_file", "delete_file"}}

NoCall == [tool |-> "none", input |-> In(".", FALSE)]
NoKey == NoCall
NoAnswer == [none |-> TRUE]

Exists(f) == disk[f].time > 0

\* Fault: only whether the file is there.
GetMtimeOfAny(i) == IF i.exact THEN 1 ELSE 0

\* get_mtime(): 0 when stat(2) fails on the input.
GetMtime(i) ==
    IF ~i.exact THEN 0 ELSE IF i.path \in Files THEN disk[i.path].time ELSE dirTime

\* The times that paths have now.
Stamps == {<<f, disk[f].time>> : f \in {g \in Files : Exists(g)}} \cup {<<".", dirTime>>}

ToInit ==
    /\ disk \in [Files -> {[content |-> 0, time |-> 0], [content |-> 0, time |-> 1]}]
    /\ dirTime = 1 /\ second = 1 /\ writes = 0 /\ saved = FALSE /\ dynamic = FALSE
    /\ cache = << >> /\ lru = << >> /\ raced = FALSE
    /\ stamps = Stamps /\ doubt = {}
    /\ tpc = [t \in Callers |-> "idle"] /\ call = [t \in Callers |-> NoCall]
    /\ key = [t \in Callers |-> NoKey] /\ answer = [t \in Callers |-> NoAnswer]

KeyNow(c) == [tool |-> c.tool, input |-> c.input, mtime |-> GetMtime(c.input)]

TGoto(t, l) == tpc' = [tpc EXCEPT ![t] = l]

\* invoke() returns or throws; its locals are gone.
InvokeReturns(t) ==
    /\ TGoto(t, "idle")
    /\ call' = [call EXCEPT ![t] = NoCall] /\ key' = [key EXCEPT ![t] = NoKey]
    /\ answer' = [answer EXCEPT ![t] = NoAnswer]

-----------------------------------------------------------------------------
(* The cache.                                                               *)

\* lru_map_: the place of a key in lru_.
Listed(k) == k \in ToSet(lru)
Place(k) == CHOOSE i \in DOMAIN lru : lru[i] = k
Erased(k) == RemoveAt(lru, Place(k))

ToolCacheGet(k) == lru' = IF Listed(k) THEN <<k>> \o Erased(k) ELSE lru

\* The key that evict_lru() takes out of both, if any.
EvictLru == IF lru = << >> THEN {} ELSE {Last(lru)}

Full == Cardinality(DOMAIN cache) >= CacheSize

\* The cache with v for k, without the keys of out.
Cached(k, v, out) == [x \in (DOMAIN cache \ out) \cup {k} |-> IF x = k THEN v ELSE cache[x]]

\* Fault: a key that is there already stays where it was in lru_ too.
ToolCachePutOnce(k, v) ==
    \/ /\ ~Listed(k) /\ Full
       /\ cache' = Cached(k, v, EvictLru) /\ lru' = <<k>> \o Front(lru)
    \/ /\ Listed(k) \/ ~Full
       /\ cache' = Cached(k, v, {}) /\ lru' = <<k>> \o lru

\* put(): a key that is there moves in lru_; for a new one the last of lru_ goes
\* when the cache is full.
ToolCachePut(k, v) ==
    \/ /\ Listed(k)
       /\ cache' = Cached(k, v, {}) /\ lru' = <<k>> \o Erased(k)
    \/ /\ ~Listed(k) /\ Full
       /\ cache' = Cached(k, v, EvictLru) /\ lru' = <<k>> \o Front(lru)
    \/ /\ ~Listed(k) /\ ~Full
       /\ cache' = Cached(k, v, {}) /\ lru' = <<k>> \o lru

Hits(t) == key[t] \in DOMAIN cache

\* t and u are both in the cache and one of them changes what the other reads:
\* a put changes everything, a get that hits moves its key in lru_.
Conflict(t, u) ==
    /\ tpc[u] \in {"getting", "putting"}
    /\ tpc[t] = "putting" \/ tpc[u] = "putting" \/ (Hits(t) /\ Hits(u))

Race(t) == raced' = \E u \in Callers \ {t} : Conflict(t, u)

-----------------------------------------------------------------------------
(* invoke().                                                                *)

Begin(t) ==
    /\ ~raced /\ tpc[t] = "idle"
    /\ \E c \in Calls :
         /\ call' = [call EXCEPT ![t] = c]
         /\ IF c.tool \in Idempotent
            THEN /\ key' = [key EXCEPT ![t] = KeyNow(c)]
                 /\ TGoto(t, "getting")
            ELSE key' = [key EXCEPT ![t] = NoKey] /\ TGoto(t, "run")
    /\ UNCHANGED <<fileVars, second, saved, dynamic, cacheVars, answer>>

\* The cached answer is the answer.
CacheHit(t) ==
    /\ ~raced /\ tpc[t] = "getting" /\ Hits(t)
    /\ ToolCacheGet(key[t]) /\ Race(t) /\ UNCHANGED cache
    /\ InvokeReturns(t)
    /\ UNCHANGED <<fileVars, second, saved, dynamic>>

CacheMiss(t) ==
    /\ ~raced /\ tpc[t] = "getting" /\ ~Hits(t)
    /\ Race(t) /\ TGoto(t, "run")
    /\ key' = [key EXCEPT ![t] = NoKey]
    /\ UNCHANGED <<fileVars, second, saved, dynamic, cache, lru, call, answer>>

\* Answers of the tools that only read: contents, size and time, the names with
\* their sizes or alone, and the machine; a content stands for its size too.
Contents(f) == [content |-> disk[f].content]
Stat(f) == disk[f]
Listing == [sizes |-> [f \in {g \in Files : Exists(g)} |-> disk[f].content]]
Found == [names |-> {f \in Files : Exists(f)}]
Observed(c) ==
    CASE c.tool = "read_file" -> Contents(c.input.path)
      [] c.tool = "stat_file" -> Stat(c.input.path)
      [] c.tool = "list_dir" -> Listing
      [] c.tool = "find_files" -> Found
      [] OTHER -> [machine |-> second]

\* A ToolException for the caller: no such file or no such tool.
Throws(c) ==
    \/ c.tool \in {"read_file", "stat_file"} /\ ~Exists(c.input.path)
    \/ c.tool = "dynamic" /\ ~dynamic

ToolThrows(t) ==
    /\ ~raced /\ tpc[t] = "run" /\ Throws(call[t])
    /\ InvokeReturns(t)
    /\ UNCHANGED <<fileVars, second, saved, dynamic, cacheVars>>

\* An idempotent tool has returned; get_mtime() is still to come.
Observe(t) ==
    /\ ~raced /\ tpc[t] = "run" /\ call[t].tool \in Idempotent /\ ~Throws(call[t])
    /\ answer' = [answer EXCEPT ![t] = Observed(call[t])]
    /\ TGoto(t, "returned")
    /\ UNCHANGED <<fileVars, second, saved, dynamic, cacheVars, call, key>>

Restat(t) ==
    /\ ~raced /\ tpc[t] = "returned"
    /\ key' = [key EXCEPT ![t] = KeyNow(call[t])]
    /\ TGoto(t, "putting")
    /\ UNCHANGED <<fileVars, second, saved, dynamic, cacheVars, call, answer>>

CachePut(t) ==
    /\ ~raced /\ tpc[t] = "putting"
    /\ ToolCachePut(key[t], answer[t]) /\ Race(t)
    /\ InvokeReturns(t)
    /\ UNCHANGED <<fileVars, second, saved, dynamic>>

-----------------------------------------------------------------------------
(* The tools that change something.                                         *)

\* The change under way gives paths their times, the pairs of ss.  A time does
\* not tell contents apart when the path has had it before, or when a reader has
\* answered and not yet taken the time of its key.
Ambiguous(s) ==
    \/ s \in stamps
    \/ \E u \in Callers : tpc[u] = "returned" /\ call[u].input.path = s[1]

Stamp(ss) ==
    /\ stamps' = stamps \cup ss
    /\ doubt' = doubt \cup {s \in ss : Ambiguous(s)}

\* f gets the content v and the time m; the directory's time moves when an entry
\* of it is made or replaced (d).
Put(f, v, m, d) ==
    /\ writes < MaxWrites /\ writes' = writes + 1
    /\ disk' = [disk EXCEPT ![f] = [content |-> v, time |-> m]]
    /\ dirTime' = IF d THEN second ELSE dirTime
    /\ Stamp({<<f, m>>} \cup IF d THEN {<<".", second>>} ELSE {})

\* An open file is written to now.
Modify(f, v) == Put(f, v, second, ~Exists(f))

RemoveFile(f) ==
    /\ writes < MaxWrites /\ writes' = writes + 1
    /\ disk' = [disk EXCEPT ![f] = [content |-> 0, time |-> 0]]
    /\ dirTime' = second /\ Stamp({<<".", second>>})

TouchDirectory(m) ==
    /\ writes < MaxWrites /\ writes' = writes + 1
    /\ dirTime' = m /\ Stamp({<<".", m>>})
    /\ UNCHANGED disk

\* What a shell may do to a path of the directory: write to a file, put one there
\* with any content and any time (mv, cp -p, touch, tar), also the content it or
\* another one has, remove one, or set the directory's own time.
ShellStep ==
    \/ \E f \in Files, m \in 1..MaxSeconds :
          \E v \in {writes + 1} \cup {disk[g].content : g \in Files}, d \in {TRUE, ~Exists(f)} :
             Put(f, v, m, d)
    \/ \E f \in Files : Exists(f) /\ RemoveFile(f)
    \/ \E m \in 1..MaxSeconds : TouchDirectory(m)

\* write_file: the file is truncated when it is opened and has its content
\* when the stream is closed.
Truncate(t) ==
    /\ ~raced /\ tpc[t] = "run" /\ call[t].tool = "write_file"
    /\ Modify(call[t].input.path, 0) /\ TGoto(t, "opened")
    /\ UNCHANGED <<second, saved, dynamic, cacheVars, call, key, answer>>

\* A file removed or replaced since it was opened takes the content with it.
Write(t) ==
    /\ ~raced /\ tpc[t] = "opened"
    /\ \/ Exists(call[t].input.path) /\ Modify(call[t].input.path, writes + 1)
       \/ UNCHANGED fileVars
    /\ InvokeReturns(t)
    /\ UNCHANGED <<second, saved, dynamic, cacheVars>>

\* delete_file: without "CONFIRMED:" the answer is a request to confirm.
DeleteFile(t) ==
    /\ ~raced /\ tpc[t] = "run" /\ call[t].tool = "delete_file"
    /\ \/ UNCHANGED fileVars
       \/ Exists(call[t].input.path) /\ RemoveFile(call[t].input.path)
    /\ InvokeReturns(t)
    /\ UNCHANGED <<second, saved, dynamic, cacheVars>>

\* run_command and a dynamic tool run a shell, which takes any number of steps;
\* a blocked command throws and does nothing.
RunCommand(t) ==
    /\ ~raced /\ tpc[t] = "run"
    /\ call[t].tool = "run_command" \/ (call[t].tool = "dynamic" /\ dynamic)
    /\ \/ UNCHANGED fileVars /\ InvokeReturns(t)
       \/ ShellStep /\ UNCHANGED invokeVars
    /\ UNCHANGED <<second, saved, dynamic, cacheVars>>

\* create_tool writes a definition and registers nothing.
CreateTool(t) ==
    /\ ~raced /\ tpc[t] = "run" /\ call[t].tool = "create_tool"
    /\ writes < MaxWrites /\ writes' = writes + 1
    /\ saved' = TRUE
    /\ InvokeReturns(t)
    /\ UNCHANGED <<disk, dirTime, stamps, doubt, second, dynamic, cacheVars>>

-----------------------------------------------------------------------------
Tick ==
    /\ ~raced /\ second < MaxSeconds
    /\ second' = second + 1
    /\ UNCHANGED <<fileVars, saved, dynamic, cacheVars, invokeVars>>

\* The process ends or is killed, and a new one registers its tools: the
\* built-in ones first, then every definition whose name is free.
Restart ==
    /\ raced' = FALSE /\ dynamic' = saved
    /\ cache' = << >> /\ lru' = << >>
    /\ tpc' = [t \in Callers |-> "idle"] /\ key' = [t \in Callers |-> NoKey]
    /\ answer' = [t \in Callers |-> NoAnswer] /\ call' = [t \in Callers |-> NoCall]
    /\ stamps' = Stamps /\ doubt' = {}
    /\ UNCHANGED <<disk, dirTime, writes, second, saved>>

Invoke(t) ==
    \/ Begin(t) \/ CacheHit(t) \/ CacheMiss(t) \/ ToolThrows(t)
    \/ Observe(t) \/ Restat(t) \/ CachePut(t)
    \/ Truncate(t) \/ Write(t) \/ DeleteFile(t) \/ RunCommand(t) \/ CreateTool(t)

ToNext == (\E t \in Callers : Invoke(t)) \/ Tick \/ Restart

ToSpec == ToInit /\ [][ToNext]_toolsVars

-----------------------------------------------------------------------------
\* lru_ and cache_ hold the same keys, each once, however the gets and puts of
\* the threads follow each other: otherwise evict_lru() forgets a key that is
\* in use or the cache grows past max_size_.
LruMatchesCache ==
    raced \/ /\ ToSet(lru) = DOMAIN cache /\ Cardinality(ToSet(lru)) = Len(lru)
             /\ Len(lru) <= CacheSize

\* Whether the tool would answer a to the call c now, a listing up to its
\* sizes: no time of a directory follows those.
Fits(c, a) ==
    /\ ~Throws(c)
    /\ IF c.tool = "list_dir"
       THEN DOMAIN a.sizes = DOMAIN Listing.sizes
       ELSE a = Observed(c)

\* Whether a get would not find the answer a of key k, or find it right, or the
\* time in the key does not tell the contents apart.
Explained(k, a) ==
    \/ k.mtime = 0 \/ <<k.input.path, k.mtime>> \in doubt
    \/ k.mtime # GetMtime(k.input) \/ Fits([tool |-> k.tool, input |-> k.input], a)

\* An answer from the cache is what the tool would say now (in a listing, but for
\* the sizes of files written since), unless its key has no time (the input is
\* not the path of a file, or there was none), or the path got that time once more
\* (two changes in a second, or mv, cp -p, touch or tar brought it back) or between
\* the tool's return and the stat.
StaleForKnownReasons == raced \/ \A k \in DOMAIN cache : Explained(k, cache[k])

\* tool_registry.hpp:5 calls the registry thread-safe: no two threads race in
\* the cache that invoke() uses before and after it takes the registry's lock.
CacheNotRaced == ~raced
=============================================================================
