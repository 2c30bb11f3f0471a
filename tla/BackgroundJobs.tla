--------------------------- MODULE BackgroundJobs ---------------------------
(***************************************************************************)
(* The threads the program starts and never joins: the subtitle search and *)
(* download (media/opensubtitles.cpp), whose answers the subtitles panel   *)
(* polls once per frame, and the update check (core/update_check.cpp),     *)
(* whose answer becomes a toast.  A job is a record of what its thread     *)
(* captured; what the servers answer is chosen freely.                     *)
(***************************************************************************)
EXTENDS Integers, FiniteSets

CONSTANT MaxRequests    \* bound: searches and downloads

ASSUME JobsAssumption == MaxRequests \in Nat

VARIABLES
    phase, results, downloadedPath,   \* g_osState
    osGeneration,                     \* g_osGeneration
    jobs,                             \* the detached threads
    os,                               \* the snapshot the panel draws from
    drawing,                          \* the panel is between snapshot and use
    added,                            \* generations given to sub-add
    searched,                         \* generation of the last search
    checkStarted, updateVersion, checking,  \* the update check
    toasts                            \* "Update available" toasts shown

subtitleVars == <<phase, results, downloadedPath, osGeneration, jobs, os,
                  drawing, added, searched>>
updateVars == <<checkStarted, updateVersion, checking, toasts>>
jobVars == <<subtitleVars, updateVars>>

NoVersion == ""   \* g_updateVersion while no newer one is known

Busy(p) == p \in {"Searching", "Downloading"}

\* A result list is the generation of the search that found it; 0 is empty.
JobsInit ==
    /\ phase = "Idle" /\ results = 0 /\ downloadedPath = 0 /\ osGeneration = 0
    /\ jobs = {} /\ added = {} /\ searched = 0 /\ drawing = FALSE
    /\ os = [phase |-> "Idle", results |-> 0, path |-> 0]
    /\ checkStarted = FALSE /\ updateVersion = NoVersion /\ checking = FALSE
    /\ toasts = 0

----------------------------------------------------------------------------
(* Subtitles: the panel.                                                   *)

\* OsGetSnapshot at the start of the section.
Snapshot ==
    /\ ~drawing /\ drawing' = TRUE
    /\ os' = [phase |-> phase, results |-> results, path |-> downloadedPath]
    /\ UNCHANGED <<phase, results, downloadedPath, osGeneration, jobs, added,
                   searched, updateVars>>

Launch(kind, step, keep) ==
    /\ osGeneration < MaxRequests
    /\ osGeneration' = osGeneration + 1
    /\ jobs' = jobs \cup {[gen |-> osGeneration + 1, kind |-> kind,
                           step |-> step, keep |-> keep]}

\* A slip to check against: the list of the previous search stays until there is another.
OsStartSearchKeeping ==
    /\ Launch("search", "request", 0)
    /\ phase' = "Searching" /\ downloadedPath' = 0
    /\ searched' = osGeneration'
    /\ UNCHANGED results

OsStartSearch ==
    /\ Launch("search", "request", 0)
    /\ phase' = "Searching" /\ results' = 0 /\ downloadedPath' = 0
    /\ searched' = osGeneration'

OsStartDownload ==
    /\ Launch("download", "request", results)
    /\ phase' = "Downloading"
    /\ UNCHANGED <<results, downloadedPath, searched>>

OsAcknowledgeDownload ==
    IF phase = "Downloaded"
    THEN phase' = "Results" /\ downloadedPath' = 0
    ELSE UNCHANGED <<phase, downloadedPath>>

\* The rest of the section, drawn from the snapshot: one click at most, a
\* finished download is added and acknowledged, and the list has its buttons
\* only in the phases Results and Downloading.
DrawSection ==
    /\ drawing /\ drawing' = FALSE
    /\ LET finished == os.phase = "Downloaded" /\ os.path # 0
       IN /\ added' = IF finished THEN added \cup {<<os.path, Cardinality(added)>>}
                      ELSE added
          /\ \/ /\ IF finished THEN OsAcknowledgeDownload
                   ELSE UNCHANGED <<phase, downloadedPath>>
                /\ UNCHANGED <<results, osGeneration, jobs, searched>>
             \/ ~Busy(os.phase) /\ OsStartSearch
             \/ /\ os.phase = "Results" /\ os.results # 0
                /\ OsStartDownload
    /\ UNCHANGED <<os, updateVars>>

----------------------------------------------------------------------------
(* Subtitles: the threads.                                                 *)

\* SetState: a job that was superseded changes nothing.
SetState(job, p, list, path) ==
    IF job.gen # osGeneration
    THEN UNCHANGED <<phase, results, downloadedPath>>
    ELSE /\ phase' = p
         /\ results' = IF list # 0 \/ p = "Results" THEN list ELSE results
         /\ downloadedPath' = path

Ends(job) == jobs' = jobs \ {job}

\* The search: no answer, an error status or an answer that does not parse is
\* an error; otherwise the list, which may be empty, replaces the old one.
SearchAnswered(job) ==
    /\ job.kind = "search"
    /\ Ends(job)
    /\ \/ SetState(job, "Error", 0, 0)
       \/ \E list \in {0, job.gen} : SetState(job, "Results", list, 0)

\* A slip to check against: a failed step only ends the thread.
DownloadFailsSilently(job) ==
    /\ job.kind = "download" /\ Ends(job)
    /\ UNCHANGED <<phase, results, downloadedPath>>

\* The download: a link is asked for, the file behind it is fetched and is
\* written to the folder of temporary files; each of the three may fail.
DownloadFails(job) ==
    job.kind = "download" /\ Ends(job) /\ SetState(job, "Error", job.keep, 0)

DownloadAdvances(job) ==
    /\ job.kind = "download"
    /\ IF job.step = "write"
       THEN Ends(job) /\ SetState(job, "Downloaded", job.keep, job.gen)
       ELSE /\ jobs' = (jobs \ {job}) \cup
                 {[job EXCEPT !.step = IF @ = "request" THEN "fetch" ELSE "write"]}
            /\ UNCHANGED <<phase, results, downloadedPath>>

DownloadStep(job) == DownloadFails(job) \/ DownloadAdvances(job)

JobStep ==
    /\ \E job \in jobs : SearchAnswered(job) \/ DownloadStep(job)
    /\ UNCHANGED <<osGeneration, os, drawing, added, searched, updateVars>>

----------------------------------------------------------------------------
(* The update check.                                                       *)

\* StartUpdateCheck: once per process.
StartUpdateCheck ==
    /\ ~checkStarted /\ checkStarted' = TRUE /\ checking' = TRUE
    /\ UNCHANGED <<subtitleVars, updateVersion, toasts>>

\* No answer, a draft, a prerelease, or a version that is not newer: nothing.
CheckAnswered ==
    /\ checking /\ checking' = FALSE
    /\ updateVersion' \in {NoVersion, "newer"}
    /\ UNCHANGED <<subtitleVars, checkStarted, toasts>>

\* The frame loop shows it once: updateToastShown.
UpdateToast ==
    /\ updateVersion # NoVersion /\ toasts = 0
    /\ toasts' = toasts + 1
    /\ UNCHANGED <<subtitleVars, checkStarted, updateVersion, checking>>

----------------------------------------------------------------------------
JobsNext == Snapshot \/ DrawSection \/ JobStep
            \/ StartUpdateCheck \/ CheckAnswered \/ UpdateToast

\* Every thread runs, and every HTTP call returns: WinHttpSetTimeouts bounds
\* each phase of a request (opensubtitles.cpp:102, update_check.cpp:69).
JobsFairness == WF_jobVars(JobStep) /\ WF_jobVars(UpdateToast)

----------------------------------------------------------------------------
(* Properties.                                                             *)

\* A finished download is given to sub-add once: the header says "UI should
\* sub-add it (once)" (opensubtitles.h:23), and the panel draws every frame.
AddedOnce ==
    /\ \A a, b \in added : a[1] = b[1] => a = b
    /\ \A a \in added : a[1] <= osGeneration

\* The list that is offered for download is of the last search; after a search
\* that failed there is none.
ResultsAreOfTheLastSearch ==
    /\ results \in {0, searched}
    /\ phase = "Searching" => results = 0

\* Only one request is under way, and it is the latest: the buttons are
\* disabled while one is, although the panel draws from a snapshot.
OneRequestAtATime ==
    /\ Cardinality(jobs) <= 1
    /\ \A job \in jobs : job.gen = osGeneration
    /\ Busy(phase) <=> jobs # {}

\* A search or a download always ends, with a result or with an error: the
\* panel does not stay disabled.
RequestsEnd == Busy(phase) ~> ~Busy(phase)

\* A newer version is announced, and announced once.
UpdateAnnouncedOnce ==
    /\ toasts <= 1
    /\ toasts = 1 => updateVersion # NoVersion /\ checkStarted

\* Together: what the panel and the toast show are answers to what was asked last.
AnswersMatchRequests ==
    AddedOnce /\ ResultsAreOfTheLastSearch /\ OneRequestAtATime /\ UpdateAnnouncedOnce
=============================================================================
