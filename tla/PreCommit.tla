------------------------------- MODULE PreCommit -------------------------------
(***************************************************************************)
(* The pre-commit chain of the site (preCommit.sh): seven generators that  *)
(* read the working tree, rewrite files in it and stage what they rewrote,  *)
(* one after the other, before git makes a commit of the index.             *)
(*                                                                          *)
(* A file is known by what it shows: which edit of each source went into    *)
(* it.  One file stands for each kind the steps treat differently.          *)
(***************************************************************************)
EXTENDS Naturals

CONSTANTS
    Dated,       \* the page has a WebSite node, and its source an `updated:` field
    MaxChanges,  \* bound: edits by the author
    MaxDrift,    \* bound: changes of the date and of the NTP figures
    MaxAborts    \* bound: commits that a step aborts

Authored  == {"tri",      \* content/*.tri, a page's source
              "post",     \* content/post/*.tri, a post that is new
              "hand",     \* a hand-written page under rootdomain/personal
              "home",     \* rootdomain/professional/index.html
              "csv"}      \* webBadges.csv
Generated == {"page",     \* rootdomain/personal/blog.html, which lists the posts
              "feed",     \* feed.xml, rss.xml, sitemap.xml
              "font"}     \* the subset fonts
SiteFile  == Authored \cup Generated
Figure    == {"day", "ntp"}
Source    == Authored \cup Figure

ASSUME HookAssumption == Dated \in BOOLEAN /\ {MaxChanges, MaxDrift, MaxAborts} \subseteq Nat

VARIABLES
    work,      \* the working tree
    index,     \* what is staged
    head,      \* the last commit
    asked,     \* what the author had staged when the commit under way began
    unasked,   \* the files that differed from it then
    figures,   \* today's date and the figures of the NTP page
    place,     \* the step of the chain that is next
    changes,   \* edits by the author
    aborts     \* commits that a step has aborted

hookvars == <<work, index, head, asked, unasked, figures, place, changes, aborts>>

Content == [Source -> Nat]
Blank   == [s \in Source |-> 0]

\* The trees that `git diff -- <path>` patterns name.
Swept == {"page", "hand", "feed", "font"}   \* rootdomain/personal gemini gopher
Pages == {"page", "hand"}                   \* rootdomain/personal/*.html

\* A file that was never added is not listed by `git diff`.
Tracked(f) == f = "post" => index["post"] # Blank

\* `git diff --name-only`: the working tree against the index.
Dirty(f) == Tracked(f) /\ work[f] # index[f]

\* The index after `git add` of fs, from the working tree w.
Added(fs, w) == [f \in SiteFile |-> IF f \in fs THEN w[f] ELSE index[f]]

HookInit ==
    /\ work = [f \in SiteFile |-> Blank]
    /\ index = work
    /\ head = work
    /\ asked = work
    /\ unasked = {}
    /\ figures = [s \in Figure |-> 0]
    /\ place = "idle"
    /\ changes = 0
    /\ aborts = 0

-------------------------------------------------------------------------------
(***************************************************************************)
(* The author                                                              *)
(***************************************************************************)

Change(f) ==
    /\ place = "idle"
    /\ changes < MaxChanges
    /\ changes' = changes + 1
    /\ work' = [work EXCEPT ![f][f] = changes + 1]
    /\ UNCHANGED <<index, head, asked, unasked, figures, place, aborts>>

\* `git add` of one file, or of everything (dangerouslyDeployImmediately.sh).
\* Generated pages are the hook's to stage.
Add(fs) ==
    /\ place = "idle"
    /\ index' = Added(fs, work)
    /\ UNCHANGED <<work, head, asked, unasked, figures, place, changes, aborts>>

Repaged(w) == [w EXCEPT !["page"]["tri"]  = w["tri"]["tri"],
                        !["page"]["day"]  = w["tri"]["day"],
                        !["page"]["post"] = w["post"]["post"]]

\* ./triptych.pl by hand, to look at the page.
RenderByHand ==
    /\ place = "idle"
    /\ work' = Repaged(work)
    /\ UNCHANGED <<index, head, asked, unasked, figures, place, changes, aborts>>

Drift(s) ==
    /\ figures[s] < MaxDrift
    /\ figures' = [figures EXCEPT ![s] = @ + 1]
    /\ UNCHANGED <<work, index, head, asked, unasked, place, changes, aborts>>

BeginCommit ==
    /\ place = "idle"
    /\ asked' = index
    /\ unasked' = {f \in SiteFile : Dirty(f)}
    /\ place' = "render"
    /\ UNCHANGED <<work, index, head, figures, changes, aborts>>

-------------------------------------------------------------------------------
(***************************************************************************)
(* The chain                                                               *)
(***************************************************************************)

At(step, next) ==
    /\ place = step
    /\ place' = next
    /\ UNCHANGED <<head, asked, unasked, figures, changes, aborts>>

\* What was asked is not kept beyond the commit.
Forgotten == asked' = head' /\ unasked' = {}

SourcesDirty == Dirty("tri") \/ Dirty("post")

\* Mutant of Render: the unstaged guard is gone.
RenderUnguarded ==
    /\ At("render", "date")
    /\ work' = Repaged(work)
    /\ index' = Added({"page"}, work')

\* triptych.pl, then `git add` of whatever differs under the three trees.
Render ==
    /\ ~ SourcesDirty
    /\ At("render", "date")
    /\ work' = Repaged(work)
    /\ index' = Added({f \in Swept : work'[f] # index[f]}, work')

SkipRender ==
    /\ SourcesDirty
    /\ At("render", "date")
    /\ UNCHANGED <<work, index>>

\* datestampHook.pl and ntpStatHook.pl touch a page that is being committed and
\* has no unstaged changes.
Stampable == index["home"] # head["home"] /\ ~ Dirty("home")

Stamped(w, s) == [w EXCEPT !["home"][s] = figures[s]]

\* A generated page that is to be stamped.  Its source is not looked at.
PageDue == Dated /\ index["page"] # head["page"] /\ ~ Dirty("page") /\ work["tri"]["day"] # figures["day"]

Redated(w) == [w EXCEPT !["tri"]["day"] = figures["day"]]

\* A page that is generated is dated in its source, which is staged, and
\* rendered anew, which is not; the home page is dated itself.
Datestamp ==
    /\ At("date", "ntp")
    /\ LET paged == IF PageDue THEN Repaged(Redated(work)) ELSE work
       IN  work' = IF Stampable THEN Stamped(paged, "day") ELSE paged
    /\ index' = Added({f \in {"tri", "home"} : IF f = "tri" THEN PageDue ELSE Stampable}, work')

\* A page that cannot be rendered, or a file that cannot be staged: the other
\* page has its turn, and the commit is aborted.
DatestampFails ==
    /\ place = "date"
    /\ aborts < MaxAborts
    /\ aborts' = aborts + 1
    /\ place' = "idle"
    /\ \E paged \in {work} \cup {w \in {Redated(work), Repaged(Redated(work))} : PageDue} :
           work' \in {paged} \cup {w \in {Stamped(paged, "day")} : Stampable}
    /\ index' \in {Added(fs, work') : fs \in {{}, {"tri"}, {"home"}} \cap
                        SUBSET ({f \in {"tri"} : work'["page"] # work["page"]} \cup
                                {f \in {"home"} : work'["home"] # work["home"]})}
    /\ UNCHANGED <<head, figures, changes>>
    /\ Forgotten

\* Away from the server there are no figures to read.
NtpStat ==
    /\ At("ntp", "feeds")
    /\ \/ /\ Stampable
          /\ work' = Stamped(work, "ntp")
          /\ index' = Added({"home"}, work')
       \/ UNCHANGED <<work, index>>

\* Mutant of PagesDirty: the blog page is missing from the guard.
HandDirty == Dirty("hand")

PagesDirty == \E f \in Pages : Dirty(f)

\* makeFeed.py and makeMeta.py, behind one unstaged guard.
Feeds ==
    /\ At("feeds", "fonts")
    /\ IF PagesDirty
       THEN UNCHANGED <<work, index>>
       ELSE /\ work' = [work EXCEPT !["feed"] = [work["page"] EXCEPT !["csv"] = 0, !["day"] = 0]]
            /\ index' = Added({"feed"}, work')

\* makeFontSubset.py: no guard.
Fonts ==
    /\ At("fonts", "badges")
    /\ work' = [work EXCEPT !["font"] = [Blank EXCEPT !["tri"]  = work["page"]["tri"],
                                                      !["post"] = work["page"]["post"],
                                                      !["hand"] = work["hand"]["hand"]]]
    /\ index' = Added({"font"}, work')

\* Mutant of Badges: -A without the paths.
BadgesAddingAll ==
    /\ At("badges", "commit")
    /\ work' = [f \in SiteFile |-> IF f \in Pages THEN [work[f] EXCEPT !["csv"] = work["csv"]["csv"]]
                                                  ELSE work[f]]
    /\ index' = work'

\* badgeBuild.pl writes the wall into every page; a page that was dirty before
\* is not staged.
Badges ==
    /\ At("badges", "commit")
    /\ work' = [f \in SiteFile |-> IF f \in Pages THEN [work[f] EXCEPT !["csv"] = work["csv"]["csv"]]
                                                  ELSE work[f]]
    /\ index' = Added({f \in Pages : ~ Dirty(f)}, work')

\* A step that fails, makeMeta.py's checks above all, aborts the commit.  What
\* the steps before it staged stays staged.
StepFails ==
    /\ place \notin {"idle", "commit"}
    /\ aborts < MaxAborts
    /\ aborts' = aborts + 1
    /\ place' = "idle"
    /\ UNCHANGED <<work, index, head, figures, changes>>
    /\ Forgotten

Commit ==
    /\ place = "commit"
    /\ head' = index
    /\ place' = "idle"
    /\ UNCHANGED <<work, index, figures, changes, aborts>>
    /\ Forgotten

Chain ==
    \/ Render \/ SkipRender
    \/ Datestamp \/ DatestampFails
    \/ NtpStat
    \/ Feeds
    \/ Fonts
    \/ Badges
    \/ StepFails
    \/ Commit

HookNext ==
    \/ \E f \in Authored : Change(f) \/ Add({f})
    \/ Add(SiteFile)
    \/ RenderByHand
    \/ \E s \in Figure : Drift(s)
    \/ BeginCommit
    \/ Chain

HookSpec == HookInit /\ [][HookNext]_hookvars

-------------------------------------------------------------------------------
(***************************************************************************)
(* Properties                                                              *)
(***************************************************************************)

Tree == [SiteFile -> Content]

\* The sources a file of each kind may show.
Shows == [f \in SiteFile |-> CASE f = "page" -> {"tri", "post", "csv", "day"}
                           [] f = "tri" -> {"tri", "day"}
                           [] f = "feed" -> {"tri", "post"}
                           [] f = "font" -> {"tri", "post", "hand"}
                           [] f = "hand" -> {"hand", "csv"}
                           [] f = "home" -> {"home"} \cup Figure
                           [] OTHER -> {f}]

HookTypes ==
    /\ {work, index, head, asked} \subseteq Tree
    /\ unasked \subseteq SiteFile
    /\ figures \in [Figure -> Nat]
    /\ place \in {"idle", "render", "date", "ntp", "feeds", "fonts", "badges", "commit"}
    /\ changes \in Nat
    /\ aborts \in Nat
    /\ \A f \in SiteFile, s \in Source : s \notin Shows[f] => work[f][s] = 0

\* What the author wrote is committed as the author staged it, whatever the
\* steps stage for themselves ("never sweeps uncommitted work into the commit",
\* githooks.txt:211), but for two files: a hand-written page, which the first
\* step stages with the three trees unless a source has unstaged edits, and the
\* source of a staged page without unstaged edits of its own, which the
\* datestamp stages.
SourcesUnswept ==
    place = "commit" => \A f \in Authored : index[f][f] # asked[f][f] =>
        /\ f \in unasked
        /\ \/ f = "hand" /\ unasked \cap {"tri", "post"} = {}
           \/ f = "tri" /\ Dated /\ "page" \notin unasked /\ asked["page"] # head["page"]

\* The chain of steps keeps its trees in order, and leaves the author's alone.
TreesSound == HookTypes /\ SourcesUnswept

\* A feed that the steps stage announces what the page committed with it lists:
\* "a feed built from a half-finished working tree makes a false claim"
\* (githooks.txt:42).
FeedsTruthful ==
    place = "commit" /\ index["feed"] # asked["feed"] =>
        \A s \in {"tri", "post"} : index["feed"][s] = index["page"][s]

\* A page that the steps stage was rendered from the sources that are committed
\* with it: otherwise it is "a page in the commit that no source in that commit
\* describes" (preCommit.sh:30).  The guard does not see a post that was never
\* added, and its draft is rendered all the same.
PagesDescribed ==
    place = "commit" =>
        \A s \in {"tri", "post"} :
            Tracked(s) /\ index["page"][s] # asked["page"][s]
                => index["page"][s] = index[s][s]
===============================================================================
