----------------------------- MODULE MCCrawlJobs -----------------------------
(* Bounds for CrawlJobs: two sections, a budget of two pages each, three jobs, *)
(* so that a cancelled job, a job after it and a close() all meet.             *)
EXTENDS CrawlJobs

CONSTANTS s1, s2

MCSource == {s1, s2}

=============================================================================
