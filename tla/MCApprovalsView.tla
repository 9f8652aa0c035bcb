---------------------------- MODULE MCApprovalsView ----------------------------
\* One approval between two requests, and a page with two lists under way.
EXTENDS ApprovalsView
================================================================================
