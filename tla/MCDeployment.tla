----------------------------- MODULE MCDeployment -----------------------------
\* Two containers, and two refunds of an order that has money for one.
EXTENDS Deployment
================================================================================
