------------------------------ MODULE MCLogger ------------------------------
\* Logger with lines of one or two units.
EXTENDS Logger
=============================================================================
