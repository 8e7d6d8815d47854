---- MODULE MCViewer ----
EXTENDS Viewer
====
