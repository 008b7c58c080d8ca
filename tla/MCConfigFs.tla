----------------------------- MODULE MCConfigFs -----------------------------
EXTENDS ConfigFs

Names == {"images", "code", "staging", "other", "file", "sub"}

\* /images, /code/staging, a second file or directory beside it, and two
\* levels below.
SmallDisk ==
  {<<"images">>, <<"code">>, <<"code", "staging">>, <<"code", "other">>,
   <<"code", "staging", "file">>, <<"code", "staging", "sub">>,
   <<"code", "staging", "sub", "file">>}

ImagesDir  == <<"images">>
StagingDir == <<"code", "staging">>

ConfigFiles == {<<"code", "other">>, <<"code", "staging", "sub", "file">>}
=============================================================================
