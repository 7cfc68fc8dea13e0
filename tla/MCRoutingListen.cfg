CONSTANTS
  Configurations <- SomeConfigurations
  Uris <- SomeUris
  Hosts <- SomeHosts
  Lengths = {0, 1, 2, 3}
  Dirs <- SomeDirs
  InitialFiles <- SomeFiles
  UploadNames = {"f", "a"}
SPECIFICATION Spec
PROPERTIES
  ServerByListen
